# spinet in TLA+

spinet is a proactor-style network library for Linux: epoll, a thread per
runtime, callbacks. This directory holds TLA+ modules that model it, TLC
configurations that check them on small instances, and proofs for the TLA+
proof system (TLAPS) that hold for instances of any size. Paths below are
relative to the root of the repository.

## 1. The system

| component | state | operations |
|---|---|---|
| `TcpSocket` (`src/core/tcp_socket.cpp`) | `fd_`, atomic `closed_`, a read and a write task queue, one mutex each | `async_read[_some]`, `async_write[_some]`, `cancel`, `close`, and for the runtime `do_read`, `do_write` |
| `Handle` (`src/core/handle.cpp`) | `fd_`, `weak_ptr` to its runtime | `close`: deregister, then `::close(fd_)` |
| `Runtime` (`src/core/runtime.cpp`) | atomics `running_`, `stopped_`; the thread; `all_handles_` by descriptor, `all_sockets_`, `removable_handles_` under `handles_mtx_`; the epoll set | `run`, `stop`, `exec` (the loop), `register_handle`, `deregister_handle`, `release_all_handles` |
| `Server` (`src/server.cpp`), `Client` (`src/client.cpp`) | atomic `running_`, `settings_`, `workers_` under `mtx_` | `with_settings`, `run`, `stop`; `listen_tcp_endpoint`; `tcp_connect` |
| `TcpAcceptor` (in `src/server.cpp`) | a listening socket | `do_accept`, `close` |
| `Timer` (`src/timer.cpp`) | atomics `running_`, `stopped_`; a heap of waits with `waiter_mtx_` and `waiter_cv_`; the thread | `run`, `stop`, `exec`, `async_wait_for`, `async_wait_until` |
| `Result`, `Address`, `util.h` | values | predicates, conversions |
| `HttpConnection` (`example/http/keep_alive/server.cpp`, `example/http/simple/server.cpp`) | a socket, the header's buffer, `parser_`, `request_`, the time of the last receive; it lives in the callbacks that own it | `start`, the callbacks of header, body and response, `check_persistent_connection` |
| `httpparser` (`example/http/include/httpparser/`) | a state, sizes, the message so far | `HttpRequestParser::parse`, `HttpResponseParser::parse`, `UrlParser::parse` |
| other examples, `third_party/tsl` | | |

**How they interact.** A `Server` gives each of its runtimes one listening
socket and acceptor per endpoint; a `Client` hands each connection to the next
runtime in turn. A runtime's thread waits for events 1 ms at a time, calls
`do_accept`, `do_read`, `do_write` or `close` for each, then sweeps all its
sockets with `do_read` and `do_write`, then drops the handles that were
deregistered. `do_read` and `do_write` take the front task of a queue, make one
`recv` or `send`, and call the task's callback on the runtime's thread with the
mutex released. Application threads call every public operation at any time;
callbacks do too. `close()` drains both queues on the thread it was called on.
The `Timer` is independent; applications share it between connections. An
`HttpConnection` is called back by the runtime's thread (header received, body
received, response sent) and, in the keep_alive server, every 100 ms by the
timer's thread, which closes the socket after 2 s without a receive.

**What is hard.** `closed_` is tested under a mutex and set without one.
`close()` and the runtime's thread take tasks from the same queues. A descriptor
number is reused by the kernel as soon as it is closed. `stop()` joins threads
with `mtx_` held, and tells them to stop through a flag that the thread itself
resets when it starts. The timer's condition variable is notified without its
mutex. The loop works on raw pointers (the events, a copy of `all_sockets_`)
while callbacks and other threads close sockets and drop references, and a
`TcpSocket`'s destructor calls `close()` on whatever thread drops the last one,
possibly with `handles_mtx_` held. `PROJECT.json` lists these hazards with
their lines.

**What makes each part correct.**
- Socket: no callback twice, none for what was refused or cancelled; `close()`
  completes all that was accepted; one `::close(fd_)` and of its own file; no
  system call on a number that belongs to somebody else; a callback is told
  what was moved; errors mean the connection is broken. (The code does not
  have all of this, and the same goes for the other parts: see Violations.)
- Endpoint: "not running" means that every runtime has ended; `run()` starts
  all or none, `stop()` returns, and leaves nothing running; a connection is
  handed to a runtime that runs.
- Timer: nothing early, nothing lost, one thread, and what is due is called.
- Runtime: no raw pointer outlives its object, no mutex is locked twice, every
  descriptor is closed, a table entry is never overwritten, nothing is kept for
  ever, the loop can be stopped.
- HttpConnection: it waits for one thing at a time, receives into memory it
  owns, does what its response said, and does not outlive its use.
- Parsers: a message is complete at its last character, and reads as written.

## 2. The modules

| module | models | lines of code it stands for |
|---|---|---|
| `AsyncOps` | what a socket promises, without threads | `include/spinet/core/tcp_socket.h` |
| `TcpSocket` | one socket, its runtime's thread, application threads, the peer, the descriptor table | `tcp_socket.cpp`, `handle.cpp`, the sweep of `runtime.cpp` |
| `TcpSocketProofs` | inductive invariant of `TcpSocket` and its theorems | |
| `TcpSocketRefinement` | proof that `TcpSocket` implements `AsyncOps` | |
| `Endpoint` | life cycle of a server or client and its runtimes | `server.cpp`, `client.cpp`, `runtime.cpp` |
| `EndpointProofs` | inductive invariant of `Endpoint` and its theorems | |
| `Timer` | the timer | `timer.cpp` |
| `TimerProofs` | inductive invariant of `Timer` and its theorems | |
| `Registry` | the sockets of one runtime: tables, references, raw pointers, destructors | `runtime.cpp`, `handle.cpp`, `tcp_socket.cpp` |
| `RegistryProofs` | inductive invariant of `Registry` and its theorems | |
| `HttpParser` | the request parser, as a table | `httprequestparser.h`, `request.h` |
| `HttpResponseParser` | the response parser | `httpresponseparser.h` |
| `HttpMessages` | the parsers at work on a text that comes in pieces, and what they promise | the three `parse` |
| `UrlParser` | the URL parser and what it promises | `urlparser.h` |
| `HttpParserProofs` | what both parsers keep, for texts of any length | |
| `HttpMessagesProofs` | that every message and every URL is read as it was written | |
| `HttpExchange` | what a peer may rely on in a connection, without sockets and parsers | `keep_alive/server.cpp`, `simple/server.cpp` |
| `HttpConnection` | one connection of either HTTP server with its socket, timer and parser | `keep_alive/server.cpp`, `simple/server.cpp` |
| `HttpConnectionProofs` | inductive invariant of `HttpConnection`, its theorems, and that it implements `HttpExchange` | |
| `MCTcpSocket`, `MCEndpoint`, `MCTimer`, `MCRegistry`, `MCHttp` | instances for TLC | |

`TcpSocket` is one socket in depth; `Registry` is all sockets of a runtime, each
of them only as far as its object, its table entry and its descriptor go;
`Endpoint` is all runtimes of a server or client, each of them only as far as
its thread goes; `HttpConnection` composes a socket, a timer and the request
parser.

### TcpSocket

A thread is at a place `pc[t]`; a step is what it does between two points where
another thread can be seen: taking or releasing a mutex, the exchange of
`closed_`, a system call, a callback. So `async_read` is two steps (`Submit`:
lock and find `closed_` false; `Push`: push and unlock), because `close()` sets
`closed_` without the mutex in between; its early return is `Refuse`. `close()`
is `CloseBegin` (the exchange), `ReadRuntime` (`runtime_.lock()`, without a
mutex), `Deregister` and `CloseFd` (the rest of `Handle::close`), then for each queue `DrainTake` (pop, unlock), `DrainCall`, `DrainReturn`, until
`DrainNext`. `do_read` and `do_write` are `DoBegin` (lock, test, copy the front
task), `ExecMove` or `ExecNone` (the system call and what `exec` makes of its
answer, pop, unlock) and `Invoke`. `cancel` is one step, since it holds both
mutexes from end to end.

- Bytes are counted, not carried. `Size[op]`, `Until[op]` are the arguments and
  the strategy (`async_read` or `async_read_some`) of each operation.
- `QueuedPos == 0`: `do_read` executes a *copy* of the front task and never
  writes the copy's `pos_` back.
- `fd` says what the number names: the socket's file, nothing, or a file opened
  since (`FdReuse`); `foreign` records that a system call hit the last.
- `status`, `outcome`, `given`, `moved`, `calls`, `foreign`, `arrived` are
  history for the properties; no guard of the code reads them, except that an
  operation is submitted once.
- A callback that runs on the runtime's thread makes `RunsAppCode` true of it. A
  callback of `close()` finds `closed_` set, so all it can do is be refused,
  cancel, or return.
- `release_all_handles` is two steps: `RuntimeStop` locks `handles_mtx_` between
  two turns and resets `runtime_` (`linked`), `ReleaseHandles` empties the tables
  (`registered`), unlocks and ends the thread. A `close()` in between (`Releasing`)
  finds no runtime, skips `Deregister`, and closes a descriptor that the tables
  still hold; `RegisteredOwnsFd` says so, and that nobody who obtains the mutex
  sees it.
- A `TcpSocket` that loses its last reference closes in its destructor: that is
  `CloseBegin` on that thread.

### AsyncOps

An operation is new, then accepted or refused; an accepted one is completed by
one call of its callback, or discarded by `cancel`; after `Close` nothing is
accepted, and what was accepted is completed. The socket implements it under
the mapping `open <- ~closed`, `phase <- AbsPhase`, `called <- calls`. An
operation counts as accepted from the moment `async_read` has found `closed_`
false, since it cannot fail any more, and as completed from the call of its
callback.

### Endpoint

`Server` and `Client` have the same `with_settings`, `run` and `stop`; `kind`, chosen
in the first state, says which of `Listen`/`Accept` and `Connect` exist. Every
caller may run, stop and use it, as in the examples, which run a server on one
thread and stop it on another. An operation that holds `mtx_` throughout and waits
for nobody is one step; `run` and `stop` are a step for each atomic access and for
each worker. `RunBegin` is the exchange of `running_` *before* the lock. Each
runtime has `wrunning`, `wstopped` and a place of its thread: `ExecStart` is
`stopped_ = false`, `ExecLeave` is `release_all_handles`, `ExecEnd` is
`running_ = false`. Callbacks (`CallbacksCall`) may call `tcp_connect` or
`has_settings`, and so wait for `mtx_`; callbacks that call `run` or `stop` are not
modelled (`stop` would join the thread it runs on).

### Timer

`fate[w]` is the state of each wait that is followed, so the heap has `Waiting`, and
the batch `Operations` is what was taken and not called yet. `others` are the waits
that are not followed: `AsyncWaitOther` submits one at any time and for ever, so a
stream of later waits that keeps a due one from being called is a behaviour of the
model. Time is what is left: `left[w]` and the members of `others` count down to 0,
where a wait is due, and `Tick` comes between any two steps, for ever. `Pops(t)` says
what the loop pops: a wait leaves the heap if everything above it, and it, is due,
with `Above` from `operator<`. `CallsDone` tests the heap and goes to sleep on
`waiter_cv_` in one step, because it holds `waiter_mtx_` until `wait` has released it.
Spurious wake-ups are possible; the sleep for the rest of `precision_` takes any time.

### Registry

`all_handles_`, `all_sockets_` and the epoll set change together, under
`handles_mtx_`, so one table (`handles`) stands for the three; acceptors are in
`Endpoint`. A socket is at a place `at[s]`: open, one of the steps of `close()`
(`ReadRuntime`: `runtime_.lock()` without a mutex; `Deregister`; `CloseFd`;
`Drain`), or closed. `by`, `how` and `depth` say which thread is inside that
`close()`, whether it came with a `shared_ptr`, with a raw pointer of the loop,
or is the destructor, and how deeply the call is nested, because a callback that
`close()` calls may close another socket.

Whether an object exists is not stored but derived: `Kept` lists everything that
can refer to it (the application, the table, `removable_handles_`, a callback in
a queue, the references the loop is destroying). When one of them goes and
nothing is left, `DestroyIfLast` runs the destructor, which is a `close()` on
that thread. The loop's turn is `Poll` (raw pointers of the events), `Visit*`
(one `do_read`, `do_write` or `close` through such a pointer), `Copy` (the raw
pointers of the sweep), `Clear` and `CleanupNext` (`removable_handles_.clear()`,
one reference at a time, `handles_mtx_` held); `release_all_handles` is `Leave`,
`Reset` for each socket, `Release`, and `CleanupNext` again.

- The endpoint's `run()` is `RunBegin` (the exchange of `running_`) and `Spawn`,
  its `stop()` is `StopLock`, `StopSet` and `StopReturn`, and `ExecStart` is the
  first statement of `exec`, `stopped_ = false`, on the new thread: a `StopSet`
  before it is lost, and that `stop()` waits for ever.
- `Connect` needs `running_` and, on an application thread, waits while a `stop()`
  holds `mtx_`. A callback on the loop's thread that connects then waits for ever
  (`ConnectBlocks`), since `stop()` joins that thread.
- An object and a number that are new are the next ones in order (`NewSocket`,
  `NewFd`): which they are makes no difference.
- The branch of `register_handle` that replaces an entry is not modelled;
  `NumbersAreFresh` shows that it is never taken.
- `lock()` of a `weak_ptr` that is being reset obtains the runtime or nothing.

### The parsers

The `switch` of `consume` is a set of rows: a state, what it accepts, the next
state, what is done with the symbol. `Step` takes the row of the state that
accepts the symbol, or reports `ParsingError`. A symbol is a character where the
parser tells characters apart and a run of letters where it only appends; `control`
stands for the control characters that nothing names and `byte` for what `isChar`
refuses, so that `isChar`, `isControl` and `isSpecial` are those of the code. Sizes
have the width of `size_t` (`SizeModulus`), and what `atoi` makes of a Content-Length
that of `int` (`Signed`, `Value`, `Truncated`, `IntMax`); a negative one makes
`reserve()` throw, and nothing catches it (`Throws`). The response parser has rows of its
own for the status line and for the headers that announce a body (the request
parser takes them from POST and PUT only), and shares the rest.

`HttpMessages` does not look at the rows. A message is a record: method and URI, or
code and status; the version in digits; headers, each with a name, a value and its
folds; a body of a given size, or chunks with an extension and trailers. `Render`
writes it as HTTP does, `RenderUrl` a URL. `MessagesOK` says which messages and URLs
are meant: `WrittenHeaders`, `WrittenTrailers`, `BodyOK` (the size is that of the
content, a chunk is not empty), `RequestOK` (only POST and PUT have a body, and only
the body is announced by a Content-Length or Transfer-Encoding there), `ResponseOK`
(a code of three digits), `UrlOK` (a path; a port of 16 bits; a password that is not
digits only). It bounds nothing: TLC tests it for the messages of `MCHttp`, and the
theorems hold for all that satisfy it.

The state, `document`, is what was written, what of its text is still to come and the
parser. A step of `DocumentSpec` is a call of `parse` with the next symbol or with
all the rest. The properties say that the parser is incomplete before the last
character, completed with it, and has read what was written (`HasRead`, `HasReadUrl`),
wherever the text was cut. `MCHttp` has one specification for both modules: a
behaviour parses a document, or serves a connection.

The assumption also says what the parsers do not accept, or not read in full: a
trailer's name begins with a letter (anything else is an error), one space follows
the colon of a header, a header that announces a body is not folded (the size is
read at the end of its first line), and the numbers that the code keeps in an `int`
fit into one (`IntMax`). A chunk's size is a `long`; that a text is shorter than
that is taken for granted, and hexadecimal digits are lower-case.

### HttpConnection

`app` chooses the server; the simple one has no timer, never keeps a connection,
and starts each parse with a new `Request`. The socket's queues hold the
operations, `callback` is the one the runtime's thread is inside. Each callback
is one step: `HeaderReceived` (parse, then start a body's `async_read` or
`send_response`), `BodyReceived`, `ResponseSent` (close, or a new buffer and the
next receive), `CallbackFailed`. The timer's check is two steps, `Expires` (it
has compared the time) and `ExpiredClose`, since the runtime's thread may receive
in between.

A body is announced by what `std::stoi` makes of the header (`Announced`, `IsInt`):
blanks and a sign are taken, a number beyond `int` throws, is caught and there is no
body. A negative one is caught by nobody (`Aborts`): `HeaderThrows` ends the program
(`server = "aborted"`), after which nothing happens.

The timer is shared. `timer = "busy"` means that another connection's later wait is
on top of the heap; `TimerBusy` and `TimerServes` may alternate for ever, as they do
when connections come often enough. `TimerStop` drops the waits. `main()` stops the
timer, then the server, hence `ServerStop` after `TimerStop`.

`HttpExchange` is what is left for the peer: requests and responses take turns, a
body is awaited only after a header, only a response that announces Keep-Alive is
followed by another request, and nothing follows the end. The connection implements
it (`KeepsToExchange`) under `awaits <- Awaits`, which reads the socket's queues and
the callback that is running, and `announces <- KeepsOn`, the header the server
writes. `PartsAtHand` is what the parser takes for granted: `headers.back()` of a
header that was begun, `--chunkSize` of a chunk that is not empty. It matters here
because neither server resets `parser_`, and the simple one hands it a new `Request`
for each header.

What the model shows of the code, besides the properties:

- The arguments of `std::search` are swapped (`keep_alive/server.cpp:124`), so the
  end of the header is always found: a request that arrives in two pieces is
  parsed and answered twice, and the header's buffer never grows.
- `parser_` is never reset. The second request on a kept connection begins in the
  state the first one ended in: it is an error, or counts into a `contentSize`
  that is 0 and wraps. The response is then the one for the first request.
- A body that came with the header is awaited a second time by `async_read`, until
  the timer closes the connection; `Content-Length: 0` is a read of 0 bytes, which
  fails, and the connection is closed without a response.
- A negative Content-Length ends the program: in `reserve()` if the method has a body,
  else in the allocation of the body's buffer (`keep_alive/server.cpp:83`).
- An idle connection is freed only if the timer gets to it: new connections, each with
  a later wait, put every check off (`IdleIsFreed` names this), and after `main()` has
  stopped the timer and the server, a connection that its own queues own stays.

## 3. The runs

| run | instance | shows |
|---|---|---|
| `socket_mixed` | an `async_read` of 2 bytes, an `async_read_some` of 1, a write of 0 bytes; runtime thread and one application thread, both may close; 270,526 states | `TypeOK`, `CalledAtMostOnce`, `NothingStranded`, `RegisteredOwnsFd`, `ClosesOwnFd`, `ErrorOnlyWhenBroken`, `SomeReportExactly` |
| `socket_live` | an `async_read` of 2 bytes, an `async_write_some` of 1, both threads may close, fair; 32,424 states | `CloseCompletes`, `ReadAnsweredAtEnd`, `KeepsPromise` (all of `AsyncOps`, fairness too) |
| `socket_until` | `async_read` of 2 bytes | *violates* `ExactReport` |
| `socket_foreign` | one `async_read_some`, `close()` on the other thread | *violates* `NoForeignIO` |
| `endpoint` | a server or a client, two threads that run, stop and use it, two workers, callbacks that call back, fair; 59,789 states | `TypeOK`, `ConnectedIsServed`, `StopLeavesNothing`, `RunAllOrNothing`, `StopReturnsFromLoops` |
| `endpoint_hang` | one thread, one worker, fair | *violates* `StopReturns` |
| `endpoint_race` | two threads, one worker | *violates* `NotRunningIsTrue` |
| `endpoint_leak` | a server that is stopped | *violates* `ListenersServed` |
| `timer_fair` | two waits, others without end, two controlling threads, delays of 0 to 2, fair; 54,350 states | `NeverBlockedWithWaits`, `NeverEarly`, `OneThread`, `WaitsAreAnswered`, `StopEndsLoop` |
| `timer_due` | two waits and others | *violates* `DueAreTaken` |
| `registry` | two sockets, two numbers, the loop and one other thread, `run()` and `stop()`, fair; 312,898 states | `TypeOK`, `NoDangling`, `NoRelock`, `NoFileLost`, `NumbersAreFresh`, `RetiredIsFreed`, `StopEnds` |
| `http` | either server, three pieces out of eleven from the peer, fair; 300 requests and 212 responses in pieces, 1,944 URLs; 1,049,463 states in all | `TypeOK`, `OneOutstanding`, `BufferLive`, `AnnouncedIsDone`, `PartsAtHand`, `KeepsToExchange` (all of `HttpExchange`), `IdleIsFreed`, `EndedIsFreed`; `RequestsParsed`, `ResponsesParsed`, `UrlsParsed` |

**Violations.** Each is a real behaviour of the code.
- `socket_until`: `async_read` of 2 bytes gets 1 byte, stays queued with `pos_`
  0, then gets 2 bytes and reports 2 of 3: the first byte was overwritten.
  `async_write` sends the first bytes twice in the same way. The `_some` forms
  report exactly, even with the others in the same queue (`SomeReportExactly`).
- `socket_foreign`: `do_read` finds `closed_` false, `close()` on another thread
  closes `fd_`, the number is given to another file, and `recv` takes its bytes. The
  keep_alive server closes on the timer's thread, and a destructor runs anywhere.
- `endpoint_hang`: `stop()` sets `stopped_`, then the new thread executes
  `stopped_ = false`; `stop()` joins for ever with `mtx_` held. A stop of
  runtimes that are in their loops does return, unless a callback waits for
  `mtx_` (`StopReturnsFromLoops`). The timer has the same first statement.
- `endpoint_race`: `stop()` on another thread between `run()`'s exchange of
  `running_` and its lock clears `running_`, and `run()` then starts every runtime:
  an endpoint that says it does not run, and that no `stop()` will stop. What is
  left, and checked in `endpoint`: a `stop()` that does its work leaves nothing
  (`StopLeavesNothing`), and the next `run()` then fails on the first runtime, with
  all of them running, rather than halfway (`RunAllOrNothing`).
- `endpoint_leak`: `release_all_handles` drops acceptors, whose destructor does
  not close the listening socket.
- `timer_due`: the heap has the latest deadline on top.

Also seen in the model without a run of its own: `run()` before `with_settings`
leaves `running_` set (`RunUnset`), after which `with_settings` is refused.

**Bounds.** `MaxBytes` (2 or 3) lets a two-byte operation be answered in one
call, in two, or overtaken by another operation's bytes. Two operations on one
queue and one on the other make the queues' order and the two drain loops
matter; two threads are enough for every race of `close()` with the runtime's
thread, and the theorems cover any number. Two workers make a loop over workers
stop halfway, and two callers are a `run()` beside a `stop()`. `MaxHandles` caps the
handles of a worker at 2, more than the one that matters. `MaxDelay` 2 gives a wait
that is due at once, at the next tick, and one that is later than both; how often
waits are submitted besides the two that are followed has no bound.

Two sockets are enough for a number to be reused, for a callback of one socket's
`close()` to close or drop the other, and for a destructor to run while the
other socket's pointer is in the loop's hands; the theorems cover any number. In
`http` three pieces are a request, a second one on the kept connection and one
more to meet the state the second left behind; the longest just fills
`HeaderCap`. `IdleLimit` 1 lets a receive fall before and after the check, and between
its two steps. `IntMax` 98 makes a length of two digits overflow. The messages have one- and two-digit sizes in both bases, up to two
chunks, two trailers and a folded header, so that every state of the request and
the response parser is visited.

**Fairness.** A thread that is inside an operation goes on (`WF`), since the
kernel schedules it, and callbacks return. `SF_vars(DoBegin(d))`: the loop's
sweep comes back to each queue every turn, but in between the mutex may be held
by other threads, so that the step is enabled again and again rather than all
the time. `SF_vars(ExecLeave(w))`: the loop tests `stopped_` every turn,
although callbacks take the thread away in between. Nobody is obliged to submit,
close, run or stop anything, the peer need not send, mutexes that are released
infinitely often are eventually obtained only where `SF` says so. In `Timer` time
passes and the thread inside `exec()`, `run()` or `stop()` goes on; spurious
wake-ups are not fair, and nobody is obliged to stop submitting waits:
`WaitsAreAnswered` excepts the behaviours where later ones keep coming.

In `Registry` the loop's thread goes on through its turns and through `close()`
(`handles_mtx_` is held by other threads for one step only), a `run()` that has begun
starts the thread (`Spawn`), and a `stop()` that finds it ended returns; application
threads need never do anything, and a callback that waits for `mtx_` does not go on.
In `HttpConnection` the runtime sweeps the socket while it serves, callbacks and
`close()` return, and time passes. The timer calls a wait that has expired if it is
neither busy nor stopped; nothing obliges it to stop being busy. Neither peer nor
server is obliged to do anything.

**Deadlock** is checked for the socket and the registry, where `Terminated` is the state in which
no thread is inside an operation. It is not checked for the endpoint, where a
lost stop or a callback that waits for `mtx_` while its thread is joined really
stops the system, nor for the timer, where time goes on whatever else has stopped,
nor for `HttpConnection`, which ends when it is freed or the program does.

## 4. The proofs

The assumptions are those of the modules: `ConstantsOK`, `EndpointConstantsOK`,
`TimerConstantsOK`, `HttpConnectionOK` (the capacities are positive), `SizeModulusOK`
(`size_t` has a value), `IntMaxOK`. They say what the constants are, and bound nothing.

**TcpSocketProofs.** `CalledAtMostOnce`, `NothingStranded` and `RegisteredOwnsFd` are
not inductive. `IInv` adds to them
- `LockInv`: a thread that is between `Submit` and `Push`, or inside `exec`,
  holds the mutex of its operation's queue, and only such a thread holds it;
- `PushInv`, `ExecInv`: what that thread has in hand is new, or is still the
  front of the queue: nobody else can take it, which is what makes `pop_front`
  after `exec` pop the task that was executed;
- `CallInv`: an operation that was taken and is about to be called is in the
  hand of one thread only, and its callback has not been called;
- `QueueInv`: a queue holds queued operations, each once, in its own direction;
- `CloseInv`: one thread at most is inside `close()`, and only if `closed_`;
- `DrainInv`: while `close()` drains writes, and after it, what it has drained
  stays empty, since no thread can be about to push: it would hold the mutex
  that the loop took when it found the queue empty.

Each action preserves each conjunct by a lemma of its own. Theorems:
`TypeCorrect`, `AtMostOneCall`, `NoOperationStranded`, `FdOwnership` (with the
exception for `release_all_handles` that the property states), `OwnFileClosed`,
`ErrorsAreReal`, and `SomeFormsReportExactly`, by an invariant of its own
(`ReportInv`: a `_some` operation moves bytes only in the one `exec` that takes it off
its queue), whatever other operations share that queue.

**TcpSocketRefinement.** `SocketKeepsPromise == Spec => Promise!AbsSafety`: with
`IInv`, every step maps to a step of `AsyncOps` or leaves its variables alone.

**EndpointProofs.** `TypeCorrect`, `ConnectedServed`, `StopEndsAll`, `RunIsWhole`,
`AcceptorsListen`, however many threads call `run()` and `stop()`; the invariant
relates the loop over the workers to the runtimes:
- `MtxInv`, `UniformInv`: `mtx_` is held from the first worker to the last, so
  that whoever obtains it finds the runtimes all up or all asleep;
- `CallerInv` (`Stage`): inside the loop the workers before `at` have been dealt
  with and those after it have not;
- `JoinInv`: a runtime on its way out of `exec()` is being joined, which is why a
  connection accepted meanwhile is dropped before `running_` is cleared;
- `RunningInv`, `UnsetInv`: an endpoint that says it is running and has settings
  is up, or a `run()` waits for `mtx_`;
- `ListenInv`, `SocketInv`: an acceptor has a listening socket; a connection is with a
  runtime that is up or ahead of that loop.

`RunIsWhole` is why a `run()` that lost its race does not stop halfway: it holds
`mtx_` from the first runtime to the last, so it finds them all up or all asleep
(`UniformInv`), and fails on the first or not at all.

**TimerProofs.** `NeverBlockedWithWaits`, `NeverEarly`, `OneThread`, with any number
of other waits; the invariant adds that a thread on its way to start the timer has set
`running_` (`StarterSetRunning`).

**RegistryProofs.** `TypeCorrect`, `NothingDangles`, `NoFileIsLost`,
`NeverRelocks`, `FreshNumbers`, for any sockets, numbers and threads. Everything
hangs on who can still refer to an object; `IInv` says
- `ByInv`, `FileInv`: a thread is inside `close()` exactly while the socket is at
  one of its places; a socket that has not been through `CloseFd` owns its number;
- `TableInv`: what the table holds under `f` has the number `f` and has not got past
  `deregister_handle`, except while `release_all_handles` resets `runtime_`. With
  `FileInv` this makes `FreshNumbers` hold: an entry's number is still in use;
- `LinkedInv`: `runtime_` is set only while the table has the socket, so that a
  `close()` that skips `Deregister` leaves nothing behind in the table;
- `RemovableInv`: what is in `removable_handles_` has been deregistered and is being
  closed: clearing it runs no destructor that does anything;
- `VisitInv`, `EventInv`: what the loop still has to visit is in the table or in
  `removable_handles_`, which is emptied only when there is nothing to visit, and a
  `close()` entered through a raw pointer is on such a socket. This is what
  `NoDangling` needs, and why `deregister_handle` must keep the handle;
- `OpenInv`: an open socket is referred to, or else its destructor would have run;
- `LockedInv`: while the loop destroys references with the mutex held, those it
  closes are no longer linked, so that `ReadRuntime` skips `Deregister`.

**HttpParserProofs.** A text is parsed by a fold, and what a fold computes for a text
of any length takes induction. The library's induction theorems have an operator as
a parameter, which the provers cannot instantiate; the well-foundedness of `<` on the
naturals has none. From it come `LeastExists`, induction over a *set* of numbers
(`SetInduction`), and that the recursive function of a fold exists, is unique and is
typed (`IterationExists`, `IterationTyped`). The rest is one case for each row's action:
`GoodParsers(rows)` are the parsers of the right type with a header at hand where one
is used, a chunk to fill where one is filled, and a version that was cleared before it
is read. Every row of either table keeps a parser there (`RowOK`, `StepTyped`).
  What `atoi` returns is an `int` (`SignedTyped`, `TruncatedTyped`).
- `ParseTyped`: `parse` of any text, from any such parser, in any number of calls,
  ends in such a parser. This is what makes `PartsAtHand` hold.
- `ParseInPieces`: to parse a text in two calls is to parse it in one, unless the
  message ended or failed within the first piece (the next call clears the result).

**HttpMessagesProofs.** `RequestsAreParsed`, `ResponsesAreParsed`, `UrlsAreParsed`: for
every message and URL of `MessagesOK`, of any length and cut anywhere.
- `Reads(rows, p, w, q)`: the table takes the parser `p` to `q` over the text `w`, one
  row for each symbol, and is incomplete before each. It composes (`ReadsBoth`), and
  over any number of parts (`ReadsParts`), so that it is enough to follow one part of
  the grammar at a time: a word that is taken symbol by symbol, a digit of a number, a
  version, a header with its folds, the announcement of a body, a body of a size, a
  chunk, a trailer. `MessageReads` puts them together.
- Over a sized body the lemma counts down: what remains of `contentSize` is what
  remains of the text, so that the last symbol is the one that completes; over a chunk
  `chunkSize` in the same way, and `chunkSizeStr` is empty again before the next size.
- `DocumentInv`: what is still to come leads the parser to a completed message that
  says what was written. `InitDue` is `MessageReads`; in `NextDue` a piece of a text that
  `Reads` leaves the rest of it (`PieceReads`). `RequestsParsed` alone is not inductive:
  before the end it only says that the parser is not complete.
- `UrlIsRead` follows the same way through `UrlRows`, where a part is put aside and
  swapped into its place by the next delimiter: `Authority` says which parts hold what,
  and what is aside, between two delimiters. A password is split at its first symbol
  that is no digit. `UrlInv` is the invariant.
- Induction, over the length of a text or the number of parts, is that over a set of
  numbers (`SetInduction`); the recursive functions of the folds are those of
  `IterationExists`. Sequences are over an `Alphabet` that contains the symbols the
  tables name, because the provers do not know that a literal is a string; that
  messages written in strings are messages over it is a lemma (`MessageWidened`).

**HttpConnectionProofs.** `IInv == Types /\ Queues /\ NewRequestNewParser`.
- `Queues`: the socket holds one read, or one write, or nothing, and during a callback
  nothing: the callback that submits an operation is the only one to run. The read
  of a header is into the buffer that the connection holds, and a queued response
  says what `KeepsOn` says. This is what `OneOutstanding`, `BufferLive` and
  `AnnouncedIsDone` have in common, and none of them is inductive alone.
- `NewRequestNewParser`: when the simple server waits for a header its parser has
  read nothing, since it closes after its response. Without it the `Request` that
  it creates could be given to a parser in the middle of a header.
Theorems, for any pieces, capacities and limits: `SpecTypeOK`, `SpecOneOutstanding`,
`SpecBufferLive`, `SpecAnnouncedIsDone`, `SpecPartsAtHand`, and
`SpecKeepsToExchange == Spec => KeepsToExchange`.

**Model-checked only.** Everything that eventually happens (`CloseCompletes`,
`ReadAnsweredAtEnd`, the fairness of `KeepsPromise`, `StopReturnsFromLoops`,
`WaitsAreAnswered`, `StopEndsLoop`, `RetiredIsFreed`, `StopEnds`, `IdleIsFreed`,
`EndedIsFreed`): liveness under fairness is out of this prover's reach. Every
safety property that a passing run checks is stated by a theorem, with no assumption
beyond those of the modules. `ExactReport`, `NoForeignIO`, `NotRunningIsTrue`,
`ListenersServed` and `DueAreTaken` are false of the code, and so is `StopReturns`.

## 5. Assumptions and what is not modelled

- `compare_exchange_weak` does not fail spuriously, as on x86; on other machines
  a `close()` could return without closing.
- Reads and writes of atomics are sequentially consistent, as written in the code.
- Signed overflow in the parsers (a version of ten digits) is undefined in the code;
  it does not overflow in the model, and the messages of `MessagesOK` have none. A
  Content-Length beyond `int` is modelled: `atoi` keeps what fits (as the C library
  does on this platform), `std::stoi` refuses it.
- System calls fail only in the ways listed at `Answers`; `::close` succeeds.
- A torn `weak_ptr` (`Handle::runtime_` is read and reset without a common mutex)
  and the data race on `last_receive_time_point_` are not modelled: a reader sees
  the old or the new value.
- In `HttpConnection` a response is sent in one piece or fails, and of the other
  connections there is only what their waits do to this one's (`TimerBusy`,
  `TimerServes`).
- A callback that calls into the endpoint while `stop()` joins its thread waits for
  ever. The model has it (`ExecCallback`, `ConnectBlocks`), the liveness properties
  name it as their exception, and no run of its own shows it.
- `UrlParser`: an IPv6 host calls `abort()`; a URL that ends in its port fails the
  assertion at `urlparser.h:343`; passwords of digits only are rejected. The model
  has the last two, and `Urls` leaves them out.
- `Request::inspect`, `Response::inspect`, `Result`, `Address`, `util.h`,
  `Settings::validate`: values without state.
- The echo and address examples, the `main()` functions, `third_party/tsl`.
- Destructors of `Server`, `Client` and `Runtime` are `stop()`, then a spin until
  not running. `TcpSocket`'s is in `Registry`.

## 6. Plan

Done: `AsyncOps`, `TcpSocket`, its proofs and refinement; `Endpoint`, `Timer` and
`Registry`, each with its proofs; `HttpConnection` and its proofs; the parsers, and that
they read what was written.

Next: `Registry` with acceptors, so that `Endpoint`'s table of handles is an abstraction of
it; several connections in full on one timer; the URL parser without a path, whose
port the release build loses.
