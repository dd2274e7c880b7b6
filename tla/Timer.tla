------------------------------- MODULE Timer -------------------------------
(***************************************************************************)
(* spinet::Timer (src/timer.cpp): a heap of waits, each with the time at   *)
(* which its callback is due, and one thread that sleeps and calls them.   *)
(*                                                                         *)
(* waiter_mtx_ guards the heap and goes with the condition variable        *)
(* waiter_cv_; nobody holds it across two of the steps below (wait()       *)
(* releases it).  thread_mtx_ guards timer_thread_; running_ and stopped_  *)
(* are atomics.                                                            *)
(*                                                                         *)
(* A few waits are followed one by one; the application may submit others  *)
(* at any time and for ever.  Time is what is left until a wait is due:    *)
(* nothing in the code depends on when the clock started, nor on how long  *)
(* a wait has been overdue.                                                *)
(***************************************************************************)
EXTENDS Naturals

CONSTANTS Waits,        \* calls of async_wait_for and async_wait_until
          Controllers,  \* the application threads that call run() and stop()
          None,         \* none of them
          MaxDelay      \* bound: how far ahead a wait may be due

ASSUME TimerConstantsOK ==
  /\ None \notin Controllers
  /\ MaxDelay \in Nat

VARIABLES
  fate,      \* of each wait: "new", "waiting" (in the heap), "taken" (in
             \* operations), "called", or "dropped" (with the heap)
  left,      \* the time until its time_point, 0 once it is due
  others,    \* the times left of the other waits that are in the heap
  running,   \* running_
  stopped,   \* stopped_
  thread,    \* timer_thread_: "none", "started", at a place in exec's loop,
             \* "finished", "joined"
  holder,    \* who holds thread_mtx_
  pc         \* where each controller is in run() or stop()

waitVars == <<fate, left, others>>
vars == <<fate, left, others, running, stopped, thread, holder, pc>>

Waiting == {w \in Waits : fate[w] = "waiting"}
Operations == {w \in Waits : fate[w] = "taken"}
HeapEmpty == Waiting = {} /\ others = {}

InLoop == thread \in {"turn", "calling", "waiting", "woken", "sleeping", "leaving"}

\* join() of the thread would return at once, or there is none to join.
Ended == thread \in {"none", "finished", "joined"}

Init ==
  /\ fate = [w \in Waits |-> "new"]
  /\ left = [w \in Waits |-> 0]
  /\ others = {}
  /\ running = FALSE
  /\ stopped = TRUE
  /\ thread = "none"
  /\ holder = None
  /\ pc = [c \in Controllers |-> "idle"]

Goto(c, label) == pc' = [pc EXCEPT ![c] = label]

\* What becomes of the timer's thread when waiter_cv_ is notified.
NotNotified == thread
Notified == IF thread = "waiting" THEN "woken" ELSE thread

\* Time passes.
Sooner(t) == IF t = 0 THEN 0 ELSE t - 1

Tick ==
  /\ left' = [w \in Waits |-> Sooner(left[w])]
  /\ others' = {Sooner(t) : t \in others}
  /\ UNCHANGED <<fate, running, stopped, thread, holder, pc>>

-----------------------------------------------------------------------------
(* async_wait_until, and async_wait_for, on any thread and in a callback:  *)
(* push under the mutex, and notify if the heap was empty.                 *)

Push == thread' = IF HeapEmpty THEN Notified ELSE thread

AsyncWait(w, delay) ==
  /\ fate[w] = "new"
  /\ fate' = [fate EXCEPT ![w] = "waiting"]
  /\ left' = [left EXCEPT ![w] = delay]
  /\ Push
  /\ UNCHANGED <<others, running, stopped, holder, pc>>

AsyncWaitOther(delay) ==
  /\ others' = others \cup {delay}
  /\ Push
  /\ UNCHANGED <<fate, left, running, stopped, holder, pc>>

-----------------------------------------------------------------------------
(* exec(), on the timer's thread.                                          *)

\* Its first statement clears stopped_.
ExecStart ==
  /\ thread = "started"
  /\ stopped' = FALSE
  /\ thread' = "turn"
  /\ UNCHANGED <<waitVars, running, holder, pc>>

\* operator< and priority_queue put the latest deadline on top of the heap.
Times == {left[w] : w \in Waiting} \cup others
Above(t) == {u \in Times : u >= t}

\* What the loop pops: it goes on while the top is due.
PopsAll(t) == TRUE
Pops(t) == \A u \in Above(t) : u = 0

Collect ==
  /\ thread = "turn"
  /\ ~stopped
  /\ fate' = [w \in Waits |-> IF w \in Waiting /\ Pops(left[w]) THEN "taken" ELSE fate[w]]
  /\ others' = {t \in others : ~Pops(t)}
  /\ thread' = "calling"
  /\ UNCHANGED <<left, running, stopped, holder, pc>>

\* Callbacks are called with no mutex held.
Call(w) ==
  /\ thread = "calling"
  /\ w \in Operations
  /\ fate' = [fate EXCEPT ![w] = "called"]
  /\ UNCHANGED <<left, others, running, stopped, thread, holder, pc>>

\* All were called.  An empty heap makes the thread wait, with no predicate.
AlwaysWaits == "waiting"
AfterCalls == IF HeapEmpty THEN "waiting" ELSE "sleeping"

CallsDone ==
  /\ thread = "calling"
  /\ Operations = {}
  /\ thread' = AfterCalls
  /\ UNCHANGED <<waitVars, running, stopped, holder, pc>>

SpuriousWakeup ==
  /\ thread = "waiting"
  /\ thread' = "woken"
  /\ UNCHANGED <<waitVars, running, stopped, holder, pc>>

WaitReturns ==
  /\ thread = "woken"
  /\ thread' = IF stopped THEN "leaving" ELSE "sleeping"
  /\ UNCHANGED <<waitVars, running, stopped, holder, pc>>

\* The rest of precision_ is slept away, however long that takes.
SleepReturns ==
  /\ thread = "sleeping"
  /\ thread' = "turn"
  /\ UNCHANGED <<waitVars, running, stopped, holder, pc>>

TurnStopped ==
  /\ thread = "turn"
  /\ stopped
  /\ thread' = "leaving"
  /\ UNCHANGED <<waitVars, running, stopped, holder, pc>>

\* Under waiter_mtx_: the heap is emptied, no callback called; running_ is
\* cleared.
ExecEnd ==
  /\ thread = "leaving"
  /\ fate' = [w \in Waits |-> IF w \in Waiting THEN "dropped" ELSE fate[w]]
  /\ others' = {}
  /\ running' = FALSE
  /\ thread' = "finished"
  /\ UNCHANGED <<left, stopped, holder, pc>>

ExecSteps ==
  \/ ExecStart \/ Collect \/ (\E w \in Waits : Call(w)) \/ CallsDone
  \/ WaitReturns \/ SleepReturns \/ TurnStopped \/ ExecEnd

-----------------------------------------------------------------------------
(* run() and stop().                                                       *)

\* running_ is exchanged; a call that finds it set returns.
NotExchanged == TRUE
Exchanged == ~running

RunBegin(c) ==
  /\ pc[c] = "idle"
  /\ Exchanged
  /\ running' = TRUE
  /\ Goto(c, "run")
  /\ UNCHANGED <<waitVars, stopped, thread, holder>>

\* Lock thread_mtx_, join the thread of an earlier run, start a new one.
RunSpawn(c) ==
  /\ pc[c] = "run"
  /\ holder = None
  /\ Ended
  /\ thread' = "started"
  /\ Goto(c, "idle")
  /\ UNCHANGED <<waitVars, running, stopped, holder>>

\* A stop() that finds running_ clear returns.
StopBegin(c) ==
  /\ pc[c] = "idle"
  /\ running
  /\ Goto(c, "stop")
  /\ UNCHANGED <<waitVars, running, stopped, thread, holder>>

StopSet(c) ==
  /\ pc[c] = "stop"
  /\ stopped' = TRUE
  /\ Goto(c, "spin")
  /\ UNCHANGED <<waitVars, running, thread, holder>>

\* notify_all, without the mutex, again and again while running_ is set.
StopSpin(c) ==
  /\ pc[c] = "spin"
  /\ running
  /\ thread' = Notified
  /\ UNCHANGED <<waitVars, running, stopped, holder, pc>>

StopLock(c) ==
  /\ pc[c] = "spin"
  /\ ~running
  /\ holder = None
  /\ holder' = c
  /\ Goto(c, "join")
  /\ UNCHANGED <<waitVars, running, stopped, thread>>

StopJoin(c) ==
  /\ pc[c] = "join"
  /\ Ended
  /\ thread' = IF thread = "finished" THEN "joined" ELSE thread
  /\ holder' = None
  /\ Goto(c, "idle")
  /\ UNCHANGED <<waitVars, running, stopped>>

ControlSteps(c) ==
  RunSpawn(c) \/ StopSet(c) \/ StopSpin(c) \/ StopLock(c) \/ StopJoin(c)

-----------------------------------------------------------------------------
Next ==
  \/ Tick
  \/ \E w \in Waits, delay \in 0 .. MaxDelay : AsyncWait(w, delay)
  \/ \E delay \in 0 .. MaxDelay : AsyncWaitOther(delay)
  \/ ExecSteps
  \/ SpuriousWakeup
  \/ \E c \in Controllers : RunBegin(c) \/ StopBegin(c) \/ ControlSteps(c)

Spec == Init /\ [][Next]_vars

\* Time passes, the timer's thread goes on, and so does a thread inside run()
\* or stop().  Nobody has to call anything.
Fairness ==
  /\ WF_vars(Tick)
  /\ WF_vars(ExecSteps)
  /\ \A c \in Controllers : WF_vars(ControlSteps(c))

FairSpec == Spec /\ Fairness

-----------------------------------------------------------------------------
TypeOK ==
  /\ fate \in [Waits -> {"new", "waiting", "taken", "called", "dropped"}]
  /\ left \in [Waits -> Nat]
  /\ others \subseteq Nat
  /\ running \in BOOLEAN /\ stopped \in BOOLEAN
  /\ thread \in {"none", "started", "turn", "calling", "waiting", "woken",
                 "sleeping", "leaving", "finished", "joined"}
  /\ holder \in Controllers \cup {None}
  /\ pc \in [Controllers -> {"idle", "run", "stop", "spin", "join"}]

\* The thread is never blocked on waiter_cv_ while a wait is in the heap: no
\* notification of async_wait_until falls between the test and the wait.
NeverBlockedWithWaits == thread = "waiting" => HeapEmpty

\* No callback is called before the time its wait is due.
NeverEarly == \A w \in Waits : fate[w] \in {"taken", "called"} => left[w] = 0

\* A timer that is not running has no thread inside exec(), and of two threads
\* that call run() at most one is on its way to start one.
OneThread ==
  /\ ~running => Ended
  /\ \A c, d \in Controllers : pc[c] = "run" => Ended /\ (pc[d] = "run" => c = d)

\* What the loop takes from the heap at a turn is all that is due: false while a
\* later wait is above it.
DueAreTaken ==
  [][thread = "turn" /\ thread' = "calling"
       => \A w \in Waiting : left[w] = 0 => fate'[w] = "taken"]_vars

\* A wait that is in the heap while exec() runs is called, or dropped with the
\* heap when the timer is stopped, unless the application keeps the loop from it
\* for ever by submitting later waits again and again.
WaitsAreAnswered ==
  \A w \in Waits :
    \/ (fate[w] \in {"waiting", "taken"} /\ InLoop) ~> fate[w] \in {"called", "dropped"}
    \/ []<>(\E t \in others : t > 0)

\* A stop() that finds exec() in its loop ends it, also from waiter_cv_, where
\* a single notification could come before the wait.
StopEndsLoop ==
  \A c \in Controllers : (pc[c] = "stop" /\ InLoop) ~> Ended
=============================================================================
