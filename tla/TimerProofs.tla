---------------------------- MODULE TimerProofs ----------------------------
(***************************************************************************)
(* The safety properties of Timer, for any set of waits and of threads and *)
(* any number of other waits.                                              *)
(***************************************************************************)
EXTENDS Timer, TLAPS

\* A thread that is on its way to start the timer has set running_.
StarterSetRunning == \A c \in Controllers : pc[c] = "run" => running

IInv == TypeOK /\ StarterSetRunning /\ NeverBlockedWithWaits /\ NeverEarly
               /\ OneThread

-----------------------------------------------------------------------------
USE DEF waitVars

\* Initially the timer is stopped and no wait has been submitted.
LEMMA InitIInv == Init => IInv
<1>. SUFFICES ASSUME Init PROVE IInv
  OBVIOUS
<1>. USE DEF Init
<1>1. TypeOK
  BY DEF TypeOK
<1>2. StarterSetRunning
  BY DEF StarterSetRunning
<1>3. NeverBlockedWithWaits /\ NeverEarly
  BY DEF NeverBlockedWithWaits, NeverEarly
<1>4. OneThread
  BY DEF OneThread, Ended
<1>. QED
  BY <1>1, <1>2, <1>3, <1>4 DEF IInv

\* Every variable keeps its type.
LEMMA TypeStep == ASSUME TypeOK, [Next]_vars PROVE TypeOK'
<1>1. CASE Tick
  BY <1>1 DEF TypeOK, Tick, Sooner
<1>2. ASSUME NEW delay \in 0 .. MaxDelay,
             (\E w \in Waits : AsyncWait(w, delay)) \/ AsyncWaitOther(delay)
      PROVE  TypeOK'
  <2>1. delay \in Nat
    BY TimerConstantsOK
  <2>2. thread' \in {"none", "started", "turn", "calling", "waiting", "woken",
                    "sleeping", "leaving", "finished", "joined"}
    BY <1>2 DEF TypeOK, AsyncWait, AsyncWaitOther, Push, Notified
  <2>3. ASSUME NEW w \in Waits, AsyncWait(w, delay) PROVE TypeOK'
    BY <2>1, <2>2, <2>3 DEF TypeOK, AsyncWait
  <2>4. CASE AsyncWaitOther(delay)
    BY <2>1, <2>2, <2>4 DEF TypeOK, AsyncWaitOther
  <2>. QED
    BY <1>2, <2>3, <2>4
<1>3. CASE ExecSteps
  BY <1>3 DEF TypeOK, ExecSteps, ExecStart, Collect, Call, CallsDone,
              WaitReturns, SleepReturns, TurnStopped, ExecEnd, AfterCalls
<1>4. CASE SpuriousWakeup
  BY <1>4 DEF TypeOK, SpuriousWakeup
<1>5. ASSUME NEW c \in Controllers, RunBegin(c) \/ StopBegin(c) \/ ControlSteps(c)
      PROVE  TypeOK'
  BY <1>5 DEF TypeOK, RunBegin, StopBegin, ControlSteps, RunSpawn, StopSet,
              StopSpin, StopLock, StopJoin, Goto, Notified
<1>6. CASE UNCHANGED vars
  BY <1>6 DEF TypeOK, vars
<1>. QED
  BY <1>1, <1>2, <1>3, <1>4, <1>5, <1>6 DEF Next

-----------------------------------------------------------------------------
\* What the loop pops is due: the top of the heap is compared with the time.
LEMMA PopsDue ==
  ASSUME TypeOK, NEW w \in Waiting, Pops(left[w])
  PROVE  left[w] = 0
<1>1. left[w] \in Times /\ left[w] \in Nat
  BY DEF Times, Waiting, TypeOK
<1>2. left[w] \in Above(left[w])
  BY <1>1 DEF Above
<1>. QED
  BY <1>2 DEF Pops

\* Only Collect takes a wait, and time does not run backwards.
LEMMA TimeStep == ASSUME IInv, [Next]_vars PROVE NeverEarly'
<1>. USE DEF IInv
<1>1. CASE Tick
  BY <1>1 DEF Tick, Sooner, NeverEarly
<1>2. ASSUME NEW delay \in 0 .. MaxDelay,
             (\E w \in Waits : AsyncWait(w, delay)) \/ AsyncWaitOther(delay)
      PROVE  NeverEarly'
  BY <1>2 DEF AsyncWait, AsyncWaitOther, NeverEarly, TypeOK
<1>3. CASE Collect
  <2>1. left' = left
    BY <1>3 DEF Collect
  <2>2. ASSUME NEW w \in Waits, fate'[w] \in {"taken", "called"}
        PROVE  left[w] = 0
    <3>1. CASE w \in Waiting /\ Pops(left[w])
      BY <3>1, PopsDue
    <3>2. CASE ~(w \in Waiting /\ Pops(left[w]))
      BY <1>3, <2>2, <3>2 DEF Collect, NeverEarly
    <3>. QED
      BY <3>1, <3>2
  <2>. QED
    BY <2>1, <2>2 DEF NeverEarly
<1>4. ASSUME NEW w \in Waits, Call(w)
      PROVE  NeverEarly'
  BY <1>4 DEF Call, Operations, NeverEarly, TypeOK
<1>5. CASE ExecEnd
  BY <1>5 DEF ExecEnd, NeverEarly
<1>6. CASE ExecStart \/ CallsDone \/ WaitReturns \/ SleepReturns \/ TurnStopped
             \/ SpuriousWakeup
  BY <1>6 DEF ExecStart, CallsDone, WaitReturns, SleepReturns, TurnStopped,
              SpuriousWakeup, NeverEarly
<1>7. ASSUME NEW c \in Controllers, RunBegin(c) \/ StopBegin(c) \/ ControlSteps(c)
      PROVE  NeverEarly'
  BY <1>7 DEF RunBegin, StopBegin, ControlSteps, RunSpawn, StopSet, StopSpin,
              StopLock, StopJoin, NeverEarly
<1>8. CASE UNCHANGED vars
  BY <1>8 DEF vars, NeverEarly
<1>. QED
  BY <1>1, <1>2, <1>3, <1>4, <1>5, <1>6, <1>7, <1>8 DEF Next, ExecSteps

-----------------------------------------------------------------------------
\* A push into an empty heap wakes the thread; into another one it finds the
\* thread awake.
LEMMA WakeStep == ASSUME IInv, [Next]_vars PROVE NeverBlockedWithWaits'
<1>. USE DEF IInv, NeverBlockedWithWaits, HeapEmpty
<1>1. ASSUME NEW delay \in 0 .. MaxDelay,
             (\E w \in Waits : AsyncWait(w, delay)) \/ AsyncWaitOther(delay)
      PROVE  NeverBlockedWithWaits'
  <2>1. thread' # "waiting"
    BY <1>1 DEF AsyncWait, AsyncWaitOther, Push, Notified
  <2>. QED
    BY <2>1
<1>2. CASE CallsDone
  BY <1>2 DEF CallsDone, AfterCalls, Waiting
<1>3. CASE ExecStart \/ Collect \/ WaitReturns \/ SleepReturns \/ TurnStopped
             \/ ExecEnd \/ SpuriousWakeup
  BY <1>3 DEF ExecStart, Collect, WaitReturns, SleepReturns, TurnStopped,
              ExecEnd, SpuriousWakeup
<1>4. ASSUME NEW w \in Waits, Call(w) PROVE NeverBlockedWithWaits'
  BY <1>4 DEF Call
<1>5. CASE Tick
  BY <1>5 DEF Tick, Waiting
<1>6. ASSUME NEW c \in Controllers, RunBegin(c) \/ StopBegin(c) \/ ControlSteps(c)
      PROVE  NeverBlockedWithWaits'
  BY <1>6 DEF RunBegin, StopBegin, ControlSteps, RunSpawn, StopSet, StopSpin,
              StopLock, StopJoin, Notified, Waiting
<1>7. CASE UNCHANGED vars
  BY <1>7 DEF vars, Waiting
<1>. QED
  BY <1>1, <1>2, <1>3, <1>4, <1>5, <1>6, <1>7 DEF Next, ExecSteps

-----------------------------------------------------------------------------
\* running_ is cleared by the last statement of exec() only, and set by the one
\* thread that will start exec() again.
LEMMA ThreadStep == ASSUME IInv, [Next]_vars PROVE StarterSetRunning' /\ OneThread'
<1>. USE DEF IInv, StarterSetRunning, OneThread, Ended
<1>1. ASSUME NEW delay \in 0 .. MaxDelay,
             (\E w \in Waits : AsyncWait(w, delay)) \/ AsyncWaitOther(delay)
      PROVE  StarterSetRunning' /\ OneThread'
  BY <1>1 DEF AsyncWait, AsyncWaitOther, Push, Notified
<1>2. CASE ExecSteps \/ SpuriousWakeup
  BY <1>2 DEF ExecSteps, SpuriousWakeup, ExecStart, Collect, Call, CallsDone,
              WaitReturns, SleepReturns, TurnStopped, ExecEnd, AfterCalls
<1>3. CASE Tick
  BY <1>3 DEF Tick
<1>4. ASSUME NEW c \in Controllers, RunBegin(c)
      PROVE  StarterSetRunning' /\ OneThread'
  BY <1>4 DEF RunBegin, Exchanged, Goto, TypeOK
<1>5. ASSUME NEW c \in Controllers, RunSpawn(c)
      PROVE  StarterSetRunning' /\ OneThread'
  BY <1>5 DEF RunSpawn, Goto, TypeOK
<1>6. ASSUME NEW c \in Controllers,
             StopBegin(c) \/ StopSet(c) \/ StopSpin(c) \/ StopLock(c) \/ StopJoin(c)
      PROVE  StarterSetRunning' /\ OneThread'
  BY <1>6 DEF StopBegin, StopSet, StopSpin, StopLock, StopJoin, Notified, Goto,
              TypeOK
<1>7. CASE UNCHANGED vars
  BY <1>7 DEF vars
<1>. QED
  BY <1>1, <1>2, <1>3, <1>4, <1>5, <1>6, <1>7 DEF Next, ControlSteps

-----------------------------------------------------------------------------
\* IInv is an invariant of the timer.
THEOREM Invariance == Spec => []IInv
<1>1. IInv /\ [Next]_vars => IInv'
  BY TypeStep, TimeStep, WakeStep, ThreadStep DEF IInv
<1>. QED
  BY InitIInv, <1>1, PTL DEF Spec

\* Every variable keeps its type.
THEOREM TypeCorrect == Spec => []TypeOK
<1>1. IInv => TypeOK
  BY DEF IInv
<1>. QED
  BY Invariance, <1>1, PTL

\* No notification is lost: the thread never blocks on waiter_cv_ with a wait
\* in the heap.
THEOREM NoLostNotification == Spec => []NeverBlockedWithWaits
<1>1. IInv => NeverBlockedWithWaits
  BY DEF IInv
<1>. QED
  BY Invariance, <1>1, PTL

\* No callback is called before its time.
THEOREM NothingEarly == Spec => []NeverEarly
<1>1. IInv => NeverEarly
  BY DEF IInv
<1>. QED
  BY Invariance, <1>1, PTL

\* However many threads call run() and stop(), one thread at most is in exec().
THEOREM AtMostOneThread == Spec => []OneThread
<1>1. IInv => OneThread
  BY DEF IInv
<1>. QED
  BY Invariance, <1>1, PTL
=============================================================================
