------------------------ MODULE TcpSocketRefinement ------------------------
(***************************************************************************)
(* The socket implements the safety part of its promise (AsyncOps) for     *)
(* every set of operations and threads: each step of TcpSocket is a step   *)
(* of AsyncOps under the mapping of Promise, or leaves its state alone.    *)
(***************************************************************************)
EXTENDS TcpSocketProofs

absVars == <<~closed, AbsPhase, calls>>

\* A step that changes neither a status nor a count, nor who pushes what.
LEMMA PhaseFrame ==
  ASSUME status' = status, calls' = calls,
         \A op \in Ops : Pushing(op)' <=> Pushing(op)
  PROVE  AbsPhase' = AbsPhase
BY DEF AbsPhase, PhaseOf

USE DEF fdVars, opVars, ioVars, threadVars, peerVars, Promise!avars

\* An operation is accepted when closed_ is found false.
LEMMA SubmitAccepts ==
  ASSUME IInv, NEW t \in Threads, NEW op \in Ops, Submit(t, op)
  PROVE  Promise!Accept(op)
<1> USE DEF Submit, RunsAppCode, Admits
<1>1. ~Pushing(op) /\ Pushing(op)'
  BY ConstantsOK DEF IInv, TypeOK, LockInv, Pushing, Acquire
<1>2. ASSUME NEW o \in Ops, o # op PROVE Pushing(o)' <=> Pushing(o)
  BY <1>2 DEF IInv, TypeOK, Pushing
<1>3. AbsPhase[op] = "new" /\ AbsPhase' = [AbsPhase EXCEPT ![op] = "accepted"]
  BY <1>1, <1>2 DEF AbsPhase, PhaseOf
<1> QED BY <1>3 DEF Promise!Accept

\* Push only turns a pusher into a queued operation.
LEMMA PushStutters ==
  ASSUME IInv, NEW t \in Threads, Push(t)
  PROVE  UNCHANGED absVars
<1> DEFINE op == cur[t]
<1> USE DEF Push
<1>1. /\ op \in Ops /\ status[op] = "new" /\ Pushing(op)
      /\ status' = [status EXCEPT ![op] = "queued"]
  BY DEF IInv, LockInv, PushInv, Pushing
<1>2. ASSUME NEW o \in Ops, o # op PROVE Pushing(o)' <=> Pushing(o)
  BY <1>2 DEF IInv, TypeOK, Pushing
<1>3. ASSUME NEW o \in Ops PROVE PhaseOf(o)' = PhaseOf(o)
  <2>1. CASE o = op
    BY <2>1, <1>1 DEF PhaseOf, IInv, TypeOK
  <2>2. CASE o # op
    BY <2>2, <1>1, <1>2 DEF PhaseOf, IInv, TypeOK
  <2> QED BY <2>1, <2>2
<1> QED BY <1>3 DEF absVars, AbsPhase

\* Refuse is refuse.
LEMMA RefuseRefuses ==
  ASSUME IInv, NEW t \in Threads, NEW op \in Ops, Refuse(t, op)
  PROVE  Promise!Refuse(op)
<1> USE DEF Refuse, Admits
<1>1. ~Pushing(op)
  BY ConstantsOK DEF IInv, LockInv, Pushing
<1>2. \A o \in Ops : Pushing(o)' <=> Pushing(o)
  BY DEF Pushing
<1>3. AbsPhase[op] = "new" /\ AbsPhase' = [AbsPhase EXCEPT ![op] = "refused"]
  BY <1>1, <1>2 DEF AbsPhase, PhaseOf, IInv, TypeOK
<1> QED BY <1>3 DEF Promise!Refuse

\* cancel() discards what is queued.
LEMMA CancelDiscards ==
  ASSUME IInv, NEW t \in Threads, Cancel(t)
  PROVE  \E S \in (SUBSET Ops) \ {{}} : Promise!Discard(S)
<1> DEFINE S == {op \in Ops : status[op] = "queued"}
<1> USE DEF Cancel
<1>1. S \in (SUBSET Ops) \ {{}}
  <2>1. PICK d \in Dirs : queue[d] # <<>>
    OBVIOUS
  <2>2. Head(queue[d]) \in S
    BY <2>1, FrontFacts DEF IInv
  <2> QED BY <2>2
<1>2. ASSUME NEW op \in Ops
      PROVE  status'[op] = IF op \in S THEN "cancelled" ELSE status[op]
  BY EntryFacts, ConstantsOK DEF IInv, QueueInv, Queued
<1>3. \A op \in Ops : Pushing(op)' <=> Pushing(op)
  BY DEF Pushing
<1>4. AbsPhase' = [op \in Ops |-> IF op \in S THEN "cancelled" ELSE AbsPhase[op]]
  BY <1>2, <1>3 DEF AbsPhase, PhaseOf
<1>5. \A op \in S : AbsPhase[op] = "accepted"
  BY DEF AbsPhase, PhaseOf
<1>6. Promise!Discard(S)
  BY <1>4, <1>5 DEF Promise!Discard
<1> QED BY <1>1, <1>6

\* The exchange of closed_ closes.
LEMMA CloseBeginCloses ==
  ASSUME IInv, NEW t \in Threads, CloseBegin(t)
  PROVE  Promise!Close
<1> USE DEF CloseBegin, ExchangeClosed
<1>1. \A op \in Ops : Pushing(op)' <=> Pushing(op)
  BY DEF IInv, TypeOK, Pushing
<1> QED BY <1>1, PhaseFrame DEF Promise!Close

\* Taking a task is invisible: its operation stays accepted until the call.
LEMMA TakeStutters ==
  ASSUME IInv, NEW t \in Threads, NEW op \in Ops, status[op] = "queued",
         status' = [status EXCEPT ![op] = "taken"], calls' = calls, closed' = closed,
         pc[t] # "push", pc'[t] # "push",
         \A u \in Threads : u # t => pc'[u] = pc[u] /\ cur'[u] = cur[u]
  PROVE  UNCHANGED absVars
<1>1. calls[op] = 0
  <2>1. calls[op] \in Nat
    BY DEF IInv, TypeOK
  <2>2. calls[op] <= 0
    BY DEF IInv, CalledAtMostOnce
  <2> QED BY <2>1, <2>2
<1>2. \A o \in Ops : Pushing(o)' <=> Pushing(o)
  BY DEF Pushing
<1>3. ASSUME NEW o \in Ops PROVE PhaseOf(o)' = PhaseOf(o)
  BY <1>1, <1>2 DEF PhaseOf, IInv, TypeOK
<1> QED BY <1>3 DEF absVars, AbsPhase

\* A call of a callback completes its operation, from close() or from the loop.
LEMMA CallCompletes ==
  ASSUME IInv, NEW t \in Threads, DrainCall(t) \/ (t = Loop /\ Invoke)
  PROVE  \E op \in Ops : Promise!Complete(op)
<1> DEFINE op == cur[t]
<1> USE DEF DrainCall, Invoke
<1>1. /\ op \in Ops /\ status[op] = "taken" /\ calls[op] = 0
      /\ status' = status /\ closed' = closed
      /\ calls' = [calls EXCEPT ![op] = @ + 1]
      /\ pc[t] # "push" /\ pc'[t] # "push"
      /\ \A u \in Threads : u # t => pc'[u] = pc[u] /\ cur'[u] = cur[u]
  BY DEF IInv, TypeOK, CallInv
<1>2. \A o \in Ops : Pushing(o)' <=> Pushing(o)
  BY <1>1 DEF Pushing
<1>3. calls'[op] = 1 /\ \A o \in Ops : o # op => calls'[o] = calls[o]
  BY <1>1 DEF IInv, TypeOK
<1> HIDE DEF DrainCall, Invoke
<1>4. /\ AbsPhase[op] = "accepted"
      /\ AbsPhase' = [AbsPhase EXCEPT ![op] = "completed"]
  BY <1>1, <1>2, <1>3 DEF AbsPhase, PhaseOf
<1>5. Promise!Complete(op)
  BY <1>1, <1>4 DEF Promise!Complete
<1> QED BY <1>1, <1>5

\* The end of exec: an operation is taken, or nothing changes for the promise.
LEMMA ExecStutters ==
  ASSUME IInv, ExecMove \/ ExecNone
  PROVE  UNCHANGED absVars
<1> DEFINE op == cur[Loop]
<1>1. op \in Ops /\ status[op] = "queued" /\ pc[Loop] = "exec" /\ Loop \in Threads
  BY ExecFacts DEF ExecMove, ExecNone, Threads
<1>2. /\ calls' = calls /\ closed' = closed
      /\ \/ /\ status' = [status EXCEPT ![op] = "taken"]
            /\ pc' = [pc EXCEPT ![Loop] = "call"]
            /\ cur' = [cur EXCEPT ![Loop] = op]
         \/ /\ status' = status
            /\ pc' = [pc EXCEPT ![Loop] = "ready"]
            /\ cur' = [cur EXCEPT ![Loop] = None]
  BY DEF ExecMove, ExecNone, Take
<1>3. /\ pc'[Loop] # "push"
      /\ \A u \in Threads : u # Loop => pc'[u] = pc[u] /\ cur'[u] = cur[u]
  BY <1>1, <1>2 DEF IInv, TypeOK
<1>4. CASE status' = [status EXCEPT ![op] = "taken"]
  BY <1>1, <1>2, <1>3, <1>4, TakeStutters
<1>5. CASE status' = status
  <2>1. \A o \in Ops : Pushing(o)' <=> Pushing(o)
    BY <1>1, <1>3 DEF Pushing
  <2> QED BY <1>2, <1>5, <2>1, PhaseFrame DEF absVars
<1> QED BY <1>2, <1>4, <1>5

\* Taking an operation off a queue is not seen outside.
LEMMA DrainTakeStutters ==
  ASSUME IInv, NEW t \in Threads, DrainTake(t)
  PROVE  UNCHANGED absVars
<1> DEFINE op == Head(queue[draining[t]])
<1>1. op \in Ops /\ status[op] = "queued"
  BY FrontFacts DEF DrainTake, DrainTurn, IInv, TypeOK
<1>2. /\ status' = [status EXCEPT ![op] = "taken"]
      /\ calls' = calls /\ closed' = closed
      /\ pc[t] # "push" /\ pc'[t] # "push"
      /\ \A u \in Threads : u # t => pc'[u] = pc[u] /\ cur'[u] = cur[u]
  BY DEF DrainTake, DrainTurn, Take, IInv, TypeOK
<1> QED BY <1>1, <1>2, TakeStutters

\* Every other step moves no thread into or out of a push.
LEMMA OtherStutters ==
  ASSUME IInv,
         \/ \E t \in Threads : \/ ReadRuntime(t) \/ Deregister(t) \/ CloseFd(t)
                              \/ DrainReturn(t) \/ DrainNext(t)
         \/ \E d \in Dirs : DoBegin(d)
         \/ CallbackReturn \/ RuntimeStop \/ ReleaseHandles
         \/ FdReuse \/ PeerSend \/ PeerEnd \/ UNCHANGED vars
  PROVE  UNCHANGED absVars
<1>1. status' = status /\ calls' = calls /\ closed' = closed
  BY DEF ReadRuntime, Deregister, CloseFd, DrainReturn, DrainNext, DoBegin,
         CallbackReturn, RuntimeStop, ReleaseHandles, FdReuse, PeerSend, PeerEnd, vars
<1>2. ASSUME NEW u \in Threads
      PROVE  /\ pc[u] = "push" <=> pc'[u] = "push"
             /\ pc[u] = "push" => cur'[u] = cur[u]
  <2>1. CASE \E t \in Threads : ReadRuntime(t) \/ Deregister(t) \/ CloseFd(t)
    BY <2>1 DEF ReadRuntime, Deregister, CloseFd, IInv, TypeOK
  <2>2. CASE \E t \in Threads : DrainReturn(t) \/ DrainNext(t)
    BY <2>2 DEF DrainReturn, DrainNext, DrainTurn, AfterDrain, IInv, TypeOK
  <2>3. CASE \E d \in Dirs : DoBegin(d)
    BY <2>3 DEF DoBegin, IInv, TypeOK
  <2>4. CASE CallbackReturn \/ RuntimeStop \/ ReleaseHandles
    BY <2>4 DEF CallbackReturn, RuntimeStop, ReleaseHandles, Releasing, IInv, TypeOK
  <2>5. CASE FdReuse \/ PeerSend \/ PeerEnd \/ UNCHANGED vars
    BY <2>5 DEF FdReuse, PeerSend, PeerEnd, vars
  <2> QED BY <2>1, <2>2, <2>3, <2>4, <2>5
<1>3. \A op \in Ops : Pushing(op)' <=> Pushing(op)
  BY <1>2 DEF Pushing
<1> QED BY <1>1, <1>3, PhaseFrame DEF absVars

\* Every step is one of AsyncOps, or leaves its variables alone.
LEMMA NextRefines == IInv /\ [Next]_vars => [Promise!AbsNext]_absVars
<1> SUFFICES ASSUME IInv, [Next]_vars PROVE Promise!AbsNext \/ UNCHANGED absVars
  OBVIOUS
<1>1. ASSUME NEW t \in Threads, NEW op \in Ops, Submit(t, op) \/ Refuse(t, op)
      PROVE  Promise!AbsNext
  BY <1>1, SubmitAccepts, RefuseRefuses DEF Promise!AbsNext
<1>2. ASSUME NEW t \in Threads, Push(t) PROVE UNCHANGED absVars
  BY <1>2, PushStutters
<1>3. ASSUME NEW t \in Threads, Cancel(t) PROVE Promise!AbsNext
  BY <1>3, CancelDiscards DEF Promise!AbsNext
<1>4. ASSUME NEW t \in Threads, CloseBegin(t) PROVE Promise!AbsNext
  BY <1>4, CloseBeginCloses DEF Promise!AbsNext
<1>5. ASSUME NEW t \in Threads, CloseSteps(t)
      PROVE  Promise!AbsNext \/ UNCHANGED absVars
  BY <1>5, CallCompletes, DrainTakeStutters, OtherStutters
  DEF CloseSteps, Promise!AbsNext
<1>6. CASE DoSteps
  <2>1. Loop \in Threads
    BY DEF Threads
  <2> QED BY <1>6, <2>1, CallCompletes, ExecStutters, OtherStutters
          DEF DoSteps, Promise!AbsNext
<1>7. CASE \/ \E d \in Dirs : DoBegin(d)
           \/ RuntimeStop \/ ReleaseHandles
           \/ FdReuse \/ PeerSend \/ PeerEnd \/ UNCHANGED vars
  BY <1>7, OtherStutters
<1> QED BY <1>1, <1>2, <1>3, <1>4, <1>5, <1>6, <1>7 DEF Next, Terminated

\* Each operation is accepted only while the socket is open, and then
\* completed by one call or cancelled; nothing else happens to it.
THEOREM SocketKeepsPromise == Spec => Promise!AbsSafety
<1>1. Init => Promise!AbsInit
  BY DEF AbsPhase, Init, Promise!AbsInit, PhaseOf, Pushing
<1>2. IInv /\ [Next]_vars => [Promise!AbsNext]_(Promise!avars)
  BY NextRefines DEF absVars
<1> QED BY <1>1, <1>2, Invariance, PTL DEF Spec, Promise!AbsSafety

=============================================================================
