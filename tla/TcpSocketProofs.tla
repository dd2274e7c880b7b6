-------------------------- MODULE TcpSocketProofs --------------------------
(***************************************************************************)
(* Proofs about TcpSocket, for every set of operations and threads.        *)
(***************************************************************************)
EXTENDS TcpSocket, SequenceTheorems, TLAPS

(* The inductive invariant.                                                *)

\* A thread between the two halves of a locked section holds that mutex.
LockInv ==
  \A t \in Threads : pc[t] \in {"push", "exec"} =>
    /\ cur[t] \in Ops
    /\ holder[Dir[cur[t]]] = t

\* A thread about to push holds an operation that was not submitted before.
PushInv == \A t \in Threads : pc[t] = "push" => status[cur[t]] = "new"

\* The runtime thread executes a copy of the task that is still at the front.
ExecInv ==
  \A t \in Threads :
    /\ pc[t] \in {"exec", "call"} => t = Loop
    /\ pc[t] = "exec" => /\ queue[Dir[cur[t]]] # <<>>
                         /\ cur[t] = Head(queue[Dir[cur[t]]])

\* A thread about to call a callback has its task to itself.
CallInv ==
  /\ \A t \in Threads : pc[t] \in {"call", "drainCall"} =>
       /\ cur[t] \in Ops
       /\ status[cur[t]] = "taken"
       /\ calls[cur[t]] = 0
  /\ \A t, u \in Threads :
       /\ pc[t] \in {"call", "drainCall"} /\ pc[u] \in {"call", "drainCall"}
       /\ t # u
       => cur[t] # cur[u]

\* The queues hold the queued operations, each once and in its own queue.
QueueInv ==
  /\ \A d \in Dirs : \A i \in 1 .. Len(queue[d]) :
       /\ Dir[queue[d][i]] = d
       /\ status[queue[d][i]] = "queued"
  /\ \A d \in Dirs : \A i, j \in 1 .. Len(queue[d]) :
       queue[d][i] = queue[d][j] => i = j
  /\ \A op \in Ops : status[op] = "queued" => Queued(op)

\* One thread at most is inside close() past the exchange of closed_; the file
\* descriptor is open until that thread closes it.  The tables hold the socket
\* beyond deregister_handle, or beyond runtime_, only while they are being emptied.
CloseInv ==
  /\ \A t, u \in Threads : Closing(t) /\ Closing(u) => t = u
  /\ \A t \in Threads : Closing(t) => closed
  /\ \A t \in Threads : pc[t] = "closeFd" => ~registered \/ Releasing
  /\ registered => linked \/ Releasing
  /\ ~closed => fd = "own"

\* close() is done with queue d, or was never begun on it.
Behind(t, d) ==
  \/ ~Closing(t)
  \/ /\ d = "read"
     /\ pc[t] \in {"drain", "drainCall", "drainCallback"}
     /\ draining[t] = "write"

\* A queue that close() has drained stays empty, and nobody will push to it.
DrainInv ==
  \A d \in Dirs :
    (closed /\ \A t \in Threads : Behind(t, d)) =>
      /\ queue[d] = <<>>
      /\ \A t \in Threads : pc[t] = "push" => Dir[cur[t]] # d

IInv ==
  /\ TypeOK
  /\ LockInv
  /\ PushInv
  /\ ExecInv
  /\ CallInv
  /\ QueueInv
  /\ CalledAtMostOnce
  /\ CloseInv
  /\ RegisteredOwnsFd
  /\ ClosesOwnFd
  /\ DrainInv

-----------------------------------------------------------------------------

\* pop_front.
LEMMA PopFrontFacts ==
  ASSUME NEW q \in Seq(Ops), q # <<>>
  PROVE  /\ Head(q) \in Ops /\ Head(q) = q[1]
         /\ PopFront(q) \in Seq(Ops)
         /\ Len(q) \in Nat \ {0} /\ Len(PopFront(q)) = Len(q) - 1
         /\ \A i \in 1 .. Len(q) - 1 : PopFront(q)[i] = q[i + 1]
BY HeadTailProperties, EmptySeq, LenProperties DEF PopFront

\* push_back.
LEMMA AppendFacts ==
  ASSUME NEW q \in Seq(Ops), NEW op \in Ops
  PROVE  /\ Append(q, op) \in Seq(Ops)
         /\ Len(q) \in Nat /\ Len(Append(q, op)) = Len(q) + 1
         /\ \A i \in 1 .. Len(q) : Append(q, op)[i] = q[i]
         /\ Append(q, op)[Len(q) + 1] = op
BY AppendProperties, LenProperties

\* What is in a queue.
LEMMA EntryFacts ==
  ASSUME TypeOK, QueueInv, NEW d \in Dirs, NEW i \in 1 .. Len(queue[d])
  PROVE  /\ queue[d][i] \in Ops
         /\ Dir[queue[d][i]] = d
         /\ status[queue[d][i]] = "queued"
<1>1. queue[d] \in Seq(Ops)
  BY DEF TypeOK
<1> QED BY <1>1, ElementOfSeq DEF QueueInv

\* The front of a queue is a queued operation of its direction.
LEMMA FrontFacts ==
  ASSUME TypeOK, QueueInv, NEW d \in Dirs, queue[d] # <<>>
  PROVE  /\ Head(queue[d]) \in Ops
         /\ Dir[Head(queue[d])] = d
         /\ status[Head(queue[d])] = "queued"
<1>1. Head(queue[d]) = queue[d][1] /\ 1 \in 1 .. Len(queue[d])
  BY PopFrontFacts DEF TypeOK
<1> QED BY <1>1, EntryFacts

\* What Take changes, when the task it takes is at the front of its queue.
LEMMA TakeFacts ==
  ASSUME TypeOK, QueueInv,
         NEW t \in Threads, NEW d \in Dirs, queue[d] # <<>>,
         NEW result \in {"ok", "error"}, NEW size \in Nat,
         Take(t, Head(queue[d]), result, size)
  PROVE  LET op == Head(queue[d]) IN
         /\ op \in Ops /\ Dir[op] = d /\ status[op] = "queued"
         /\ queue' \in [Dirs -> Seq(Ops)]
         /\ \A e \in Dirs : e # d => queue'[e] = queue[e]
         /\ status' = [status EXCEPT ![op] = "taken"]
         /\ outcome' \in [Ops -> {"none", "ok", "error"}]
         /\ given' \in [Ops -> Nat]
         /\ cur' = [cur EXCEPT ![t] = op]
         /\ QueueInv'
<1> DEFINE op == Head(queue[d])
           q == queue[d]
<1>1. q \in Seq(Ops)
  BY DEF TypeOK
<1>2. /\ op \in Ops /\ op = q[1]
      /\ PopFront(q) \in Seq(Ops)
      /\ Len(q) \in Nat \ {0} /\ Len(PopFront(q)) = Len(q) - 1
      /\ \A i \in 1 .. Len(q) - 1 : PopFront(q)[i] = q[i + 1]
  BY <1>1, PopFrontFacts
<1>3. Dir[op] = d /\ status[op] = "queued"
  BY <1>2 DEF QueueInv
<1>4. /\ queue' = [queue EXCEPT ![d] = PopFront(q)]
      /\ status' = [status EXCEPT ![op] = "taken"]
      /\ outcome' = [outcome EXCEPT ![op] = result]
      /\ given' = [given EXCEPT ![op] = size]
      /\ cur' = [cur EXCEPT ![t] = op]
  BY <1>3 DEF Take
<1>5. queue' \in [Dirs -> Seq(Ops)] /\ queue'[d] = PopFront(q)
  BY <1>2, <1>4 DEF TypeOK
<1>6. \A e \in Dirs : e # d => queue'[e] = queue[e]
  BY <1>4 DEF TypeOK
<1>7. QueueInv'
  <2>1. \A i \in 1 .. Len(queue'[d]) :
          /\ i + 1 \in 1 .. Len(q) /\ queue'[d][i] = q[i + 1]
          /\ q[i + 1] # op
    BY <1>2, <1>5 DEF QueueInv
  <2>2. \A e \in Dirs : \A i \in 1 .. Len(queue'[e]) :
          Dir[queue'[e][i]] = e /\ status'[queue'[e][i]] = "queued"
    <3>1. ASSUME NEW e \in Dirs, NEW i \in 1 .. Len(queue'[e])
          PROVE  /\ queue'[e][i] \in Ops /\ queue'[e][i] # op
                 /\ Dir[queue'[e][i]] = e /\ status[queue'[e][i]] = "queued"
      <4>1. CASE e = d
        <5>1. q[i + 1] \in Ops
          BY <2>1, <1>1, <4>1, ElementOfSeq
        <5> QED BY <5>1, <2>1, <4>1 DEF QueueInv
      <4>2. CASE e # d
        <5>1. queue[e] \in Seq(Ops) /\ queue'[e] = queue[e]
          BY <1>6, <4>2 DEF TypeOK
        <5>2. queue[e][i] \in Ops
          BY <5>1, ElementOfSeq
        <5> QED BY <5>1, <5>2, <1>3, <4>2 DEF QueueInv
      <4> QED BY <4>1, <4>2
    <3> QED BY <3>1, <1>4 DEF TypeOK
  <2>3. \A e \in Dirs : \A i, j \in 1 .. Len(queue'[e]) :
          queue'[e][i] = queue'[e][j] => i = j
    <3>1. \A i, j \in 1 .. Len(queue'[d]) : queue'[d][i] = queue'[d][j] => i = j
      <4>1. \A i, j \in 1 .. Len(q) : q[i] = q[j] => i = j
        BY DEF QueueInv
      <4>2. \A i, j \in 1 .. Len(queue'[d]) : i + 1 = j + 1 => i = j
        OBVIOUS
      <4> QED BY <2>1, <4>1, <4>2
    <3> QED BY <3>1, <1>6 DEF QueueInv
  <2>4. ASSUME NEW o \in Ops, status'[o] = "queued" PROVE Queued(o)'
    <3>1. status[o] = "queued" /\ o # op
      BY <2>4, <1>2, <1>4 DEF TypeOK
    <3>2. PICK i \in 1 .. Len(queue[Dir[o]]) : queue[Dir[o]][i] = o
      BY <3>1 DEF QueueInv, Queued
    <3>3. CASE Dir[o] = d
      <4>1. i # 1 /\ i - 1 \in 1 .. Len(queue'[d]) /\ queue'[d][i - 1] = o
        BY <3>1, <3>2, <3>3, <1>2, <1>5
      <4> QED BY <4>1, <3>3 DEF Queued
    <3>4. CASE Dir[o] # d
      BY <3>2, <3>4, <1>6, ConstantsOK DEF Queued
    <3> QED BY <3>3, <3>4
  <2> QED BY <2>2, <2>3, <2>4 DEF QueueInv
<1> QED BY <1>2, <1>3, <1>4, <1>5, <1>6, <1>7 DEF TypeOK

\* Steps that leave the queues alone, and take no operation from a pusher.
LEMMA QueueFrame ==
  ASSUME QueueInv, TypeOK, queue' = queue,
         \A op \in Ops : (status[op] = "queued") <=> (status'[op] = "queued")
  PROVE  QueueInv'
<1>1. \A d \in Dirs : \A i \in 1 .. Len(queue[d]) : queue[d][i] \in Ops
  BY ElementOfSeq DEF TypeOK
<1> QED BY <1>1 DEF QueueInv, Queued

\* What was drained stays drained where no queue grows and no thread passes a drain.
LEMMA DrainFrame ==
  ASSUME DrainInv, closed' => closed, queue' = queue,
         \A u \in Threads, d \in Dirs : Behind(u, d)' => Behind(u, d),
         \A u \in Threads : pc'[u] = "push" => pc[u] = "push" /\ cur'[u] = cur[u]
  PROVE  DrainInv'
BY DEF DrainInv

-----------------------------------------------------------------------------
(* One lemma per action, or per group of actions that change alike.        *)

USE DEF fdVars, opVars, ioVars, threadVars, peerVars

\* Submit: lock, find closed_ false.
LEMMA SubmitKeeps ==
  ASSUME IInv, NEW t \in Threads, NEW op \in Ops, Submit(t, op)
  PROVE  IInv'
<1> USE DEF Submit, RunsAppCode, Admits, Acquire
<1>1. TypeOK' /\ LockInv'
  BY ConstantsOK DEF IInv, TypeOK, LockInv
<1>2. PushInv' /\ CallInv'
  BY DEF IInv, TypeOK, PushInv, CallInv
<1>3. ExecInv'
  BY DEF IInv, TypeOK, ExecInv
<1>4. QueueInv'
  BY QueueFrame DEF IInv
<1>5. CalledAtMostOnce' /\ CloseInv' /\ RegisteredOwnsFd' /\ ClosesOwnFd'
  BY DEF IInv, TypeOK, CalledAtMostOnce, CloseInv, Releasing, Threads, RegisteredOwnsFd, ClosesOwnFd,
         Closing
<1>6. DrainInv'
  BY DEF DrainInv
<1> QED BY <1>1, <1>2, <1>3, <1>4, <1>5, <1>6 DEF IInv

\* A thread that gives up the mutex of queue d, and at most changes operations
\* of that queue, disturbs no other holder of a mutex.
LEMMA ReleaseFrame ==
  ASSUME LockInv, PushInv, NEW t \in Threads, NEW d \in Dirs,
         \A u \in Threads : u # t => pc'[u] = pc[u] /\ cur'[u] = cur[u],
         \A u \in Threads : u # t /\ pc[u] \in {"push", "exec"} => Dir[cur[u]] # d,
         pc'[t] \notin {"push", "exec"},
         \A e \in Dirs : e # d => holder'[e] = holder[e],
         \A o \in Ops : Dir[o] # d => status'[o] = status[o]
  PROVE  LockInv' /\ PushInv'
<1>1. ASSUME NEW u \in Threads, pc'[u] \in {"push", "exec"}
      PROVE  /\ u # t /\ pc[u] = pc'[u] /\ cur'[u] = cur[u]
             /\ cur[u] \in Ops /\ Dir[cur[u]] # d
             /\ holder'[Dir[cur[u]]] = u
  <2>1. u # t /\ pc[u] = pc'[u] /\ cur'[u] = cur[u]
    BY <1>1
  <2>2. cur[u] \in Ops /\ Dir[cur[u]] \in Dirs /\ holder[Dir[cur[u]]] = u
    BY <1>1, <2>1, ConstantsOK DEF LockInv
  <2>3. Dir[cur[u]] # d
    BY <1>1, <2>1
  <2> QED BY <2>1, <2>2, <2>3
<1>2. LockInv'
  BY <1>1 DEF LockInv
<1>3. PushInv'
  BY <1>1 DEF PushInv
<1> QED BY <1>2, <1>3

\* Push: push_back, unlock.
LEMMA PushKeeps ==
  ASSUME IInv, NEW t \in Threads, Push(t)
  PROVE  IInv'
<1> DEFINE op == cur[t]
           d == Dir[op]
           q == queue[d]
<1> USE DEF Push, Release
<1>1. op \in Ops /\ d \in Dirs /\ q \in Seq(Ops) /\ holder[d] = t /\ status[op] = "new"
  BY ConstantsOK DEF IInv, LockInv, PushInv, TypeOK
<1>2. /\ Append(q, op) \in Seq(Ops)
      /\ Len(q) \in Nat /\ Len(Append(q, op)) = Len(q) + 1
      /\ \A i \in 1 .. Len(q) : Append(q, op)[i] = q[i]
      /\ Append(q, op)[Len(q) + 1] = op
  BY <1>1, AppendFacts
<1>3. /\ queue' = [queue EXCEPT ![d] = Append(q, op)]
      /\ status' = [status EXCEPT ![op] = "queued"]
      /\ holder' = [holder EXCEPT ![d] = None]
  OBVIOUS
<1>4. queue' \in [Dirs -> Seq(Ops)] /\ queue'[d] = Append(q, op)
  BY <1>1, <1>2, <1>3 DEF IInv, TypeOK
<1>5. \A e \in Dirs : e # d => queue'[e] = queue[e]
  BY <1>3 DEF IInv, TypeOK
<1>6. TypeOK'
  BY <1>1, <1>3, <1>4 DEF IInv, TypeOK
<1>7. LockInv' /\ PushInv'
  <2>1. pc'[t] = "ready" /\ \A u \in Threads : u # t => pc'[u] = pc[u] /\ cur'[u] = cur[u]
    BY DEF IInv, TypeOK
  <2>2. \A u \in Threads : u # t /\ pc[u] \in {"push", "exec"} => Dir[cur[u]] # d
    BY <1>1 DEF IInv, LockInv
  <2> HIDE DEF Push, Release
  <2>3. \A e \in Dirs : e # d => holder'[e] = holder[e]
    BY <1>3 DEF IInv, TypeOK
  <2>4. \A o \in Ops : Dir[o] # d => status'[o] = status[o]
    BY <1>3 DEF IInv, TypeOK
  <2> QED BY <1>1, <2>1, <2>2, <2>3, <2>4, ReleaseFrame DEF IInv
<1>8. ExecInv'
  <2>1. ASSUME NEW u \in Threads, pc[u] = "exec" PROVE Dir[cur[u]] # d
    BY <2>1, <1>1 DEF IInv, LockInv
  <2>2. \A u \in Threads : pc[u] = "exec" => Dir[cur[u]] \in Dirs
    BY ConstantsOK DEF IInv, LockInv
  <2> QED BY <2>1, <2>2, <1>5 DEF IInv, TypeOK, ExecInv
<1>9. CallInv' /\ CalledAtMostOnce'
  BY <1>1, <1>3 DEF IInv, TypeOK, CallInv, CalledAtMostOnce
<1>10. QueueInv'
  <2>1. \A e \in Dirs : \A i \in 1 .. Len(queue[e]) :
          /\ queue[e][i] \in Ops /\ Dir[queue[e][i]] = e
          /\ status[queue[e][i]] = "queued" /\ queue[e][i] # op
    BY <1>1, EntryFacts DEF IInv
  <2>2. \A e \in Dirs : \A i \in 1 .. Len(queue'[e]) :
          \/ i \in 1 .. Len(queue[e]) /\ queue'[e][i] = queue[e][i]
          \/ e = d /\ i = Len(q) + 1 /\ queue'[e][i] = op
    BY <1>2, <1>4, <1>5
  <2>3. status'[op] = "queued" /\ \A o \in Ops : o # op => status'[o] = status[o]
    BY <1>1, <1>3 DEF IInv, TypeOK
  <2>4. \A e \in Dirs : \A i \in 1 .. Len(queue'[e]) :
          Dir[queue'[e][i]] = e /\ status'[queue'[e][i]] = "queued"
    BY <2>1, <2>2, <2>3
  <2>5. \A e \in Dirs : \A i, j \in 1 .. Len(queue'[e]) :
          queue'[e][i] = queue'[e][j] => i = j
    <3>1. \A e \in Dirs : \A i, j \in 1 .. Len(queue[e]) :
            queue[e][i] = queue[e][j] => i = j
      BY DEF IInv, QueueInv
    <3>2. ASSUME NEW e \in Dirs, NEW i \in 1 .. Len(queue'[e]),
                 NEW j \in 1 .. Len(queue'[e]), queue'[e][i] = queue'[e][j]
          PROVE  i = j
      <4>1. CASE queue'[e][i] = op
        <5>1. ASSUME NEW k \in 1 .. Len(queue'[e]), queue'[e][k] = op
              PROVE  k = Len(q) + 1
          BY <5>1, <2>1, <2>2
        <5> QED BY <5>1, <4>1, <3>2
      <4>2. CASE queue'[e][i] # op
        <5>1. /\ i \in 1 .. Len(queue[e]) /\ queue'[e][i] = queue[e][i]
              /\ j \in 1 .. Len(queue[e]) /\ queue'[e][j] = queue[e][j]
          BY <4>2, <3>2, <2>2
        <5> QED BY <5>1, <3>1, <3>2
      <4> QED BY <4>1, <4>2
    <3> QED BY <3>2
  <2>6. ASSUME NEW o \in Ops, status'[o] = "queued" PROVE Queued(o)'
    <3>1. CASE o = op
      <4>1. Len(q) + 1 \in 1 .. Len(queue'[d])
        BY <1>2, <1>4
      <4> QED BY <4>1, <3>1, <1>2, <1>4 DEF Queued
    <3>2. CASE o # op
      <4>1. PICK i \in 1 .. Len(queue[Dir[o]]) : queue[Dir[o]][i] = o
        BY <3>2, <2>3, <2>6 DEF IInv, QueueInv, Queued
      <4>2. i \in 1 .. Len(queue'[Dir[o]]) /\ queue'[Dir[o]][i] = o
        BY <4>1, <1>2, <1>4, <1>5, ConstantsOK
      <4> QED BY <4>2 DEF Queued
    <3> QED BY <3>1, <3>2
  <2> QED BY <2>4, <2>5, <2>6 DEF QueueInv
<1>11. CloseInv' /\ RegisteredOwnsFd' /\ ClosesOwnFd'
  BY DEF IInv, TypeOK, CloseInv, Releasing, Threads, RegisteredOwnsFd, ClosesOwnFd, Closing
<1>12. DrainInv'
  <2>1. \A u \in Threads, e \in Dirs : Behind(u, e)' => Behind(u, e)
    BY DEF IInv, TypeOK, Behind, Closing
  <2>2. \A u \in Threads : pc'[u] = "push" => pc[u] = "push" /\ cur'[u] = cur[u]
    BY DEF IInv, TypeOK
  <2>3. \A e \in Dirs : closed /\ (\A u \in Threads : Behind(u, e)) => e # d
    BY DEF IInv, DrainInv
  <2> QED BY <2>1, <2>2, <2>3, <1>5 DEF IInv, DrainInv
<1> QED
  BY <1>6, <1>7, <1>8, <1>9, <1>10, <1>11, <1>12 DEF IInv

\* Refuse: closed_ is true.
LEMMA RefuseKeeps ==
  ASSUME IInv, NEW t \in Threads, NEW op \in Ops, Refuse(t, op)
  PROVE  IInv'
<1> USE DEF Refuse
<1>1. TypeOK' /\ LockInv' /\ ExecInv'
  BY DEF IInv, TypeOK, LockInv, ExecInv
<1>2. PushInv' /\ CallInv' /\ CalledAtMostOnce'
  BY ConstantsOK DEF IInv, TypeOK, LockInv, PushInv, CallInv, CalledAtMostOnce
<1>3. QueueInv'
  BY QueueFrame DEF IInv, TypeOK
<1>4. CloseInv' /\ RegisteredOwnsFd' /\ ClosesOwnFd'
  BY DEF IInv, CloseInv, Releasing, Threads, RegisteredOwnsFd, ClosesOwnFd, Closing
<1>5. DrainInv'
  BY DrainFrame DEF IInv, Behind, Closing
<1> QED BY <1>1, <1>2, <1>3, <1>4, <1>5 DEF IInv

\* cancel().
LEMMA CancelKeeps ==
  ASSUME IInv, NEW t \in Threads, Cancel(t)
  PROVE  IInv'
<1> USE DEF Cancel
<1>1. queue' \in [Dirs -> Seq(Ops)] /\ \A d \in Dirs : queue'[d] = <<>>
  BY EmptySeq
<1>2. \A op \in Ops : IF status[op] = "queued" THEN status'[op] = "cancelled"
                                               ELSE status'[op] = status[op]
  <2>1. ASSUME NEW op \in Ops PROVE Queued(op) <=> status[op] = "queued"
    BY ConstantsOK DEF IInv, QueueInv, Queued
  <2> QED BY <2>1
<1>3. TypeOK'
  BY <1>1, <1>2 DEF IInv, TypeOK
<1>4. \A u \in Threads : pc[u] # "exec"
  <2>1. \A u \in Threads : pc[u] = "exec" => Dir[cur[u]] \in Dirs
    BY ConstantsOK DEF IInv, LockInv
  <2> QED BY <2>1, ConstantsOK DEF IInv, LockInv
<1>5. LockInv' /\ PushInv' /\ ExecInv'
  BY <1>2, <1>4 DEF IInv, LockInv, PushInv, ExecInv
<1>6. CallInv' /\ CalledAtMostOnce'
  BY <1>2 DEF IInv, TypeOK, CallInv, CalledAtMostOnce
<1>7. QueueInv'
  <2>1. \A d \in Dirs : 1 .. Len(queue'[d]) = {}
    BY <1>1
  <2>2. \A op \in Ops : status'[op] # "queued"
    BY <1>2
  <2> QED BY <2>1, <2>2 DEF QueueInv
<1>8. CloseInv' /\ RegisteredOwnsFd' /\ ClosesOwnFd'
  BY DEF IInv, CloseInv, Releasing, Threads, RegisteredOwnsFd, ClosesOwnFd, Closing
<1>9. DrainInv'
  BY <1>1 DEF IInv, DrainInv, Behind, Closing
<1> QED BY <1>3, <1>5, <1>6, <1>7, <1>8, <1>9 DEF IInv

\* CloseBegin: the exchange of closed_.
LEMMA CloseBeginKeeps ==
  ASSUME IInv, NEW t \in Threads, CloseBegin(t)
  PROVE  IInv'
<1> USE DEF CloseBegin, ExchangeClosed
<1>1. TypeOK' /\ LockInv' /\ PushInv' /\ ExecInv'
  BY DEF IInv, TypeOK, LockInv, PushInv, ExecInv
<1>2. CallInv' /\ CalledAtMostOnce'
  BY DEF IInv, TypeOK, CallInv, CalledAtMostOnce
<1>3. QueueInv'
  BY QueueFrame DEF IInv
<1>4. CloseInv' /\ RegisteredOwnsFd' /\ ClosesOwnFd'
  BY DEF IInv, TypeOK, CloseInv, Releasing, Threads, RegisteredOwnsFd, ClosesOwnFd, Closing
<1>5. DrainInv'
  <2>1. \A d \in Dirs : ~Behind(t, d)'
    BY DEF IInv, TypeOK, Behind, Closing
  <2> QED BY <2>1 DEF DrainInv
<1> QED BY <1>1, <1>2, <1>3, <1>4, <1>5 DEF IInv

\* Steps that only move a thread, change registered or fd, or end a callback.
LEMMA ControlKeeps ==
  ASSUME IInv, NEW t \in Threads,
         \/ ReadRuntime(t) \/ Deregister(t) \/ CloseFd(t) \/ DrainReturn(t)
         \/ t = Loop /\ (RuntimeStop \/ ReleaseHandles \/ CallbackReturn)
  PROVE  IInv'
<1> USE DEF ReadRuntime, Deregister, CloseFd, DrainReturn, RuntimeStop, ReleaseHandles,
            Releasing, CallbackReturn
<1>1. /\ queue' = queue /\ status' = status /\ holder' = holder /\ cur' = cur
      /\ calls' = calls /\ closed' = closed
      /\ pc[t] \notin {"push", "exec", "call", "drainCall"}
      /\ pc'[t] \notin {"push", "exec", "call", "drainCall"}
      /\ \A u \in Threads : u # t => pc'[u] = pc[u]
  BY DEF IInv, TypeOK
<1>2. TypeOK'
  <2>1. CASE ReadRuntime(t) \/ Deregister(t) \/ DrainReturn(t)
    BY <2>1 DEF IInv, TypeOK
  <2>2. CASE CloseFd(t)
    BY <2>2 DEF IInv, TypeOK, Dirs
  <2>3. CASE t = Loop /\ (RuntimeStop \/ ReleaseHandles \/ CallbackReturn)
    BY <2>3 DEF IInv, TypeOK
  <2> QED BY <2>1, <2>2, <2>3
<1>3. LockInv' /\ PushInv' /\ ExecInv'
  <2> HIDE DEF ReadRuntime, Deregister, CloseFd, DrainReturn, RuntimeStop, ReleaseHandles,
            Releasing, CallbackReturn
  <2>1. LockInv'
    BY <1>1 DEF IInv, LockInv
  <2>2. PushInv'
    BY <1>1 DEF IInv, PushInv
  <2>3. ExecInv'
    BY <1>1 DEF IInv, ExecInv
  <2> QED BY <2>1, <2>2, <2>3
<1>4. CallInv' /\ CalledAtMostOnce'
  <2> HIDE DEF ReadRuntime, Deregister, CloseFd, DrainReturn, RuntimeStop, ReleaseHandles,
            Releasing, CallbackReturn
  <2> QED BY <1>1 DEF IInv, CallInv, CalledAtMostOnce
<1>5. QueueInv'
  BY <1>1, QueueFrame DEF IInv
<1>6. CloseInv' /\ RegisteredOwnsFd' /\ ClosesOwnFd'
  <2>0. CASE ReadRuntime(t) \/ Deregister(t)
    <3>1. Closing(t) /\ Closing(t)' /\ (Releasing' <=> Releasing)
      BY <2>0, <1>1 DEF IInv, TypeOK, Closing, Threads
    <3>2. \A u \in Threads : u # t => pc'[u] = pc[u]
      BY <1>1
    <3>3. CloseInv'
      <4>1. CASE ReadRuntime(t)
        BY <4>1, <3>1, <3>2 DEF IInv, TypeOK, CloseInv, Closing
      <4>2. CASE Deregister(t)
        BY <4>2, <3>1, <3>2 DEF IInv, TypeOK, CloseInv, Closing
      <4> QED BY <2>0, <4>1, <4>2
    <3>4. RegisteredOwnsFd' /\ ClosesOwnFd'
      BY <2>0, <3>1, <3>2 DEF IInv, RegisteredOwnsFd, ClosesOwnFd
    <3> QED BY <3>3, <3>4
  <2>1. CASE CloseFd(t)
    BY <2>1 DEF IInv, TypeOK, CloseInv, Releasing, Threads, RegisteredOwnsFd, ClosesOwnFd, Closing
  <2>2. CASE DrainReturn(t)
    BY <2>2 DEF IInv, TypeOK, CloseInv, Releasing, Threads, RegisteredOwnsFd, ClosesOwnFd, Closing
  <2>3. CASE t = Loop /\ (RuntimeStop \/ ReleaseHandles \/ CallbackReturn)
    BY <2>3 DEF IInv, TypeOK, CloseInv, Releasing, Threads, RegisteredOwnsFd, ClosesOwnFd, Closing
  <2> QED BY <2>0, <2>1, <2>2, <2>3
<1>7. DrainInv'
  <2>1. \A u \in Threads, d \in Dirs : Behind(u, d)' => Behind(u, d)
    BY DEF IInv, TypeOK, Behind, Closing
  <2> QED BY <2>1, <1>1, DrainFrame DEF IInv
<1> QED BY <1>2, <1>3, <1>4, <1>5, <1>6, <1>7 DEF IInv

\* DrainNext: a drained queue, and on to the next or out of close().
LEMMA DrainNextKeeps ==
  ASSUME IInv, NEW t \in Threads, DrainNext(t)
  PROVE  IInv'
<1> USE DEF DrainNext, DrainTurn, AfterDrain
<1>1. TypeOK' /\ LockInv' /\ PushInv' /\ ExecInv'
  <2>1. TypeOK'
    BY DEF IInv, TypeOK, Dirs
  <2>2. /\ \A u \in Threads : u # t => pc'[u] = pc[u]
        /\ pc[t] = "drain" /\ pc'[t] \in {"drain", "ready"}
        /\ queue' = queue /\ status' = status /\ holder' = holder /\ cur' = cur
    BY DEF IInv, TypeOK
  <2> HIDE DEF DrainNext, DrainTurn, AfterDrain
  <2>3. LockInv'
    BY <2>2 DEF IInv, LockInv
  <2>4. PushInv'
    BY <2>2 DEF IInv, PushInv
  <2>5. ExecInv'
    BY <2>2 DEF IInv, ExecInv
  <2> QED BY <2>1, <2>3, <2>4, <2>5
<1>2. CallInv' /\ CalledAtMostOnce'
  BY DEF IInv, TypeOK, CallInv, CalledAtMostOnce
<1>3. QueueInv'
  BY QueueFrame DEF IInv
<1>4. CloseInv' /\ RegisteredOwnsFd' /\ ClosesOwnFd'
  BY DEF IInv, TypeOK, CloseInv, Releasing, Threads, RegisteredOwnsFd, ClosesOwnFd, Closing
<1>5. DrainInv'
  <2>1. queue[draining[t]] = <<>> /\ \A u \in Threads :
          pc[u] = "push" => Dir[cur[u]] # draining[t]
    BY ConstantsOK DEF IInv, LockInv
  <2>2. ASSUME NEW d \in Dirs, d # draining[t], \A u \in Threads : Behind(u, d)'
        PROVE  \A u \in Threads : Behind(u, d)
    <3>1. \A u \in Threads : u # t => pc'[u] = pc[u] /\ draining'[u] = draining[u]
      BY DEF IInv, TypeOK
    <3>2. \A u \in Threads : u # t => Behind(u, d)
      BY <2>2, <3>1 DEF Behind, Closing
    <3>3. Behind(t, d)
      BY <2>2 DEF IInv, TypeOK, Behind, Closing, Dirs
    <3> QED BY <3>2, <3>3
  <2>3. pc'[t] # "push" /\ \A u \in Threads : u # t => pc'[u] = pc[u]
    BY DEF IInv, TypeOK
  <2> QED BY <2>1, <2>2, <2>3 DEF IInv, DrainInv
<1> QED BY <1>1, <1>2, <1>3, <1>4, <1>5 DEF IInv

\* A callback is called, by close() or by do_read and do_write.
LEMMA CallKeeps ==
  ASSUME IInv, NEW t \in Threads, DrainCall(t) \/ (t = Loop /\ Invoke)
  PROVE  IInv'
<1> USE DEF DrainCall, Invoke
<1>1. /\ pc[t] \in {"call", "drainCall"} /\ cur[t] \in Ops /\ calls[cur[t]] = 0
      /\ pc'[t] \notin {"call", "drainCall", "push", "exec"}
      /\ \A u \in Threads : u # t => pc'[u] = pc[u] /\ cur'[u] = cur[u]
      /\ calls' = [calls EXCEPT ![cur[t]] = 1]
  BY DEF IInv, TypeOK, CallInv
<1>2. TypeOK'
  <2>1. CASE DrainCall(t)
    BY <2>1, <1>1 DEF IInv, TypeOK
  <2>2. CASE t = Loop /\ Invoke
    BY <2>2, <1>1 DEF IInv, TypeOK
  <2> QED BY <2>1, <2>2
<1>3. LockInv' /\ PushInv' /\ ExecInv'
  BY <1>1 DEF IInv, LockInv, PushInv, ExecInv
<1>4. CallInv' /\ CalledAtMostOnce'
  <2>1. status' = status /\ status[cur[t]] = "taken"
    BY DEF IInv, CallInv
  <2>2. /\ calls'[cur[t]] = 1
        /\ \A op \in Ops : op # cur[t] => calls'[op] = calls[op]
    BY <1>1 DEF IInv, TypeOK
  <2>3. \A u \in Threads : u # t /\ pc[u] \in {"call", "drainCall"} => cur[u] # cur[t]
    BY <1>1 DEF IInv, CallInv
  <2> HIDE DEF DrainCall, Invoke
  <2> QED BY <1>1, <2>1, <2>2, <2>3 DEF IInv, CallInv, CalledAtMostOnce
<1>5. QueueInv'
  BY QueueFrame DEF IInv
<1>6. CloseInv' /\ RegisteredOwnsFd' /\ ClosesOwnFd'
  BY DEF IInv, TypeOK, CloseInv, Releasing, Threads, RegisteredOwnsFd, ClosesOwnFd, Closing
<1>7. DrainInv'
  <2>1. \A u \in Threads, d \in Dirs : Behind(u, d)' => Behind(u, d)
    BY DEF IInv, TypeOK, Behind, Closing
  <2> QED BY <2>1, <1>1, DrainFrame DEF IInv
<1> QED BY <1>2, <1>3, <1>4, <1>5, <1>6, <1>7 DEF IInv

\* DoBegin: lock, test, copy the front task.
LEMMA DoBeginKeeps ==
  ASSUME IInv, NEW d \in Dirs, DoBegin(d)
  PROVE  IInv'
<1> USE DEF DoBegin, Acquire, Threads
<1>1. Head(queue[d]) \in Ops /\ Dir[Head(queue[d])] = d
  BY FrontFacts DEF IInv
<1>2. TypeOK'
  BY <1>1 DEF IInv, TypeOK
<1>3. LockInv' /\ PushInv'
  <2>1. /\ \A u \in Threads : u # Loop => pc'[u] = pc[u] /\ cur'[u] = cur[u]
        /\ pc[Loop] = "ready" /\ pc'[Loop] = "exec" /\ cur'[Loop] = Head(queue[d])
        /\ holder[d] = None /\ holder' = [holder EXCEPT ![d] = Loop]
        /\ status' = status /\ ~closed /\ Loop \in Threads /\ d \in Dirs
    BY DEF IInv, TypeOK
  <2>2. \A u \in Threads : pc[u] \in {"push", "exec"} => Dir[cur[u]] # d
    BY <2>1, ConstantsOK DEF IInv, LockInv
  <2> HIDE DEF DoBegin, Acquire
  <2>3. ASSUME NEW u \in Threads, u # Loop, pc'[u] \in {"push", "exec"}
        PROVE  cur'[u] \in Ops /\ holder'[Dir[cur'[u]]] = u
    <3>1. /\ cur'[u] = cur[u] /\ cur[u] \in Ops /\ holder[Dir[cur[u]]] = u
          /\ Dir[cur[u]] # d /\ Dir[cur[u]] \in Dirs
      BY <2>1, <2>2, <2>3, ConstantsOK DEF IInv, LockInv
    <3> QED BY <2>1, <3>1 DEF IInv, TypeOK
  <2>4. cur'[Loop] \in Ops /\ holder'[Dir[cur'[Loop]]] = Loop
    BY <1>1, <2>1 DEF IInv, TypeOK
  <2>5. LockInv'
    BY <2>3, <2>4 DEF LockInv
  <2>6. PushInv'
    BY <2>1 DEF IInv, PushInv
  <2> QED BY <2>5, <2>6
<1>4. ExecInv'
  BY <1>1 DEF IInv, TypeOK, ExecInv
<1>5. CallInv' /\ CalledAtMostOnce'
  BY DEF IInv, TypeOK, CallInv, CalledAtMostOnce
<1>6. QueueInv'
  BY QueueFrame DEF IInv
<1>7. CloseInv' /\ RegisteredOwnsFd' /\ ClosesOwnFd' /\ DrainInv'
  BY DEF IInv, TypeOK, CloseInv, Releasing, Threads, RegisteredOwnsFd, ClosesOwnFd, Closing, DrainInv
<1> QED BY <1>2, <1>3, <1>4, <1>5, <1>6, <1>7 DEF IInv

\* The runtime, other files and the peer change nothing that IInv relates.
LEMMA EnvironmentKeeps ==
  ASSUME IInv, FdReuse \/ PeerSend \/ PeerEnd \/ UNCHANGED vars
  PROVE  IInv'
<1> USE DEF FdReuse, PeerSend, PeerEnd, vars
<1>1. TypeOK' /\ LockInv' /\ PushInv' /\ ExecInv'
  <2>1. TypeOK'
    BY DEF IInv, TypeOK
  <2>2. queue' = queue /\ status' = status /\ holder' = holder /\ cur' = cur /\ pc' = pc
    OBVIOUS
  <2> HIDE DEF FdReuse, PeerSend, PeerEnd, vars
  <2>3. LockInv'
    BY <2>2 DEF IInv, LockInv
  <2>4. PushInv'
    BY <2>2 DEF IInv, PushInv
  <2>5. ExecInv'
    BY <2>2 DEF IInv, ExecInv
  <2> QED BY <2>1, <2>3, <2>4, <2>5
<1>2. CallInv' /\ CalledAtMostOnce'
  BY DEF IInv, CallInv, CalledAtMostOnce
<1>3. QueueInv'
  BY QueueFrame DEF IInv
<1>4. CloseInv' /\ RegisteredOwnsFd' /\ ClosesOwnFd'
  BY DEF IInv, CloseInv, Releasing, Threads, RegisteredOwnsFd, ClosesOwnFd, Closing
<1>5. DrainInv'
  <2>1. \A u \in Threads, d \in Dirs : Behind(u, d)' <=> Behind(u, d)
    BY DEF Behind, Closing
  <2>2. queue' = queue /\ closed' = closed /\ pc' = pc /\ cur' = cur
    OBVIOUS
  <2> QED BY <2>1, <2>2, DrainFrame DEF IInv
<1> QED BY <1>1, <1>2, <1>3, <1>4, <1>5 DEF IInv

\* The consequences of a Take for the invariants on callbacks and on drained
\* queues.
LEMMA TakeKeepsCalls ==
  ASSUME IInv, NEW t \in Threads, NEW op \in Ops, status[op] = "queued",
         NEW next \in {"call", "drainCall"},
         pc[t] \notin {"call", "drainCall"}, pc' = [pc EXCEPT ![t] = next],
         cur' = [cur EXCEPT ![t] = op], calls' = calls,
         status' = [status EXCEPT ![op] = "taken"]
  PROVE  CallInv' /\ CalledAtMostOnce'
<1>1. calls[op] = 0
  <2>1. calls[op] \in Nat
    BY DEF IInv, TypeOK
  <2>2. status[op] # "taken" => calls[op] <= 0
    BY DEF IInv, CalledAtMostOnce
  <2> QED BY <2>1, <2>2
<1>2. /\ cur'[t] = op /\ status'[op] = "taken"
      /\ \A u \in Threads : u # t => pc'[u] = pc[u] /\ cur'[u] = cur[u]
      /\ \A o \in Ops : o # op => status'[o] = status[o]
  BY DEF IInv, TypeOK
<1>3. \A u \in Threads : pc[u] \in {"call", "drainCall"} => cur[u] # op
  BY DEF IInv, CallInv
<1>4. CallInv'
  <2>1. ASSUME NEW u \in Threads, pc'[u] \in {"call", "drainCall"}
        PROVE  cur'[u] \in Ops /\ status'[cur'[u]] = "taken" /\ calls'[cur'[u]] = 0
    BY <2>1, <1>1, <1>2, <1>3 DEF IInv, CallInv
  <2>2. ASSUME NEW u \in Threads, NEW v \in Threads, u # v,
               pc'[u] \in {"call", "drainCall"}, pc'[v] \in {"call", "drainCall"}
        PROVE  cur'[u] # cur'[v]
    BY <2>2, <1>2, <1>3 DEF IInv, CallInv
  <2> QED BY <2>1, <2>2 DEF CallInv
<1>5. CalledAtMostOnce'
  BY <1>1, <1>2 DEF IInv, CalledAtMostOnce
<1> QED BY <1>4, <1>5

\* An operation that is taken from a queue disturbs no drain.
LEMMA TakeKeepsDrain ==
  ASSUME DrainInv, NEW d \in Dirs, queue[d] # <<>>, closed' = closed,
         \A e \in Dirs : e # d => queue'[e] = queue[e],
         \A u \in Threads, e \in Dirs : Behind(u, e)' => Behind(u, e),
         \A u \in Threads : pc'[u] = "push" => pc[u] = "push" /\ cur'[u] = cur[u]
  PROVE  DrainInv'
<1> SUFFICES ASSUME NEW e \in Dirs, closed, \A u \in Threads : Behind(u, e)'
             PROVE  /\ queue'[e] = <<>>
                    /\ \A u \in Threads : pc'[u] = "push" => Dir[cur'[u]] # e
  BY DEF DrainInv
<1>1. queue[e] = <<>> /\ \A u \in Threads : pc[u] = "push" => Dir[cur[u]] # e
  BY DEF DrainInv
<1> QED BY <1>1

\* close() takes the front task of the queue it is draining.
LEMMA DrainTakeKeeps ==
  ASSUME IInv, NEW t \in Threads, DrainTake(t)
  PROVE  IInv'
<1> DEFINE d == draining[t]
           op == Head(queue[d])
<1>1. /\ d \in Dirs /\ holder[d] = None /\ queue[d] # <<>>
      /\ Take(t, op, "error", 0)
      /\ pc[t] = "drain" /\ pc' = [pc EXCEPT ![t] = "drainCall"]
      /\ UNCHANGED <<closed, registered, linked, fd, holder, moved, foreign, calls,
                     draining, inCallback, arrived, inbox, peer>>
  BY DEF DrainTake, DrainTurn, FinishedSize, QueuedPos, IInv, TypeOK
<1>2. /\ op \in Ops /\ Dir[op] = d /\ status[op] = "queued"
      /\ queue' \in [Dirs -> Seq(Ops)]
      /\ \A e \in Dirs : e # d => queue'[e] = queue[e]
      /\ status' = [status EXCEPT ![op] = "taken"]
      /\ outcome' \in [Ops -> {"none", "ok", "error"}]
      /\ given' \in [Ops -> Nat]
      /\ cur' = [cur EXCEPT ![t] = op]
      /\ QueueInv'
  BY <1>1, TakeFacts DEF IInv
<1>3. TypeOK'
  BY <1>1, <1>2 DEF IInv, TypeOK
<1>10. /\ \A u \in Threads : u # t => pc'[u] = pc[u] /\ cur'[u] = cur[u]
       /\ pc'[t] = "drainCall" /\ holder' = holder
  BY <1>1, <1>2 DEF IInv, TypeOK
<1>4. LockInv' /\ PushInv'
  <2>1. LockInv'
    BY <1>1, <1>10 DEF IInv, LockInv
  <2>2. \A u \in Threads : pc[u] = "push" => cur[u] # op
    BY <1>2 DEF IInv, PushInv
  <2>3. PushInv'
    BY <1>1, <1>2, <1>10, <2>2 DEF IInv, TypeOK, PushInv, LockInv
  <2> QED BY <2>1, <2>3
<1>5. ExecInv'
  <2>1. \A u \in Threads : pc[u] = "exec" => Dir[cur[u]] \in Dirs \ {d}
    BY <1>1, ConstantsOK DEF IInv, LockInv
  <2>2. \A u \in Threads : pc[u] = "exec" => queue'[Dir[cur[u]]] = queue[Dir[cur[u]]]
    BY <1>2, <2>1
  <2>3. \A u \in Threads : pc'[u] \in {"exec", "call"} =>
          u # t /\ pc[u] = pc'[u] /\ cur'[u] = cur[u]
    BY <1>10
  <2> QED BY <2>2, <2>3 DEF IInv, ExecInv
<1>6. CallInv' /\ CalledAtMostOnce'
  BY <1>1, <1>2, TakeKeepsCalls
<1>7. CloseInv' /\ RegisteredOwnsFd' /\ ClosesOwnFd'
  BY <1>1 DEF IInv, TypeOK, CloseInv, Releasing, Threads, RegisteredOwnsFd, ClosesOwnFd, Closing
<1>8. DrainInv'
  <2>1. \A u \in Threads, e \in Dirs : Behind(u, e)' => Behind(u, e)
    BY <1>1 DEF IInv, TypeOK, Behind, Closing
  <2>2. \A u \in Threads : pc'[u] = "push" => pc[u] = "push" /\ cur'[u] = cur[u]
    BY <1>1, <1>2 DEF IInv, TypeOK
  <2> QED BY <1>1, <1>2, <2>1, <2>2, TakeKeepsDrain DEF IInv
<1> QED BY <1>2, <1>3, <1>4, <1>5, <1>6, <1>7, <1>8 DEF IInv

\* exec is over and the runtime thread still holds the mutex of queue d.
ExecEnds(d) ==
  /\ pc[Loop] = "exec" /\ d = Dir[cur[Loop]]
  /\ holder' = [holder EXCEPT ![d] = None]
  /\ moved' \in [Ops -> Nat] /\ inbox' \in Nat /\ foreign' \in BOOLEAN
  /\ UNCHANGED <<closed, registered, linked, fd, calls, draining, inCallback, arrived,
                 peer>>

\* What the task in execution is.
LEMMA ExecFacts ==
  ASSUME IInv, pc[Loop] = "exec"
  PROVE  LET op == cur[Loop]  d == Dir[op] IN
         /\ op \in Ops /\ d \in Dirs /\ holder[d] = Loop
         /\ queue[d] # <<>> /\ op = Head(queue[d]) /\ status[op] = "queued"
<1>1. cur[Loop] \in Ops /\ Dir[cur[Loop]] \in Dirs
  BY ConstantsOK DEF IInv, LockInv, Threads
<1>2. /\ queue[Dir[cur[Loop]]] # <<>>
      /\ cur[Loop] = Head(queue[Dir[cur[Loop]]])
      /\ holder[Dir[cur[Loop]]] = Loop
  BY DEF IInv, LockInv, ExecInv, Threads
<1>3. status[cur[Loop]] = "queued"
  BY <1>1, <1>2, FrontFacts DEF IInv
<1> QED BY <1>1, <1>2, <1>3

\* The task leaves the queue: it is finished, or has failed.
LEMMA ExecTakesKeeps ==
  ASSUME IInv, NEW d, ExecEnds(d),
         NEW result \in {"ok", "error"}, NEW size \in Nat,
         Take(Loop, cur[Loop], result, size),
         pc' = [pc EXCEPT ![Loop] = "call"]
  PROVE  IInv'
<1> DEFINE op == Head(queue[d])
<1> USE DEF ExecEnds
<1>1. /\ op = cur[Loop] /\ d \in Dirs /\ queue[d] # <<>> /\ holder[d] = Loop
      /\ Loop \in Threads
  BY ExecFacts DEF Threads
<1>2. /\ op \in Ops /\ Dir[op] = d /\ status[op] = "queued"
      /\ queue' \in [Dirs -> Seq(Ops)]
      /\ \A e \in Dirs : e # d => queue'[e] = queue[e]
      /\ status' = [status EXCEPT ![op] = "taken"]
      /\ outcome' \in [Ops -> {"none", "ok", "error"}]
      /\ given' \in [Ops -> Nat]
      /\ cur' = [cur EXCEPT ![Loop] = op]
      /\ QueueInv'
  BY <1>1, TakeFacts DEF IInv
<1>3. TypeOK'
  BY <1>1, <1>2 DEF IInv, TypeOK
<1>4. LockInv' /\ PushInv'
  <2>1. \A u \in Threads : u # Loop => pc'[u] = pc[u] /\ cur'[u] = cur[u]
    BY <1>2 DEF IInv, TypeOK
  <2>2. pc'[Loop] = "call"
    BY <1>1 DEF IInv, TypeOK
  <2>3. \A u \in Threads : u # Loop /\ pc[u] \in {"push", "exec"} =>
          Dir[cur[u]] # d /\ cur[u] # op
    BY <1>1, <1>2 DEF IInv, LockInv
  <2>4. LockInv'
    <3> SUFFICES ASSUME NEW u \in Threads, pc'[u] \in {"push", "exec"}
                 PROVE  cur'[u] \in Ops /\ holder'[Dir[cur'[u]]] = u
      BY DEF LockInv
    <3>1. /\ cur'[u] = cur[u] /\ cur[u] \in Ops /\ Dir[cur[u]] # d
          /\ holder[Dir[cur[u]]] = u
      BY <2>1, <2>2, <2>3 DEF IInv, LockInv
    <3>2. Dir[cur[u]] \in Dirs
      BY <3>1, ConstantsOK
    <3> QED BY <3>1, <3>2 DEF IInv, TypeOK
  <2>5. PushInv'
    <3> SUFFICES ASSUME NEW u \in Threads, pc'[u] = "push"
                 PROVE  status'[cur'[u]] = "new"
      BY DEF PushInv
    <3>1. /\ cur'[u] = cur[u] /\ cur[u] \in Ops /\ cur[u] # op
          /\ status[cur[u]] = "new"
      BY <2>1, <2>2, <2>3 DEF IInv, LockInv, PushInv
    <3> QED BY <3>1, <1>2 DEF IInv, TypeOK
  <2> QED BY <2>4, <2>5
<1>5. ExecInv'
  BY <1>1, <1>2 DEF IInv, TypeOK, ExecInv
<1>6. CallInv' /\ CalledAtMostOnce'
  BY <1>1, <1>2, TakeKeepsCalls
<1>7. CloseInv' /\ RegisteredOwnsFd' /\ ClosesOwnFd'
  BY <1>1 DEF IInv, TypeOK, CloseInv, Releasing, Threads, RegisteredOwnsFd, ClosesOwnFd, Closing
<1>8. DrainInv'
  <2>1. \A u \in Threads, e \in Dirs : Behind(u, e)' => Behind(u, e)
    BY <1>1 DEF IInv, TypeOK, Behind, Closing
  <2>2. \A u \in Threads : pc'[u] = "push" => pc[u] = "push" /\ cur'[u] = cur[u]
    BY <1>1, <1>2 DEF IInv, TypeOK
  <2> QED BY <1>1, <1>2, <2>1, <2>2, TakeKeepsDrain DEF IInv
<1> QED BY <1>2, <1>3, <1>4, <1>5, <1>6, <1>7, <1>8 DEF IInv

\* The task stays: it has to wait, or UNTIL_FINISHED has more bytes to move.
LEMMA ExecLeavesKeeps ==
  ASSUME IInv, NEW d, ExecEnds(d),
         queue' = queue, status' = status, outcome' = outcome, given' = given,
         pc' = [pc EXCEPT ![Loop] = "ready"], cur' = [cur EXCEPT ![Loop] = None]
  PROVE  IInv'
<1> USE DEF ExecEnds
<1>1. Loop \in Threads /\ d \in Dirs /\ holder[d] = Loop
  BY ExecFacts DEF Threads
<1>2. TypeOK'
  BY <1>1 DEF IInv, TypeOK
<1>3. LockInv' /\ PushInv'
  <2>1. \A u \in Threads : u # Loop => pc'[u] = pc[u] /\ cur'[u] = cur[u]
    BY DEF IInv, TypeOK
  <2>2. pc'[Loop] = "ready"
    BY <1>1 DEF IInv, TypeOK
  <2>3. \A u \in Threads : u # Loop /\ pc[u] \in {"push", "exec"} => Dir[cur[u]] # d
    BY <1>1 DEF IInv, LockInv
  <2>4. \A e \in Dirs : e # d => holder'[e] = holder[e]
    BY DEF IInv, TypeOK
  <2> QED BY <1>1, <2>1, <2>2, <2>3, <2>4, ReleaseFrame DEF IInv
<1>4. ExecInv'
  BY <1>1 DEF IInv, TypeOK, ExecInv
<1>5. CallInv' /\ CalledAtMostOnce'
  BY <1>1 DEF IInv, TypeOK, CallInv, CalledAtMostOnce
<1>6. QueueInv'
  BY QueueFrame DEF IInv
<1>7. CloseInv' /\ RegisteredOwnsFd' /\ ClosesOwnFd'
  BY <1>1 DEF IInv, TypeOK, CloseInv, Releasing, Threads, RegisteredOwnsFd, ClosesOwnFd, Closing
<1>8. DrainInv'
  <2>1. \A u \in Threads, e \in Dirs : Behind(u, e)' => Behind(u, e)
    BY <1>1 DEF IInv, TypeOK, Behind, Closing
  <2>2. \A u \in Threads : pc'[u] = "push" => pc[u] = "push" /\ cur'[u] = cur[u]
    BY <1>1 DEF IInv, TypeOK
  <2> QED BY <2>1, <2>2, DrainFrame DEF IInv
<1> QED BY <1>2, <1>3, <1>4, <1>5, <1>6, <1>7, <1>8 DEF IInv

\* ExecMove: bytes were moved.
LEMMA ExecMoveKeeps ==
  ASSUME IInv, ExecMove
  PROVE  IInv'
<1> DEFINE op == cur[Loop]
<1>1. op \in Ops /\ Dir[op] \in Dirs /\ Size[op] \in Nat
  BY ExecFacts, ConstantsOK DEF ExecMove
<1>2. PICK n \in 1 .. Size[op] - QueuedPos :
        /\ MayMove(op, n)
        /\ moved' = [moved EXCEPT ![op] = @ + n]
        /\ inbox' = IF Dir[op] = "read" /\ fd = "own" THEN inbox - n ELSE inbox
        /\ IF Until[op] => QueuedPos + n = Size[op]
           THEN /\ Take(Loop, op, "ok", FinishedSize(n))
                /\ pc' = [pc EXCEPT ![Loop] = "call"]
           ELSE /\ pc' = [pc EXCEPT ![Loop] = "ready"]
                /\ cur' = [cur EXCEPT ![Loop] = None]
                /\ UNCHANGED opVars
  BY DEF ExecMove
<1>3. n \in Nat /\ FinishedSize(n) \in Nat
  BY <1>1, <1>2 DEF QueuedPos, FinishedSize
<1>4. ExecEnds(Dir[op])
  <2>1. moved' \in [Ops -> Nat] /\ inbox' \in Nat
    BY <1>1, <1>2, <1>3 DEF IInv, TypeOK, MayMove
  <2> QED BY <2>1 DEF ExecMove, ExecEnds, Release, IInv, TypeOK
<1>5. CASE Until[op] => QueuedPos + n = Size[op]
  BY <1>2, <1>3, <1>4, <1>5, ExecTakesKeeps
<1>6. CASE ~(Until[op] => QueuedPos + n = Size[op])
  BY <1>2, <1>4, <1>6, ExecLeavesKeeps
<1> QED BY <1>5, <1>6

\* ExecNone: no byte was moved.
LEMMA ExecNoneKeeps ==
  ASSUME IInv, ExecNone
  PROVE  IInv'
<1> DEFINE op == cur[Loop]
<1>1. ExecEnds(Dir[op])
  BY DEF ExecNone, ExecEnds, Release, IInv, TypeOK
<1>2. PICK answer \in Answers(op) :
        IF Ends(answer)
        THEN /\ Take(Loop, op, "error", FinishedSize(0))
             /\ pc' = [pc EXCEPT ![Loop] = "call"]
        ELSE /\ pc' = [pc EXCEPT ![Loop] = "ready"]
             /\ cur' = [cur EXCEPT ![Loop] = None]
             /\ UNCHANGED opVars
  BY DEF ExecNone
<1>3. FinishedSize(0) \in Nat
  BY DEF FinishedSize, QueuedPos
<1>4. CASE Ends(answer)
  BY <1>1, <1>2, <1>3, <1>4, ExecTakesKeeps
<1>5. CASE ~Ends(answer)
  BY <1>1, <1>2, <1>5, ExecLeavesKeeps
<1> QED BY <1>4, <1>5

-----------------------------------------------------------------------------
(* The theorems.                                                           *)

\* Nothing is queued, held or closed.
LEMMA InitIInv == Init => IInv
<1> SUFFICES ASSUME Init PROVE IInv
  OBVIOUS
<1> USE DEF Init
<1>1. TypeOK
  BY EmptySeq DEF TypeOK, Dirs
<1>2. QueueInv
  <2>1. \A d \in Dirs : 1 .. Len(queue[d]) = {}
    BY EmptySeq
  <2> QED BY <2>1 DEF QueueInv
<1>3. LockInv /\ PushInv /\ ExecInv /\ CallInv /\ CalledAtMostOnce
  BY DEF LockInv, PushInv, ExecInv, CallInv, CalledAtMostOnce
<1>4. CloseInv /\ RegisteredOwnsFd /\ ClosesOwnFd /\ DrainInv
  BY DEF CloseInv, Releasing, Threads, RegisteredOwnsFd, ClosesOwnFd, DrainInv, Closing
<1> QED BY <1>1, <1>2, <1>3, <1>4 DEF IInv

\* IInv is inductive.
LEMMA NextIInv == IInv /\ [Next]_vars => IInv'
<1> SUFFICES ASSUME IInv, [Next]_vars PROVE IInv'
  OBVIOUS
<1> USE DEF Threads
<1>1. ASSUME NEW t \in Threads, NEW op \in Ops, Submit(t, op) PROVE IInv'
  BY <1>1, SubmitKeeps
<1>2. ASSUME NEW t \in Threads, NEW op \in Ops, Refuse(t, op) PROVE IInv'
  BY <1>2, RefuseKeeps
<1>3. ASSUME NEW t \in Threads, Push(t) PROVE IInv'
  BY <1>3, PushKeeps
<1>4. ASSUME NEW t \in Threads, Cancel(t) PROVE IInv'
  BY <1>4, CancelKeeps
<1>5. ASSUME NEW t \in Threads, CloseBegin(t) PROVE IInv'
  BY <1>5, CloseBeginKeeps
<1>6. ASSUME NEW t \in Threads, CloseSteps(t) PROVE IInv'
  BY <1>6, ControlKeeps, DrainTakeKeeps, CallKeeps, DrainNextKeeps DEF CloseSteps
<1>7. ASSUME NEW d \in Dirs, DoBegin(d) PROVE IInv'
  BY <1>7, DoBeginKeeps
<1>8. CASE DoSteps
  BY <1>8, ExecMoveKeeps, ExecNoneKeeps, CallKeeps, ControlKeeps DEF DoSteps
<1>9. CASE RuntimeStop \/ ReleaseHandles
  BY <1>9, ControlKeeps
<1>10. CASE FdReuse \/ PeerSend \/ PeerEnd \/ UNCHANGED vars
  BY <1>10, EnvironmentKeeps
<1> QED
  BY <1>1, <1>2, <1>3, <1>4, <1>5, <1>6, <1>7, <1>8, <1>9, <1>10
  DEF Next, Terminated

\* Every reachable state satisfies the inductive invariant.
THEOREM Invariance == Spec => []IInv
BY InitIInv, NextIInv, PTL DEF Spec

\* In every reachable state of the socket each variable has its type; the pop
\* of a drain loop and of do_read or do_write never meets an empty queue.
THEOREM TypeCorrect == Spec => []TypeOK
<1>1. IInv => TypeOK
  BY DEF IInv
<1> QED BY <1>1, Invariance, PTL

\* No callback is called twice or for an operation that was not taken from
\* its queue, however many threads submit, cancel and close.
THEOREM AtMostOneCall == Spec => []CalledAtMostOnce
<1>1. IInv => CalledAtMostOnce
  BY DEF IInv
<1> QED BY <1>1, Invariance, PTL

\* When close() has returned no accepted operation is queued or about to be.
THEOREM NoOperationStranded == Spec => []NothingStranded
<1>1. IInv => NothingStranded
  <2> SUFFICES ASSUME IInv, closed, \A t \in Threads : ~Closing(t)
               PROVE  /\ \A op \in Ops : status[op] # "queued"
                      /\ \A t \in Threads : pc[t] # "push"
    BY DEF NothingStranded
  <2>1. \A d \in Dirs : /\ queue[d] = <<>>
                        /\ \A t \in Threads : pc[t] = "push" => Dir[cur[t]] # d
    BY DEF IInv, DrainInv, Behind
  <2>2. ASSUME NEW op \in Ops PROVE status[op] # "queued"
    <3>1. 1 .. Len(queue[Dir[op]]) = {}
      BY <2>1, EmptySeq, ConstantsOK
    <3> QED BY <3>1 DEF IInv, QueueInv, Queued
  <2>3. ASSUME NEW t \in Threads PROVE pc[t] # "push"
    BY <2>1, ConstantsOK DEF IInv, LockInv
  <2> QED BY <2>2, <2>3
<1> QED BY <1>1, Invariance, PTL

\* Whoever locks handles_mtx_ and finds the socket in the tables finds it under its
\* own number, although close() may overtake a release_all_handles in progress.
THEOREM FdOwnership == Spec => []RegisteredOwnsFd
<1>1. IInv => RegisteredOwnsFd
  BY DEF IInv
<1> QED BY <1>1, Invariance, PTL

\* The thread that closes the number closes the socket's own file, once.
THEOREM OwnFileClosed == Spec => []ClosesOwnFd
<1>1. IInv => ClosesOwnFd
  BY DEF IInv
<1> QED BY <1>1, Invariance, PTL

\* What made recv or send fail does not go away again, and close() reports
\* errors only once closed_ is set.
LEMMA ErrorStep ==
  ASSUME IInv, ErrorOnlyWhenBroken, [Next]_vars
  PROVE  ErrorOnlyWhenBroken'
<1> USE DEF ErrorOnlyWhenBroken, Broken
<1>1. ASSUME UNCHANGED <<outcome, peer>>, closed => closed' PROVE ErrorOnlyWhenBroken'
  BY <1>1
<1>2. ASSUME NEW t \in Threads, NEW op \in Ops, Submit(t, op) \/ Refuse(t, op)
      PROVE  ErrorOnlyWhenBroken'
  BY <1>2, <1>1 DEF Submit, Refuse, fdVars, opVars, peerVars
<1>3. ASSUME NEW t \in Threads, Push(t) \/ Cancel(t) PROVE ErrorOnlyWhenBroken'
  BY <1>3, <1>1 DEF Push, Cancel, fdVars, opVars, peerVars
<1>4. ASSUME NEW t \in Threads,
             CloseBegin(t) \/ ReadRuntime(t) \/ Deregister(t) \/ CloseFd(t) \/ DrainNext(t)
               \/ DrainCall(t) \/ DrainReturn(t)
      PROVE  ErrorOnlyWhenBroken'
  BY <1>4, <1>1 DEF CloseBegin, ExchangeClosed, ReadRuntime, Deregister, CloseFd, DrainNext,
                    DrainCall, DrainReturn, fdVars, opVars, peerVars
<1>5. ASSUME NEW t \in Threads, DrainTake(t) PROVE ErrorOnlyWhenBroken'
  <2>1. closed /\ closed' = closed
    BY <1>5 DEF DrainTake, DrainTurn, Closing, IInv, CloseInv, fdVars
  <2> QED BY <2>1
<1>6. ASSUME NEW d \in Dirs, DoBegin(d) PROVE ErrorOnlyWhenBroken'
  BY <1>6, <1>1 DEF DoBegin, fdVars, opVars, peerVars
<1>7. CASE ExecMove
  <2>1. /\ UNCHANGED <<closed, peer>>
        /\ \/ outcome' = [outcome EXCEPT ![cur[Loop]] = "ok"]
           \/ outcome' = outcome
    BY <1>7 DEF ExecMove, Take, fdVars, opVars
  <2> QED BY <2>1 DEF IInv, TypeOK
<1>8. CASE ExecNone
  <2> DEFINE op == cur[Loop]
  <2>1. PICK answer \in Answers(op) :
          IF Ends(answer) THEN Take(Loop, op, "error", FinishedSize(0))
                          ELSE UNCHANGED opVars
    BY <1>8 DEF ExecNone
  <2>2. UNCHANGED <<closed, peer>>
    BY <1>8 DEF ExecNone, fdVars, peerVars
  <2>3. CASE Ends(answer)
    <3>1. outcome' = [outcome EXCEPT ![op] = "error"]
      BY <2>1, <2>3 DEF Take
    <3>2. closed \/ fd = "own"
      BY DEF IInv, CloseInv
    <3>3. Broken(op)
      BY <2>3, <3>2 DEF Answers, Ends
    <3> QED BY <2>2, <3>1, <3>3 DEF IInv, TypeOK
  <2>4. CASE ~Ends(answer)
    BY <2>1, <2>2, <2>4, <1>1 DEF opVars
  <2> QED BY <2>3, <2>4
<1>9. CASE Invoke \/ CallbackReturn \/ RuntimeStop \/ ReleaseHandles
  BY <1>9, <1>1 DEF Invoke, CallbackReturn, RuntimeStop, ReleaseHandles, fdVars, opVars, peerVars
<1>10. CASE FdReuse \/ PeerSend \/ UNCHANGED vars
  BY <1>10, <1>1 DEF FdReuse, PeerSend, fdVars, opVars, peerVars, vars
<1>11. CASE PeerEnd
  <2>1. peer = "open" /\ UNCHANGED <<closed, outcome>>
    BY <1>11 DEF PeerEnd, fdVars, opVars
  <2> QED BY <2>1
<1> QED
  BY <1>2, <1>3, <1>4, <1>5, <1>6, <1>7, <1>8, <1>9, <1>10, <1>11
  DEF Next, CloseSteps, DoSteps, Terminated

\* A callback is told of an error only on a connection that is broken: closed,
\* reset, at its end, or asked to move 0 bytes.
THEOREM ErrorsAreReal == Spec => []ErrorOnlyWhenBroken
<1>1. Init => ErrorOnlyWhenBroken
  BY DEF Init, ErrorOnlyWhenBroken
<1> QED BY <1>1, ErrorStep, Invariance, PTL DEF Spec

\* Bytes move for a _some operation only as its task leaves its queue.
ReportInv ==
  \A op \in Ops : ~Until[op] =>
    /\ ReportsExactly(op)
    /\ status[op] # "taken" => moved[op] = 0

\* A _some operation has moved bytes once, when it was taken.
LEMMA ReportStep ==
  ASSUME IInv, ReportInv, [Next]_vars
  PROVE  ReportInv'
<1> USE DEF ReportInv, ReportsExactly
<1>1. ASSUME NEW t \in Threads, NEW op \in Ops, Submit(t, op) \/ Refuse(t, op)
      PROVE  ReportInv'
  BY <1>1 DEF Submit, Refuse, IInv, TypeOK
<1>2. ASSUME NEW t \in Threads, Push(t) PROVE ReportInv'
  BY <1>2 DEF Push, IInv, TypeOK, PushInv
<1>3. ASSUME NEW t \in Threads, Cancel(t) PROVE ReportInv'
  <2>1. ASSUME NEW op \in Ops, Queued(op) PROVE status[op] = "queued"
    BY <2>1, EntryFacts, ConstantsOK DEF Queued, IInv
  <2>2. /\ moved' = moved /\ given' = given
        /\ \A op \in Ops : status'[op] # status[op] =>
             status[op] = "queued" /\ status'[op] = "cancelled"
    BY <1>3, <2>1 DEF Cancel
  <2> QED BY <2>2
<1>4. ASSUME NEW t \in Threads,
             CloseBegin(t) \/ ReadRuntime(t) \/ Deregister(t) \/ CloseFd(t) \/ DrainNext(t)
      PROVE  ReportInv'
  BY <1>4 DEF CloseBegin, ReadRuntime, Deregister, CloseFd, DrainNext
<1>5. ASSUME NEW t \in Threads, DrainTake(t) PROVE ReportInv'
  <2>1. LET op == Head(queue[draining[t]]) IN
        /\ op \in Ops /\ status[op] = "queued"
        /\ given' = [given EXCEPT ![op] = 0] /\ moved' = moved
        /\ status' = [status EXCEPT ![op] = "taken"]
    BY <1>5, FrontFacts
    DEF DrainTake, DrainTurn, Take, FinishedSize, QueuedPos, IInv, TypeOK
  <2> QED BY <2>1 DEF IInv, TypeOK
<1>6. ASSUME NEW t \in Threads, DrainCall(t) \/ DrainReturn(t) PROVE ReportInv'
  BY <1>6 DEF DrainCall, DrainReturn
<1>7. ASSUME NEW d \in Dirs, DoBegin(d) PROVE ReportInv'
  BY <1>7 DEF DoBegin
<1>8. CASE ExecMove
  <2> DEFINE op == cur[Loop]
  <2>1. op \in Ops /\ status[op] = "queued" /\ Size[op] \in Nat
    BY <1>8, ExecFacts, ConstantsOK DEF ExecMove
  <2>2. PICK n \in 1 .. Size[op] - QueuedPos :
          /\ moved' = [moved EXCEPT ![op] = @ + n]
          /\ \/ Take(Loop, op, "ok", FinishedSize(n))
             \/ Until[op] /\ status' = status /\ given' = given
    BY <1>8 DEF ExecMove
  <2>3. CASE Until[op]
    <3>1. \A o \in Ops : o # op => /\ status'[o] = status[o] /\ given'[o] = given[o]
                                  /\ moved'[o] = moved[o]
      BY <2>1, <2>2 DEF Take, IInv, TypeOK
    <3> QED BY <3>1, <2>3
  <2>4. CASE ~Until[op]
    <3>1. n \in Nat /\ moved[op] + n = n /\ FinishedSize(n) = n
      <4>1. moved[op] = 0
        BY <2>1, <2>4
      <4> QED BY <2>1, <4>1 DEF QueuedPos, FinishedSize
    <3>2. /\ given' = [given EXCEPT ![op] = n]
          /\ moved' = [moved EXCEPT ![op] = n]
          /\ status' = [status EXCEPT ![op] = "taken"]
      BY <2>2, <2>4, <3>1 DEF Take
    <3> QED BY <2>1, <3>2 DEF IInv, TypeOK
  <2> QED BY <2>3, <2>4
<1>9. CASE ExecNone
  <2> DEFINE op == cur[Loop]
  <2>1. op \in Ops /\ status[op] = "queued" /\ moved' = moved
    BY <1>9, ExecFacts DEF ExecNone
  <2>2. CASE given' = given /\ status' = status
    BY <2>1, <2>2
  <2>3. CASE Take(Loop, op, "error", FinishedSize(0))
    <3>1. /\ given' = [given EXCEPT ![op] = 0]
          /\ status' = [status EXCEPT ![op] = "taken"]
      BY <2>3 DEF Take, FinishedSize, QueuedPos
    <3> QED BY <2>1, <3>1 DEF IInv, TypeOK
  <2> QED BY <1>9, <2>2, <2>3 DEF ExecNone
<1>10. CASE Invoke \/ CallbackReturn \/ RuntimeStop \/ ReleaseHandles
  BY <1>10 DEF Invoke, CallbackReturn, RuntimeStop, ReleaseHandles
<1>11. CASE FdReuse \/ PeerSend \/ PeerEnd \/ UNCHANGED vars
  BY <1>11 DEF FdReuse, PeerSend, PeerEnd, vars
<1> QED
  BY <1>1, <1>2, <1>3, <1>4, <1>5, <1>6, <1>7, <1>8, <1>9, <1>10, <1>11
  DEF Next, CloseSteps, DoSteps, Terminated

\* Every async_read_some and async_write_some reports exactly the bytes that were
\* moved for it, whatever else is in its queue.
THEOREM SomeFormsReportExactly == Spec => []SomeReportExactly
<1>1. Init => ReportInv
  BY DEF Init, ReportInv, ReportsExactly
<1>2. IInv /\ ReportInv /\ [Next]_vars => ReportInv'
  BY ReportStep
<1>3. ReportInv => SomeReportExactly
  BY DEF ReportInv, SomeReportExactly
<1> QED BY <1>1, <1>2, <1>3, Invariance, PTL DEF Spec

=============================================================================
