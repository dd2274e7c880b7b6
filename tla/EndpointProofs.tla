--------------------------- MODULE EndpointProofs ---------------------------
(***************************************************************************)
(* Safety of an endpoint for any number of callers and workers, however    *)
(* many of them call run() and stop(): what tcp_connect hands to a runtime *)
(* is served, a stop() that returns has ended every runtime, and a run()   *)
(* starts all of them or none.                                             *)
(***************************************************************************)
EXTENDS Endpoint, TLAPS

\* A runtime that has been started, and one that has ended or never was.
Up(w) == wrunning[w] /\ thread[w] \in {"started", "looping", "inCallback", "leaving"}
Asleep(w) == ~wrunning[w] /\ Joined(w)

\* mtx_ is held from the first worker of run() or stop() to the end.
MtxInv ==
  \A c \in Callers :
    pc[c] \in {"runWorker", "spawn", "partial", "stopWorker", "join", "stopped"}
      <=> mtx = c

\* Only the thread that stop() joins can be on its way out of exec().
JoinInv ==
  \A w \in Workers :
    \/ thread[w] \in {"leaving", "finished"}
    \/ thread[w] \in {"looping", "inCallback"} /\ wstopped[w]
    => \E c \in Callers : pc[c] = "join" /\ at[c] = w

\* When mtx_ is free either all runtimes are up or all are asleep.
UniformInv ==
  mtx = None => (\A w \in Workers : Up(w)) \/ (\A w \in Workers : Asleep(w))

\* How far run() or stop() has come.
Stage(c) ==
  /\ pc[c] = "runWorker" =>
       /\ \A w \in Workers : w < at[c] => Up(w)
       /\ \/ at[c] = 1 /\ \A w \in Workers : Up(w)
          \/ \A w \in Workers : w >= at[c] => Asleep(w)
  /\ pc[c] = "spawn" =>
       /\ \A w \in Workers : w < at[c] => Up(w)
       /\ wrunning[at[c]] /\ Joined(at[c])
       /\ \A w \in Workers : w > at[c] => Asleep(w)
  /\ pc[c] = "partial" => at[c] = 1 /\ \A w \in Workers : Up(w)
  /\ pc[c] = "stopWorker" =>
       /\ \A w \in Workers : w < at[c] => Asleep(w)
       /\ (\A w \in Workers : w >= at[c] => Up(w)) \/ (\A w \in Workers : Asleep(w))
  /\ pc[c] = "join" =>
       /\ \A w \in Workers : w < at[c] => Asleep(w)
       /\ Up(at[c]) \/ (~wrunning[at[c]] /\ thread[at[c]] = "finished")
       /\ \A w \in Workers : w > at[c] => Up(w)
  /\ pc[c] = "stopped" => \A w \in Workers : Asleep(w)

CallerInv == \A c \in Callers : Stage(c)

\* An endpoint that says it is running is up, or a run() is on its way.
RunningInv ==
  running /\ settings /\ mtx = None =>
    (\A w \in Workers : Up(w)) \/ (\E c \in Callers : pc[c] = "run")

\* Without settings nothing has been started.
UnsetInv ==
  ~settings =>
    /\ \A w \in Workers : Asleep(w)
    /\ \A c \in Callers :
         pc[c] \notin {"runWorker", "spawn", "partial", "stopWorker", "join"}

\* The acceptors that are registered have a listening socket each.
ListenInv == \A w \in Workers : acceptors[w] <= listening[w]

\* A connection is with a runtime that is up, or that a run() will start.
SocketInv ==
  \A w \in Workers :
    /\ thread[w] = "leaving" => sockets[w] = 0
    /\ sockets[w] > 0 =>
         /\ settings
         /\ \/ Up(w)
            \/ \E c \in Callers : \/ pc[c] = "run"
                                  \/ pc[c] \in {"runWorker", "spawn"} /\ at[c] <= w

IInv ==
  /\ TypeOK
  /\ ListenInv
  /\ MtxInv
  /\ JoinInv
  /\ UniformInv
  /\ CallerInv
  /\ RunningInv
  /\ UnsetInv
  /\ SocketInv

-----------------------------------------------------------------------------
USE DEF callerVars, workerVars, handleVars

\* A remainder is less than the divisor.
LEMMA Remainder ==
  ASSUME NEW a \in Nat, NEW b \in Nat \ {0} PROVE a % b \in 0 .. b - 1
  OBVIOUS

\* The next worker in turn is one of them.
LEMMA TurnFacts ==
  ASSUME TypeOK
  PROVE  /\ N \in Nat \ {0} /\ chosen + 1 \in Workers
         /\ Following \in 0 .. N - 1
<1>1. N \in Nat \ {0} /\ chosen \in 0 .. N - 1
  BY EndpointConstantsOK DEF TypeOK
<1>2. chosen + 1 \in Nat /\ chosen + 1 \in Workers
  BY <1>1 DEF Workers
<1>. QED
  BY <1>1, <1>2, Remainder DEF Following

\* The workers before, at and after the k-th.
Ordered(k) ==
  /\ k >= k /\ k <= k /\ ~(k < k) /\ ~(k > k)
  /\ \A w \in Workers :
       /\ w < k \/ w = k \/ w > k
       /\ ~(w < k /\ w = k) /\ ~(w < k /\ w > k)
       /\ w >= k <=> (w = k \/ w > k)
       /\ w < k + 1 <=> (w = k \/ w < k)
       /\ w >= k + 1 <=> w > k
       /\ k + 1 <= w <=> w > k

\* A loop over the workers that has not reached the last one goes on to one.
LEMMA OnwardFacts ==
  ASSUME TypeOK, NEW c \in Callers
  PROVE  /\ N \in Nat \ {0} /\ at[c] \in Workers
         /\ Ordered(at[c])
         /\ at[c] # N => at[c] + 1 \in Workers
         /\ at[c] = N => \A w \in Workers : w < at[c] \/ w = at[c]
<1>1. N \in Nat \ {0} /\ at[c] \in Workers
  BY EndpointConstantsOK DEF TypeOK
<1>2. Ordered(at[c])
  BY <1>1 DEF Workers, Ordered
<1>. QED
  BY <1>1, <1>2 DEF Workers

\* Initially nothing runs.
LEMMA InitIInv == Init => IInv
<1>. SUFFICES ASSUME Init PROVE IInv
  OBVIOUS
<1>. USE DEF Init
<1>1. 1 \in Workers /\ 0 \in 0 .. N - 1 /\ None \notin Callers
  BY EndpointConstantsOK DEF Workers
<1>2. TypeOK
  BY <1>1 DEF TypeOK
<1>3. MtxInv
  BY <1>1 DEF MtxInv
<1>6. CallerInv
  BY DEF CallerInv, Stage
<1>7. JoinInv
  BY DEF JoinInv
<1>4. UniformInv /\ UnsetInv /\ RunningInv
  BY DEF UniformInv, UnsetInv, RunningInv, Asleep, Joined
<1>5. ListenInv /\ SocketInv
  BY DEF ListenInv, SocketInv
<1>. QED
  BY <1>2, <1>3, <1>4, <1>5, <1>6, <1>7 DEF IInv

\* Every variable keeps its type.
LEMMA TypeStep == ASSUME TypeOK, ListenInv, [Next]_vars PROVE TypeOK' /\ ListenInv'
<1>. USE DEF TypeOK, ListenInv
<1>0. N \in Nat \ {0} /\ 1 \in Workers
  BY EndpointConstantsOK DEF Workers
<1>1. ASSUME NEW c \in Callers, WithSettings(c) PROVE TypeOK' /\ ListenInv'
  BY <1>0, <1>1 DEF WithSettings, Idle
<1>2. ASSUME NEW c \in Callers, Listen(c) PROVE TypeOK' /\ ListenInv'
  BY <1>0, <1>2 DEF Listen, Idle
<1>3. ASSUME NEW c \in Callers, Connect(c) PROVE TypeOK' /\ ListenInv'
  BY <1>0, <1>3, TurnFacts DEF Connect, Idle, ConnectNext
<1>4. ASSUME NEW c \in Callers, RunBegin(c) PROVE TypeOK' /\ ListenInv'
  BY <1>0, <1>4 DEF RunBegin, Goto
<1>5. ASSUME NEW c \in Callers, StopBegin(c) PROVE TypeOK' /\ ListenInv'
  BY <1>0, <1>5 DEF StopBegin, Idle, Goto
<1>6. ASSUME NEW c \in Callers, RunLock(c) PROVE TypeOK' /\ ListenInv'
  BY <1>0, <1>6 DEF RunLock, Goto
<1>7. ASSUME NEW c \in Callers, RunUnset(c) PROVE TypeOK' /\ ListenInv'
  BY <1>0, <1>7 DEF RunUnset, Goto
<1>8. ASSUME NEW c \in Callers, RunWorker(c) PROVE TypeOK' /\ ListenInv'
  BY <1>0, <1>8 DEF RunWorker, Goto
<1>9. ASSUME NEW c \in Callers, RunWorkerFails(c) PROVE TypeOK' /\ ListenInv'
  BY <1>0, <1>9 DEF RunWorkerFails, Goto
<1>10. ASSUME NEW c \in Callers, RunPartial(c) PROVE TypeOK' /\ ListenInv'
  BY <1>0, <1>10 DEF RunPartial, Goto
<1>11. ASSUME NEW c \in Callers, Spawn(c) PROVE TypeOK' /\ ListenInv'
  BY <1>0, <1>11, OnwardFacts DEF Spawn, Goto
<1>12. ASSUME NEW c \in Callers, StopWorker(c) PROVE TypeOK' /\ ListenInv'
  BY <1>0, <1>12 DEF StopWorker, Goto, AsksToStop
<1>13. ASSUME NEW c \in Callers, StopSkip(c) PROVE TypeOK' /\ ListenInv'
  BY <1>0, <1>13, OnwardFacts DEF StopSkip, NextToStop, Goto
<1>14. ASSUME NEW c \in Callers, StopJoin(c) PROVE TypeOK' /\ ListenInv'
  BY <1>0, <1>14, OnwardFacts DEF StopJoin, Join, NextToStop, Goto
<1>15. ASSUME NEW c \in Callers, StopEnd(c) PROVE TypeOK' /\ ListenInv'
  BY <1>0, <1>15 DEF StopEnd, Goto
<1>16. ASSUME NEW w \in Workers, ExecStart(w) PROVE TypeOK' /\ ListenInv'
  BY <1>16 DEF ExecStart
<1>17. ASSUME NEW w \in Workers, Accept(w) PROVE TypeOK' /\ ListenInv'
  BY <1>17 DEF Accept
<1>18. ASSUME NEW w \in Workers, CloseAcceptor(w) PROVE TypeOK' /\ ListenInv'
  BY <1>18 DEF CloseAcceptor
<1>19. ASSUME NEW w \in Workers, ExecCallback(w) PROVE TypeOK' /\ ListenInv'
  BY <1>19 DEF ExecCallback
<1>20. ASSUME NEW w \in Workers, ExecReturn(w) PROVE TypeOK' /\ ListenInv'
  BY <1>20, TurnFacts DEF ExecReturn, ConnectNext
<1>21. ASSUME NEW w \in Workers, ExecLeave(w) PROVE TypeOK' /\ ListenInv'
  BY <1>21 DEF ExecLeave
<1>22. ASSUME NEW w \in Workers, ExecEnd(w) PROVE TypeOK' /\ ListenInv'
  BY <1>22 DEF ExecEnd
<1>23. ASSUME NEW w \in Workers, Deregister(w) PROVE TypeOK' /\ ListenInv'
  BY <1>23 DEF Deregister
<1>24. CASE UNCHANGED vars
  BY <1>24 DEF vars
<1>. QED
  BY <1>1, <1>2, <1>3, <1>4, <1>5, <1>6, <1>7, <1>8, <1>9, <1>10, <1>11,
     <1>12, <1>13, <1>14, <1>15, <1>16, <1>17, <1>18, <1>19, <1>20, <1>21,
     <1>22, <1>23, <1>24 DEF Next, CallerSteps, ExecSteps

\* Who holds mtx_ is alone inside run() or stop().
LEMMA HolderAlone ==
  ASSUME TypeOK, MtxInv, NEW c \in Callers, mtx = c
  PROVE  \A d \in Callers : d # c => pc[d] \in {"idle", "run"}
  BY DEF TypeOK, MtxInv

\* With mtx_ free no runtime has been asked to stop.
LEMMA FreeFacts ==
  ASSUME TypeOK, MtxInv, JoinInv, mtx = None
  PROVE  /\ \A c \in Callers : pc[c] \in {"idle", "run"}
         /\ \A w \in Workers : /\ thread[w] \notin {"leaving", "finished"}
                               /\ thread[w] \in {"looping", "inCallback"} => ~wstopped[w]
<1>1. \A c \in Callers : pc[c] \in {"idle", "run"}
  BY EndpointConstantsOK DEF TypeOK, MtxInv
<1>. QED
  BY <1>1 DEF JoinInv


\* A runtime whose thread is inside exec() is up.
LEMMA ActiveFacts ==
  ASSUME IInv, NEW w \in Workers,
         thread[w] \in {"started", "looping", "inCallback", "leaving"}
  PROVE  Up(w) /\ settings
<1>. USE DEF IInv
<1>1. ~Joined(w) /\ ~Asleep(w) /\ thread[w] # "finished"
  BY DEF Joined, Asleep
<1>2. settings
  BY <1>1 DEF UnsetInv
<1>3. CASE mtx = None
  BY <1>1, <1>2, <1>3 DEF UniformInv
<1>4. CASE mtx # None
  <2>1. PICK c \in Callers : mtx = c
    BY <1>4 DEF TypeOK
  <2>2. /\ Stage(c) /\ at[c] \in Workers /\ Ordered(at[c])
        /\ pc[c] \in {"runWorker", "spawn", "partial", "stopWorker", "join", "stopped"}
    BY <2>1, OnwardFacts DEF CallerInv, MtxInv
  <2>3. w < at[c] \/ w = at[c] \/ w > at[c]
    BY <2>2 DEF Ordered
  <2>. QED
    BY <1>1, <1>2, <2>2, <2>3 DEF Stage, Ordered
<1>. QED
  BY <1>2, <1>3, <1>4

\* Steps that leave the threads, their places and the flags alone.
LEMMA ControlFrame ==
  ASSUME IInv,
         UNCHANGED <<running, settings, mtx, pc, at, wrunning, wstopped, thread>>
  PROVE  MtxInv' /\ JoinInv' /\ UniformInv' /\ CallerInv' /\ RunningInv' /\ UnsetInv'
<1>. USE DEF IInv
<1>1. MtxInv' /\ JoinInv'
  BY DEF MtxInv, JoinInv
<1>2. \A w \in Workers : (Up(w)' <=> Up(w)) /\ (Asleep(w)' <=> Asleep(w))
  BY DEF Up, Asleep, Joined
<1>3. UniformInv' /\ RunningInv' /\ UnsetInv'
  BY <1>2 DEF UniformInv, RunningInv, UnsetInv
<1>4. CallerInv'
  BY DEF CallerInv, Stage, Up, Asleep, Joined
<1>. QED
  BY <1>1, <1>3, <1>4

\* Setting the settings: nothing runs before, and nothing does after.
LEMMA WithSettingsKeeps ==
  ASSUME IInv, NEW c \in Callers, WithSettings(c)
  PROVE  MtxInv' /\ JoinInv' /\ UniformInv' /\ CallerInv' /\ RunningInv' /\ UnsetInv'
         /\ SocketInv'
<1>. USE EndpointConstantsOK DEF IInv, WithSettings, Idle
<1>1. MtxInv'
  BY DEF TypeOK, MtxInv, Up, Asleep, Joined
<1>2. JoinInv'
  BY DEF TypeOK, JoinInv, MtxInv, Up, Asleep, Joined
<1>3. UniformInv'
  BY DEF TypeOK, UniformInv, MtxInv, CallerInv, Stage, Up, Asleep, Joined
<1>4. CallerInv'
  BY DEF TypeOK, CallerInv, Stage, MtxInv, UniformInv, Up, Asleep, Joined
<1>5. RunningInv'
  BY DEF TypeOK, RunningInv, MtxInv, UniformInv, CallerInv, Stage, Up, Asleep, Joined
<1>6. UnsetInv'
  BY DEF TypeOK, UnsetInv, UniformInv, CallerInv, Stage, Up, Asleep, Joined
<1>7. SocketInv'
  BY DEF TypeOK, SocketInv, CallerInv, Stage, Up, Asleep, Joined
<1>. QED
  BY <1>1, <1>2, <1>3, <1>4, <1>5, <1>6, <1>7

\* A listen call touches the acceptors only.
LEMMA ListenKeeps ==
  ASSUME IInv, NEW c \in Callers, Listen(c)
  PROVE  MtxInv' /\ JoinInv' /\ UniformInv' /\ CallerInv' /\ RunningInv' /\ UnsetInv'
         /\ SocketInv'
<1>. USE EndpointConstantsOK DEF IInv, Listen, Idle
<1>1. SocketInv'
  BY DEF TypeOK, SocketInv, CallerInv, Stage, Up, Asleep, Joined
<1>. QED
  BY <1>1, ControlFrame

\* A connection is handed out while the endpoint is running, so the runtime that
\* gets it is up, or a run() waits for mtx_ to start it.
LEMMA ConnectKeeps ==
  ASSUME IInv, NEW c \in Callers, Connect(c)
  PROVE  MtxInv' /\ JoinInv' /\ UniformInv' /\ CallerInv' /\ RunningInv' /\ UnsetInv'
         /\ SocketInv'
<1>. USE EndpointConstantsOK DEF IInv, Connect, Idle, ConnectNext
<1>1. SocketInv'
  <2>1. /\ \A v \in Workers : thread[v] # "leaving"
        /\ chosen + 1 \in Workers
    BY FreeFacts, TurnFacts
  <2>2. MayConnect => (\A v \in Workers : Up(v)) \/ (\E d \in Callers : pc[d] = "run")
    BY DEF MayConnect, RunningInv
  <2>3. \A v \in Workers : Up(v)' <=> Up(v)
    BY DEF TypeOK, Up
  <2>4. /\ pc' = pc /\ at' = at /\ settings' = settings
        /\ \A v \in Workers : thread'[v] # "leaving"
        /\ \/ sockets' = sockets
           \/ MayConnect /\ \A v \in Workers : v # chosen + 1 => sockets'[v] = sockets[v]
    BY <2>1 DEF TypeOK
  <2>5. CASE sockets' = sockets
    <3>. HIDE DEF Connect, ConnectNext, Idle
    <3>. QED
      BY <2>3, <2>4, <2>5 DEF SocketInv
  <2>6. CASE MayConnect /\ \A v \in Workers : v # chosen + 1 => sockets'[v] = sockets[v]
    <3>. HIDE DEF Connect, ConnectNext, Idle
    <3>. QED
      BY <2>2, <2>3, <2>4, <2>6 DEF SocketInv, MayConnect
  <2>. QED
    BY <2>4, <2>5, <2>6
<1>. QED
  BY <1>1, ControlFrame

\* run() announces itself before it has mtx_: whoever holds mtx_ is not disturbed.
LEMMA RunBeginKeeps ==
  ASSUME IInv, NEW c \in Callers, RunBegin(c)
  PROVE  MtxInv' /\ JoinInv' /\ UniformInv' /\ CallerInv' /\ RunningInv' /\ UnsetInv'
         /\ SocketInv'
<1>. USE EndpointConstantsOK DEF IInv, RunBegin, Goto
<1>1. MtxInv'
  BY DEF TypeOK, MtxInv, Up, Asleep, Joined
<1>2. JoinInv'
  BY DEF TypeOK, JoinInv, MtxInv, Up, Asleep, Joined
<1>3. UniformInv'
  BY DEF TypeOK, UniformInv, MtxInv, CallerInv, Stage, Up, Asleep, Joined
<1>4. CallerInv'
  BY DEF TypeOK, CallerInv, Stage, MtxInv, UniformInv, Up, Asleep, Joined
<1>5. RunningInv'
  BY DEF TypeOK, RunningInv, MtxInv, UniformInv, CallerInv, Stage, Up, Asleep, Joined
<1>6. UnsetInv'
  BY DEF TypeOK, UnsetInv, UniformInv, CallerInv, Stage, Up, Asleep, Joined
<1>7. SocketInv'
  BY DEF TypeOK, SocketInv, CallerInv, Stage, Up, Asleep, Joined
<1>. QED
  BY <1>1, <1>2, <1>3, <1>4, <1>5, <1>6, <1>7

\* stop() finds the runtimes all up or all asleep.
LEMMA StopBeginKeeps ==
  ASSUME IInv, NEW c \in Callers, StopBegin(c)
  PROVE  MtxInv' /\ JoinInv' /\ UniformInv' /\ CallerInv' /\ RunningInv' /\ UnsetInv'
         /\ SocketInv'
<1>. USE EndpointConstantsOK DEF IInv, StopBegin, Idle, Goto
<1>0. /\ \A d \in Callers : pc[d] \in {"idle", "run"}
      /\ 1 \in Workers /\ \A w \in Workers : w >= 1 /\ ~(w < 1)
      /\ (\A w \in Workers : Up(w)) \/ (\A w \in Workers : Asleep(w))
  BY FreeFacts DEF UniformInv, Workers
<1>1. MtxInv'
  BY DEF TypeOK, MtxInv, Up, Asleep, Joined
<1>2. JoinInv'
  BY DEF TypeOK, JoinInv, MtxInv, Up, Asleep, Joined
<1>3. UniformInv'
  BY DEF TypeOK, UniformInv, MtxInv, CallerInv, Stage, Up, Asleep, Joined
<1>4. CallerInv'
  <2>1. \A d \in Callers : d # c => pc'[d] \in {"idle", "run"}
    BY <1>0 DEF TypeOK
  <2>5. Stage(c)'
    BY <1>0 DEF TypeOK, Stage, Ordered, Up, Asleep, Joined, UnsetInv
  <2>. QED
    BY <2>1, <2>5 DEF CallerInv, Stage, Ordered
<1>5. RunningInv'
  BY DEF TypeOK, RunningInv, MtxInv, UniformInv, CallerInv, Stage, Up, Asleep, Joined
<1>6. UnsetInv'
  BY DEF TypeOK, UnsetInv, UniformInv, CallerInv, Stage, Up, Asleep, Joined
<1>7. SocketInv'
  BY DEF TypeOK, SocketInv, CallerInv, Stage, Up, Asleep, Joined
<1>. QED
  BY <1>1, <1>2, <1>3, <1>4, <1>5, <1>6, <1>7

\* So does run(); the connections handed out since it announced itself are now
\* ahead of its loop.
LEMMA RunLockKeeps ==
  ASSUME IInv, NEW c \in Callers, RunLock(c)
  PROVE  MtxInv' /\ JoinInv' /\ UniformInv' /\ CallerInv' /\ RunningInv' /\ UnsetInv'
         /\ SocketInv'
<1>. USE EndpointConstantsOK DEF IInv, RunLock, Goto
<1>0. /\ \A d \in Callers : pc[d] \in {"idle", "run"}
      /\ 1 \in Workers /\ \A w \in Workers : w >= 1 /\ ~(w < 1)
      /\ (\A w \in Workers : Up(w)) \/ (\A w \in Workers : Asleep(w))
  BY FreeFacts DEF UniformInv, Workers
<1>1. MtxInv'
  BY DEF TypeOK, MtxInv, Up, Asleep, Joined
<1>2. JoinInv'
  BY DEF TypeOK, JoinInv, MtxInv, Up, Asleep, Joined
<1>3. UniformInv'
  BY DEF TypeOK, UniformInv, MtxInv, CallerInv, Stage, Up, Asleep, Joined
<1>4. CallerInv'
  <2>1. \A d \in Callers : d # c => pc'[d] \in {"idle", "run"}
    BY <1>0 DEF TypeOK
  <2>5. Stage(c)'
    BY <1>0 DEF TypeOK, Stage, Ordered, Up, Asleep, Joined
  <2>. QED
    BY <2>1, <2>5 DEF CallerInv, Stage, Ordered
<1>5. RunningInv'
  BY DEF TypeOK, RunningInv, MtxInv, UniformInv, CallerInv, Stage, Up, Asleep, Joined
<1>6. UnsetInv'
  BY DEF TypeOK, UnsetInv, UniformInv, CallerInv, Stage, Up, Asleep, Joined
<1>7. SocketInv'
  <2>1. \A d \in Callers : d # c => pc'[d] = pc[d]
    BY DEF TypeOK
  <2>2. pc'[c] = "runWorker" /\ at'[c] = 1 /\ \A w \in Workers : 1 <= w
    BY <1>0 DEF TypeOK
  <2>3. \A w \in Workers : Up(w)' <=> Up(w)
    BY DEF Up
  <2>4. sockets' = sockets /\ settings' = settings /\ thread' = thread
    OBVIOUS
  <2>. HIDE DEF RunLock
  <2>5. ASSUME NEW w \in Workers, sockets[w] > 0
        PROVE  Up(w)' \/ \E d \in Callers : \/ pc'[d] = "run"
                                            \/ pc'[d] \in {"runWorker", "spawn"} /\ at'[d] <= w
    <3>1. CASE Up(w)
      BY <2>3, <3>1
    <3>2. CASE ~Up(w)
      <4>1. PICK d \in Callers : pc[d] = "run"
        BY <1>0, <2>5, <3>2 DEF SocketInv
      <4>2. CASE d = c
        BY <2>2, <4>2
      <4>3. CASE d # c
        BY <2>1, <4>1, <4>3
      <4>. QED
        BY <4>2, <4>3
    <3>. QED
      BY <3>1, <3>2
  <2>. QED
    BY <2>4, <2>5 DEF SocketInv
<1>. QED
  BY <1>1, <1>2, <1>3, <1>4, <1>5, <1>6, <1>7

\* run() without settings leaves running_ set, with no connection to serve.
LEMMA RunUnsetKeeps ==
  ASSUME IInv, NEW c \in Callers, RunUnset(c)
  PROVE  MtxInv' /\ JoinInv' /\ UniformInv' /\ CallerInv' /\ RunningInv' /\ UnsetInv'
         /\ SocketInv'
<1>. USE EndpointConstantsOK DEF IInv, RunUnset, Goto
<1>1. MtxInv'
  BY DEF TypeOK, MtxInv, Up, Asleep, Joined
<1>2. JoinInv'
  BY DEF TypeOK, JoinInv, MtxInv, Up, Asleep, Joined
<1>3. UniformInv'
  BY DEF TypeOK, UniformInv, MtxInv, CallerInv, Stage, Up, Asleep, Joined
<1>4. CallerInv'
  BY DEF TypeOK, CallerInv, Stage, MtxInv, UniformInv, Up, Asleep, Joined
<1>5. RunningInv'
  BY DEF TypeOK, RunningInv, MtxInv, UniformInv, CallerInv, Stage, Up, Asleep, Joined
<1>6. UnsetInv'
  BY DEF TypeOK, UnsetInv, UniformInv, CallerInv, Stage, Up, Asleep, Joined
<1>7. SocketInv'
  BY DEF TypeOK, SocketInv, CallerInv, Stage, Up, Asleep, Joined
<1>. QED
  BY <1>1, <1>2, <1>3, <1>4, <1>5, <1>6, <1>7

\* The workers before the loop are up, those after it asleep.
LEMMA RunWorkerKeeps ==
  ASSUME IInv, NEW c \in Callers, RunWorker(c)
  PROVE  MtxInv' /\ JoinInv' /\ UniformInv' /\ CallerInv' /\ RunningInv' /\ UnsetInv'
         /\ SocketInv'
<1>. USE EndpointConstantsOK DEF IInv, RunWorker, Goto
<1>0. mtx = c /\ at[c] \in Workers /\ N \in Nat \ {0} /\ Ordered(at[c])
      /\ Stage(c) /\ \A d \in Callers : d # c => pc[d] \in {"idle", "run"}
  BY HolderAlone, OnwardFacts DEF MtxInv, CallerInv
<1>1. MtxInv'
  BY DEF TypeOK, MtxInv, Up, Asleep, Joined
<1>2. JoinInv'
  BY DEF TypeOK, JoinInv, MtxInv, Up, Asleep, Joined
<1>3. UniformInv'
  BY DEF TypeOK, UniformInv, MtxInv, CallerInv, Stage, Up, Asleep, Joined
<1>4. CallerInv'
  <2>1. \A d \in Callers : d # c => pc'[d] \in {"idle", "run"}
    BY <1>0 DEF TypeOK
  <2>2. /\ \A w \in Workers : w < at[c] => Up(w)
        /\ \A w \in Workers : w >= at[c] => Asleep(w)
    BY <1>0 DEF Stage, Ordered, Up
  <2>3. \A w \in Workers : w # at[c] => (Up(w)' <=> Up(w)) /\ (Asleep(w)' <=> Asleep(w))
    BY DEF TypeOK, Up, Asleep, Joined
  <2>4. /\ pc'[c] = "spawn" /\ at' = at
        /\ wrunning'[at[c]] /\ Joined(at[c])'
    BY <1>0, <2>2 DEF TypeOK, Ordered, Asleep, Joined
  <2>5. Stage(c)'
    BY <1>0, <2>2, <2>3, <2>4 DEF Stage, Ordered
  <2>. QED
    BY <2>1, <2>5 DEF CallerInv, Stage, Ordered
<1>5. RunningInv'
  BY DEF TypeOK, RunningInv, MtxInv, UniformInv, CallerInv, Stage, Up, Asleep, Joined
<1>6. UnsetInv'
  BY DEF TypeOK, UnsetInv, UniformInv, CallerInv, Stage, Up, Asleep, Joined
<1>7. SocketInv'
  BY DEF TypeOK, SocketInv, CallerInv, Stage, Up, Asleep, Joined
<1>. QED
  BY <1>1, <1>2, <1>3, <1>4, <1>5, <1>6, <1>7

\* A runtime that is still running shows that all are up: a second run().
LEMMA RunWorkerFailsKeeps ==
  ASSUME IInv, NEW c \in Callers, RunWorkerFails(c)
  PROVE  MtxInv' /\ JoinInv' /\ UniformInv' /\ CallerInv' /\ RunningInv' /\ UnsetInv'
         /\ SocketInv'
<1>. USE EndpointConstantsOK DEF IInv, RunWorkerFails, Goto
<1>0. mtx = c /\ at[c] \in Workers /\ N \in Nat \ {0} /\ Ordered(at[c])
      /\ Stage(c) /\ \A d \in Callers : d # c => pc[d] \in {"idle", "run"}
  BY HolderAlone, OnwardFacts DEF MtxInv, CallerInv
<1>1. MtxInv'
  BY DEF TypeOK, MtxInv, Up, Asleep, Joined
<1>2. JoinInv'
  BY DEF TypeOK, JoinInv, MtxInv, Up, Asleep, Joined
<1>3. UniformInv'
  BY DEF TypeOK, UniformInv, MtxInv, CallerInv, Stage, Up, Asleep, Joined
<1>4. CallerInv'
  <2>1. \A d \in Callers : d # c => pc'[d] \in {"idle", "run"}
    BY <1>0 DEF TypeOK
  <2>2. at[c] = 1 /\ at' = at /\ \A w \in Workers : Up(w)
    BY <1>0 DEF Stage, Ordered, Asleep
  <2>3. \A w \in Workers : (Up(w)' <=> Up(w)) /\ (Asleep(w)' <=> Asleep(w))
    BY DEF Up, Asleep, Joined
  <2>4. pc'[c] = "partial"
    BY DEF TypeOK
  <2>5. Stage(c)'
    BY <2>2, <2>3, <2>4 DEF Stage, Ordered
  <2>. QED
    BY <2>1, <2>5 DEF CallerInv, Stage, Ordered
<1>5. RunningInv'
  BY DEF TypeOK, RunningInv, MtxInv, UniformInv, CallerInv, Stage, Up, Asleep, Joined
<1>6. UnsetInv'
  BY DEF TypeOK, UnsetInv, UniformInv, CallerInv, Stage, Up, Asleep, Joined
<1>7. SocketInv'
  <2>2. \A w \in Workers : Up(w) /\ Up(w)'
    BY <1>0 DEF Stage, Ordered, Asleep, Up
  <2>. QED
    BY <2>2 DEF SocketInv
<1>. QED
  BY <1>1, <1>2, <1>3, <1>4, <1>5, <1>6, <1>7

\* The second run() gives mtx_ back with all runtimes up.
LEMMA RunPartialKeeps ==
  ASSUME IInv, NEW c \in Callers, RunPartial(c)
  PROVE  MtxInv' /\ JoinInv' /\ UniformInv' /\ CallerInv' /\ RunningInv' /\ UnsetInv'
         /\ SocketInv'
<1>. USE EndpointConstantsOK DEF IInv, RunPartial, Goto
<1>1. MtxInv'
  BY DEF TypeOK, MtxInv, Up, Asleep, Joined
<1>2. JoinInv'
  BY DEF TypeOK, JoinInv, MtxInv, Up, Asleep, Joined
<1>3. UniformInv'
  BY DEF TypeOK, UniformInv, MtxInv, CallerInv, Stage, Up, Asleep, Joined
<1>4. CallerInv'
  BY DEF TypeOK, CallerInv, Stage, MtxInv, UniformInv, Up, Asleep, Joined
<1>5. RunningInv'
  BY DEF TypeOK, RunningInv, MtxInv, UniformInv, CallerInv, Stage, Up, Asleep, Joined
<1>6. UnsetInv'
  BY DEF TypeOK, UnsetInv, UniformInv, CallerInv, Stage, Up, Asleep, Joined
<1>7. SocketInv'
  BY DEF TypeOK, SocketInv, CallerInv, Stage, Up, Asleep, Joined
<1>. QED
  BY <1>1, <1>2, <1>3, <1>4, <1>5, <1>6, <1>7

\* The loop leaves one more worker up behind it, and after the last one all.
LEMMA SpawnKeeps ==
  ASSUME IInv, NEW c \in Callers, Spawn(c)
  PROVE  MtxInv' /\ JoinInv' /\ UniformInv' /\ CallerInv' /\ RunningInv' /\ UnsetInv'
         /\ SocketInv'
<1>. USE EndpointConstantsOK DEF IInv, Spawn, Goto
<1>0. mtx = c /\ at[c] \in Workers /\ N \in Nat \ {0} /\ Ordered(at[c])
      /\ Stage(c) /\ \A d \in Callers : d # c => pc[d] \in {"idle", "run"}
  BY HolderAlone, OnwardFacts DEF MtxInv, CallerInv
<1>8. at[c] # N => at[c] + 1 \in Workers
  BY OnwardFacts
<1>9. at[c] = N => \A w \in Workers : w < at[c] \/ w = at[c]
  BY OnwardFacts
<1>10. /\ \A w \in Workers : w < at[c] => Up(w)'
       /\ \A w \in Workers : w = at[c] => Up(w)'
       /\ \A w \in Workers : w > at[c] => Asleep(w)'
  <2>1. /\ \A w \in Workers : w < at[c] => Up(w)
        /\ wrunning[at[c]]
        /\ \A w \in Workers : w > at[c] => Asleep(w)
    BY <1>0 DEF Stage, Ordered
  <2>2. thread'[at[c]] = "started" /\ wrunning' = wrunning
    BY <1>0 DEF TypeOK
  <2>3. \A w \in Workers : w # at[c] => (Up(w)' <=> Up(w)) /\ (Asleep(w)' <=> Asleep(w))
    BY DEF TypeOK, Up, Asleep, Joined
  <2>. QED
    BY <1>0, <2>1, <2>2, <2>3 DEF Up, Ordered
<1>11. /\ at[c] = N => mtx' = None /\ pc'[c] = "idle" /\ \A w \in Workers : Up(w)'
       /\ at[c] # N => mtx' = c /\ pc'[c] = "runWorker" /\ at'[c] = at[c] + 1
  BY <1>0, <1>9, <1>10 DEF TypeOK
<1>1. MtxInv'
  BY DEF TypeOK, MtxInv, Up, Asleep, Joined
<1>2. JoinInv'
  BY DEF TypeOK, JoinInv, MtxInv, Up, Asleep, Joined
<1>3. UniformInv'
  BY <1>0, <1>11, EndpointConstantsOK DEF UniformInv
<1>4. CallerInv'
  <2>1. \A d \in Callers : d # c => pc'[d] \in {"idle", "run"}
    BY <1>0 DEF TypeOK
  <2>5. Stage(c)'
    <3>1. CASE at[c] = N
      BY <1>11, <3>1 DEF Stage, Ordered
    <3>2. CASE at[c] # N
      <4>1. \A w \in Workers : /\ w < at[c] + 1 => w < at[c] \/ w = at[c]
                               /\ w >= at[c] + 1 => w > at[c]
        BY <1>0 DEF Ordered
      <4>2. /\ \A w \in Workers : w < at'[c] => Up(w)'
            /\ \A w \in Workers : w >= at'[c] => Asleep(w)'
        BY <1>10, <1>11, <3>2, <4>1 DEF Up, Asleep, Joined
      <4>. HIDE DEF Spawn
      <4>. QED
        BY <1>11, <3>2, <4>2 DEF Stage
    <3>. QED
      BY <3>1, <3>2
  <2>. QED
    BY <2>1, <2>5 DEF CallerInv, Stage, Ordered
<1>5. RunningInv'
  BY <1>0, <1>11, EndpointConstantsOK DEF RunningInv
<1>6. UnsetInv'
  BY DEF TypeOK, UnsetInv, UniformInv, CallerInv, Stage, Up, Asleep, Joined
<1>7. SocketInv'
  <2>1. \A d \in Callers : d # c => pc'[d] = pc[d]
    BY DEF TypeOK
  <2>2. ASSUME NEW w \in Workers, sockets[w] > 0
        PROVE  Up(w)' \/ \E d \in Callers : \/ pc'[d] = "run"
                                            \/ pc'[d] \in {"runWorker", "spawn"} /\ at'[d] <= w
    <3>1. CASE at[c] = N \/ w < at[c] \/ w = at[c]
      BY <1>10, <1>11, <3>1 DEF Up
    <3>2. CASE at[c] # N /\ w > at[c]
      <4>1. at[c] + 1 <= w
        BY <1>0, <3>2 DEF Ordered
      <4>. QED
        BY <1>11, <3>2, <4>1
    <3>. QED
      BY <1>0, <3>1, <3>2 DEF Ordered
  <2>3. \A w \in Workers : thread'[w] = "leaving" => thread[w] = "leaving"
    BY DEF TypeOK
  <2>4. sockets' = sockets /\ settings' = settings
    OBVIOUS
  <2>. HIDE DEF Spawn
  <2>. QED
    BY <2>2, <2>3, <2>4 DEF SocketInv
<1>. QED
  BY <1>1, <1>2, <1>3, <1>4, <1>5, <1>6, <1>7

\* A runtime that has been asked to stop is the one that will be joined.
LEMMA StopWorkerKeeps ==
  ASSUME IInv, NEW c \in Callers, StopWorker(c)
  PROVE  MtxInv' /\ JoinInv' /\ UniformInv' /\ CallerInv' /\ RunningInv' /\ UnsetInv'
         /\ SocketInv'
<1>. USE EndpointConstantsOK DEF IInv, StopWorker, Goto, AsksToStop
<1>0. mtx = c /\ at[c] \in Workers /\ N \in Nat \ {0} /\ Ordered(at[c])
      /\ Stage(c) /\ \A d \in Callers : d # c => pc[d] \in {"idle", "run"}
  BY HolderAlone, OnwardFacts DEF MtxInv, CallerInv
<1>1. MtxInv'
  BY DEF TypeOK, MtxInv, Up, Asleep, Joined
<1>2. JoinInv'
  BY DEF TypeOK, JoinInv, MtxInv, Up, Asleep, Joined
<1>3. UniformInv'
  BY DEF TypeOK, UniformInv, MtxInv, CallerInv, Stage, Up, Asleep, Joined
<1>4. CallerInv'
  <2>1. \A d \in Callers : d # c => pc'[d] \in {"idle", "run"}
    BY <1>0 DEF TypeOK
  <2>2. /\ \A w \in Workers : w < at[c] => Asleep(w)
        /\ \A w \in Workers : w >= at[c] => Up(w)
    BY <1>0 DEF Stage, Ordered, Asleep
  <2>3. \A w \in Workers : (Up(w)' <=> Up(w)) /\ (Asleep(w)' <=> Asleep(w))
    BY DEF Up, Asleep, Joined
  <2>4. pc'[c] = "join" /\ at' = at
    BY DEF TypeOK
  <2>5. Stage(c)'
    <3>. HIDE DEF StopWorker, AsksToStop, Goto
    <3>. QED
      BY <1>0, <2>2, <2>3, <2>4 DEF Stage, Ordered
  <2>. QED
    BY <2>1, <2>5 DEF CallerInv, Stage, Ordered
<1>5. RunningInv'
  BY DEF TypeOK, RunningInv, MtxInv, UniformInv, CallerInv, Stage, Up, Asleep, Joined
<1>6. UnsetInv'
  BY DEF TypeOK, UnsetInv, UniformInv, CallerInv, Stage, Up, Asleep, Joined
<1>7. SocketInv'
  BY DEF TypeOK, SocketInv, CallerInv, Stage, Up, Asleep, Joined
<1>. QED
  BY <1>1, <1>2, <1>3, <1>4, <1>5, <1>6, <1>7

\* A runtime that does not run shows that all are asleep: a second stop().
LEMMA StopSkipKeeps ==
  ASSUME IInv, NEW c \in Callers, StopSkip(c)
  PROVE  MtxInv' /\ JoinInv' /\ UniformInv' /\ CallerInv' /\ RunningInv' /\ UnsetInv'
         /\ SocketInv'
<1>. USE EndpointConstantsOK DEF IInv, StopSkip, NextToStop, Goto
<1>0. mtx = c /\ at[c] \in Workers /\ N \in Nat \ {0} /\ Ordered(at[c])
      /\ Stage(c) /\ \A d \in Callers : d # c => pc[d] \in {"idle", "run"}
  BY HolderAlone, OnwardFacts DEF MtxInv, CallerInv
<1>8. \A w \in Workers : Asleep(w) /\ Asleep(w)'
  BY <1>0 DEF Stage, Ordered, Up, Asleep, Joined
<1>1. MtxInv'
  BY DEF TypeOK, MtxInv, Up, Asleep, Joined
<1>2. JoinInv'
  BY DEF TypeOK, JoinInv, MtxInv, Up, Asleep, Joined
<1>3. UniformInv'
  BY DEF TypeOK, UniformInv, MtxInv, CallerInv, Stage, Up, Asleep, Joined
<1>4. CallerInv'
  <2>1. \A d \in Callers : d # c => pc'[d] \in {"idle", "run"}
    BY <1>0 DEF TypeOK
  <2>2. pc'[c] \in {"stopped", "stopWorker"}
    BY DEF TypeOK
  <2>5. Stage(c)'
    BY <1>8, <2>2 DEF Stage, Ordered
  <2>. QED
    BY <2>1, <2>5 DEF CallerInv, Stage, Ordered
<1>5. RunningInv'
  BY DEF TypeOK, RunningInv, MtxInv, UniformInv, CallerInv, Stage, Up, Asleep, Joined
<1>6. UnsetInv'
  BY DEF TypeOK, UnsetInv, UniformInv, CallerInv, Stage, Up, Asleep, Joined
<1>7. SocketInv'
  BY DEF TypeOK, SocketInv, CallerInv, Stage, Up, Asleep, Joined
<1>. QED
  BY <1>1, <1>2, <1>3, <1>4, <1>5, <1>6, <1>7

\* The loop leaves one more worker asleep behind it, and after the last one all.
LEMMA StopJoinKeeps ==
  ASSUME IInv, NEW c \in Callers, StopJoin(c)
  PROVE  MtxInv' /\ JoinInv' /\ UniformInv' /\ CallerInv' /\ RunningInv' /\ UnsetInv'
         /\ SocketInv'
<1>. USE EndpointConstantsOK DEF IInv, StopJoin, Join, NextToStop, Goto
<1>0. mtx = c /\ at[c] \in Workers /\ N \in Nat \ {0} /\ Ordered(at[c])
      /\ Stage(c) /\ \A d \in Callers : d # c => pc[d] \in {"idle", "run"}
  BY HolderAlone, OnwardFacts DEF MtxInv, CallerInv
<1>8. /\ at[c] # N => at[c] + 1 \in Workers
      /\ at[c] = N => \A w \in Workers : w < at[c] \/ w = at[c]
  BY OnwardFacts
<1>9. thread[at[c]] = "finished" /\ ~wrunning[at[c]]
  BY <1>0 DEF Stage, Ordered, Up, Ended, Joined
<1>10. \A w \in Workers : w # at[c] => thread'[w] = thread[w]
  BY DEF TypeOK
<1>11. thread'[at[c]] = "joined" /\ wrunning' = wrunning /\ wstopped' = wstopped
  BY <1>0, <1>9 DEF TypeOK
<1>1. MtxInv'
  BY DEF TypeOK, MtxInv, Up, Asleep, Joined
<1>2. JoinInv'
  <2>1. ASSUME NEW w \in Workers
        PROVE  /\ thread'[w] \notin {"leaving", "finished"}
               /\ thread'[w] \in {"looping", "inCallback"} => ~wstopped'[w]
    <3>1. CASE w = at[c]
      BY <3>1, <1>11
    <3>2. CASE w # at[c]
      <4>1. ~ \E d \in Callers : pc[d] = "join" /\ at[d] = w
        BY <1>0, <3>2
      <4>. QED
        BY <1>10, <1>11, <3>2, <4>1 DEF JoinInv
    <3>. QED
      BY <3>1, <3>2
  <2>. QED
    BY <2>1 DEF JoinInv
<1>3. UniformInv'
  BY DEF TypeOK, UniformInv, MtxInv, CallerInv, Stage, Up, Asleep, Joined
<1>4. CallerInv'
  <2>1. \A d \in Callers : d # c => pc'[d] \in {"idle", "run"}
    BY <1>0 DEF TypeOK
  <2>2. /\ \A w \in Workers : w < at[c] => Asleep(w)'
        /\ \A w \in Workers : w = at[c] => Asleep(w)'
        /\ \A w \in Workers : w > at[c] => Up(w)'
    <3>1. /\ pc[c] = "join"
          /\ \A w \in Workers : w < at[c] => Asleep(w) /\ w # at[c]
          /\ \A w \in Workers : w > at[c] => Up(w) /\ w # at[c]
      BY <1>0 DEF Stage, Ordered
    <3>. HIDE DEF StopJoin, Join, NextToStop, Goto
    <3>. QED
      BY <1>0, <1>9, <1>10, <1>11, <3>1 DEF Up, Asleep, Joined
  <2>3. /\ at[c] = N => pc'[c] = "stopped" /\ \A w \in Workers : Asleep(w)'
        /\ at[c] # N => pc'[c] = "stopWorker" /\ at'[c] = at[c] + 1
    BY <1>0, <1>8, <2>2 DEF TypeOK
  <2>4. \A w \in Workers : /\ w < at[c] + 1 => w < at[c] \/ w = at[c]
                           /\ w >= at[c] + 1 => w > at[c]
    BY <1>0 DEF Ordered
  <2>5. Stage(c)'
    <3>1. CASE at[c] = N
      BY <2>3, <3>1 DEF Stage
    <3>2. CASE at[c] # N
      <4>1. /\ \A w \in Workers : w < at'[c] => Asleep(w)'
            /\ \A w \in Workers : w >= at'[c] => Up(w)'
        BY <2>2, <2>3, <2>4, <3>2 DEF Asleep, Up, Joined
      <4>. HIDE DEF StopJoin, Join, NextToStop, Goto
      <4>. QED
        BY <2>3, <3>2, <4>1 DEF Stage
    <3>. QED
      BY <3>1, <3>2
  <2>. QED
    BY <2>1, <2>5 DEF CallerInv, Stage, Ordered
<1>5. RunningInv'
  BY DEF TypeOK, RunningInv, MtxInv, UniformInv, CallerInv, Stage, Up, Asleep, Joined
<1>6. UnsetInv'
  BY DEF TypeOK, UnsetInv, UniformInv, CallerInv, Stage, Up, Asleep, Joined
<1>7. SocketInv'
  BY DEF TypeOK, SocketInv, CallerInv, Stage, Up, Asleep, Joined
<1>. QED
  BY <1>1, <1>2, <1>3, <1>4, <1>5, <1>6, <1>7

\* stop() gives mtx_ back with all runtimes asleep.
LEMMA StopEndKeeps ==
  ASSUME IInv, NEW c \in Callers, StopEnd(c)
  PROVE  MtxInv' /\ JoinInv' /\ UniformInv' /\ CallerInv' /\ RunningInv' /\ UnsetInv'
         /\ SocketInv'
<1>. USE EndpointConstantsOK DEF IInv, StopEnd, Goto
<1>1. MtxInv'
  BY DEF TypeOK, MtxInv, Up, Asleep, Joined
<1>2. JoinInv'
  BY DEF TypeOK, JoinInv, MtxInv, Up, Asleep, Joined
<1>3. UniformInv'
  BY DEF TypeOK, UniformInv, MtxInv, CallerInv, Stage, Up, Asleep, Joined
<1>4. CallerInv'
  BY DEF TypeOK, CallerInv, Stage, MtxInv, UniformInv, Up, Asleep, Joined
<1>5. RunningInv'
  BY DEF TypeOK, RunningInv, MtxInv, UniformInv, CallerInv, Stage, Up, Asleep, Joined
<1>6. UnsetInv'
  BY DEF TypeOK, UnsetInv, UniformInv, CallerInv, Stage, Up, Asleep, Joined
<1>7. SocketInv'
  BY DEF TypeOK, SocketInv, CallerInv, Stage, Up, Asleep, Joined
<1>. QED
  BY <1>1, <1>2, <1>3, <1>4, <1>5, <1>6, <1>7

\* exec() clears stopped_, which nobody can have set for this run yet: stop()
\* needs mtx_, and then asks and joins in turn.
LEMMA ExecStartKeeps ==
  ASSUME IInv, NEW w \in Workers, ExecStart(w)
  PROVE  MtxInv' /\ JoinInv' /\ UniformInv' /\ CallerInv' /\ RunningInv' /\ UnsetInv'
         /\ SocketInv'
<1>. USE EndpointConstantsOK DEF IInv, ExecStart
<1>1. MtxInv'
  BY DEF TypeOK, MtxInv, Up, Asleep, Joined
<1>2. JoinInv'
  BY DEF TypeOK, JoinInv, MtxInv, Up, Asleep, Joined
<1>3. UniformInv'
  BY DEF TypeOK, UniformInv, MtxInv, CallerInv, Stage, Up, Asleep, Joined
<1>4. CallerInv'
  BY DEF TypeOK, CallerInv, Stage, MtxInv, UniformInv, Up, Asleep, Joined
<1>5. RunningInv'
  BY DEF TypeOK, RunningInv, MtxInv, UniformInv, CallerInv, Stage, Up, Asleep, Joined
<1>6. UnsetInv'
  BY DEF TypeOK, UnsetInv, UniformInv, CallerInv, Stage, Up, Asleep, Joined
<1>7. SocketInv'
  BY DEF TypeOK, SocketInv, CallerInv, Stage, Up, Asleep, Joined
<1>. QED
  BY <1>1, <1>2, <1>3, <1>4, <1>5, <1>6, <1>7

\* A connection is accepted by a runtime that is up.
LEMMA AcceptKeeps ==
  ASSUME IInv, NEW w \in Workers, Accept(w)
  PROVE  MtxInv' /\ JoinInv' /\ UniformInv' /\ CallerInv' /\ RunningInv' /\ UnsetInv'
         /\ SocketInv'
<1>. USE EndpointConstantsOK DEF IInv, Accept
<1>1. SocketInv'
  <2>1. Up(w) /\ settings
    BY ActiveFacts
  <2>2. \A v \in Workers : v # w => sockets'[v] = sockets[v]
    BY DEF TypeOK
  <2>3. \A v \in Workers : Up(v)' <=> Up(v)
    BY DEF Up
  <2>. QED
    BY <2>1, <2>2, <2>3 DEF SocketInv
<1>. QED
  BY <1>1, ControlFrame

\* Closing an acceptor touches neither flags nor connections.
LEMMA CloseAcceptorKeeps ==
  ASSUME IInv, NEW w \in Workers, CloseAcceptor(w)
  PROVE  MtxInv' /\ JoinInv' /\ UniformInv' /\ CallerInv' /\ RunningInv' /\ UnsetInv'
         /\ SocketInv'
<1>. USE EndpointConstantsOK DEF IInv, CloseAcceptor
<1>1. SocketInv'
  BY DEF TypeOK, SocketInv, CallerInv, Stage, Up, Asleep, Joined
<1>. QED
  BY <1>1, ControlFrame

\* Entering a callback keeps the runtime up.
LEMMA ExecCallbackKeeps ==
  ASSUME IInv, NEW w \in Workers, ExecCallback(w)
  PROVE  MtxInv' /\ JoinInv' /\ UniformInv' /\ CallerInv' /\ RunningInv' /\ UnsetInv'
         /\ SocketInv'
<1>. USE EndpointConstantsOK DEF IInv, ExecCallback
<1>1. MtxInv'
  BY DEF TypeOK, MtxInv, Up, Asleep, Joined
<1>2. JoinInv'
  BY DEF TypeOK, JoinInv, MtxInv, Up, Asleep, Joined
<1>3. UniformInv'
  BY DEF TypeOK, UniformInv, MtxInv, CallerInv, Stage, Up, Asleep, Joined
<1>4. CallerInv'
  BY DEF TypeOK, CallerInv, Stage, MtxInv, UniformInv, Up, Asleep, Joined
<1>5. RunningInv'
  BY DEF TypeOK, RunningInv, MtxInv, UniformInv, CallerInv, Stage, Up, Asleep, Joined
<1>6. UnsetInv'
  BY DEF TypeOK, UnsetInv, UniformInv, CallerInv, Stage, Up, Asleep, Joined
<1>7. SocketInv'
  BY DEF TypeOK, SocketInv, CallerInv, Stage, Up, Asleep, Joined
<1>. QED
  BY <1>1, <1>2, <1>3, <1>4, <1>5, <1>6, <1>7

\* A callback that connects does so under the guards of tcp_connect.
LEMMA ExecReturnKeeps ==
  ASSUME IInv, NEW w \in Workers, ExecReturn(w)
  PROVE  MtxInv' /\ JoinInv' /\ UniformInv' /\ CallerInv' /\ RunningInv' /\ UnsetInv'
         /\ SocketInv'
<1>. USE EndpointConstantsOK DEF IInv, ExecReturn, ConnectNext
<1>1. MtxInv'
  BY DEF TypeOK, MtxInv, Up, Asleep, Joined
<1>2. JoinInv'
  BY DEF TypeOK, JoinInv, MtxInv, Up, Asleep, Joined
<1>3. UniformInv'
  BY DEF TypeOK, UniformInv, MtxInv, CallerInv, Stage, Up, Asleep, Joined
<1>4. CallerInv'
  BY DEF TypeOK, CallerInv, Stage, MtxInv, UniformInv, Up, Asleep, Joined
<1>5. RunningInv'
  BY DEF TypeOK, RunningInv, MtxInv, UniformInv, CallerInv, Stage, Up, Asleep, Joined
<1>6. UnsetInv'
  BY DEF TypeOK, UnsetInv, UniformInv, CallerInv, Stage, Up, Asleep, Joined
<1>7. SocketInv'
  <2>1. /\ \A v \in Workers : thread[v] # "leaving"
        /\ chosen + 1 \in Workers
    BY FreeFacts, TurnFacts
  <2>2. MayConnect => (\A v \in Workers : Up(v)) \/ (\E d \in Callers : pc[d] = "run")
    BY DEF MayConnect, RunningInv
  <2>3. \A v \in Workers : Up(v)' <=> Up(v)
    BY DEF TypeOK, Up
  <2>4. /\ pc' = pc /\ at' = at /\ settings' = settings
        /\ \A v \in Workers : thread'[v] # "leaving"
        /\ \/ sockets' = sockets
           \/ MayConnect /\ \A v \in Workers : v # chosen + 1 => sockets'[v] = sockets[v]
    BY <2>1 DEF TypeOK
  <2>5. CASE sockets' = sockets
    <3>. HIDE DEF ExecReturn, ConnectNext
    <3>. QED
      BY <2>3, <2>4, <2>5 DEF SocketInv
  <2>6. CASE MayConnect /\ \A v \in Workers : v # chosen + 1 => sockets'[v] = sockets[v]
    <3>. HIDE DEF ExecReturn, ConnectNext
    <3>. QED
      BY <2>2, <2>3, <2>4, <2>6 DEF SocketInv, MayConnect
  <2>. QED
    BY <2>4, <2>5, <2>6
<1>. QED
  BY <1>1, <1>2, <1>3, <1>4, <1>5, <1>6, <1>7

\* A runtime leaves its loop only when it is being joined, and without sockets.
LEMMA ExecLeaveKeeps ==
  ASSUME IInv, NEW w \in Workers, ExecLeave(w)
  PROVE  MtxInv' /\ JoinInv' /\ UniformInv' /\ CallerInv' /\ RunningInv' /\ UnsetInv'
         /\ SocketInv'
<1>. USE EndpointConstantsOK DEF IInv, ExecLeave
<1>1. MtxInv'
  BY DEF TypeOK, MtxInv, Up, Asleep, Joined
<1>2. JoinInv'
  BY DEF TypeOK, JoinInv, MtxInv, Up, Asleep, Joined
<1>3. UniformInv'
  BY DEF TypeOK, UniformInv, MtxInv, CallerInv, Stage, Up, Asleep, Joined
<1>4. CallerInv'
  BY DEF TypeOK, CallerInv, Stage, MtxInv, UniformInv, Up, Asleep, Joined
<1>5. RunningInv'
  BY DEF TypeOK, RunningInv, MtxInv, UniformInv, CallerInv, Stage, Up, Asleep, Joined
<1>6. UnsetInv'
  BY DEF TypeOK, UnsetInv, UniformInv, CallerInv, Stage, Up, Asleep, Joined
<1>7. SocketInv'
  BY DEF TypeOK, SocketInv, CallerInv, Stage, Up, Asleep, Joined
<1>. QED
  BY <1>1, <1>2, <1>3, <1>4, <1>5, <1>6, <1>7

\* The runtime that clears its running_ is the one that stop() waits for.
LEMMA ExecEndKeeps ==
  ASSUME IInv, NEW w \in Workers, ExecEnd(w)
  PROVE  MtxInv' /\ JoinInv' /\ UniformInv' /\ CallerInv' /\ RunningInv' /\ UnsetInv'
         /\ SocketInv'
<1>. USE EndpointConstantsOK DEF IInv, ExecEnd
<1>0. PICK c \in Callers : pc[c] = "join" /\ at[c] = w /\ mtx = c
  BY DEF JoinInv, MtxInv
<1>8. mtx' # None
  BY <1>0, EndpointConstantsOK
<1>9. \A d \in Callers : d # c => pc[d] \in {"idle", "run"}
  BY <1>0, HolderAlone
<1>1. MtxInv'
  BY DEF TypeOK, MtxInv, Up, Asleep, Joined
<1>2. JoinInv'
  BY DEF TypeOK, JoinInv, MtxInv, Up, Asleep, Joined
<1>3. UniformInv'
  BY <1>8 DEF UniformInv
<1>4. CallerInv'
  <2>1. Stage(c) /\ Ordered(at[c])
    BY OnwardFacts DEF CallerInv
  <2>2. \A v \in Workers : v # w => (Up(v)' <=> Up(v)) /\ (Asleep(v)' <=> Asleep(v))
    BY DEF TypeOK, Up, Asleep, Joined
  <2>3. ~wrunning'[w] /\ thread'[w] = "finished" /\ pc' = pc /\ at' = at
    BY DEF TypeOK
  <2>. HIDE DEF ExecEnd
  <2>4. Stage(c)'
    BY <1>0, <2>1, <2>2, <2>3 DEF Stage, Ordered
  <2>. QED
    BY <1>9, <2>3, <2>4 DEF CallerInv, Stage, Ordered
<1>5. RunningInv'
  BY <1>8 DEF RunningInv
<1>6. UnsetInv'
  BY DEF TypeOK, UnsetInv, UniformInv, CallerInv, Stage, Up, Asleep, Joined
<1>7. SocketInv'
  BY DEF TypeOK, SocketInv, CallerInv, Stage, Up, Asleep, Joined
<1>. QED
  BY <1>1, <1>2, <1>3, <1>4, <1>5, <1>6, <1>7

\* Closing a connection touches neither flags nor threads.
LEMMA DeregisterKeeps ==
  ASSUME IInv, NEW w \in Workers, Deregister(w)
  PROVE  MtxInv' /\ JoinInv' /\ UniformInv' /\ CallerInv' /\ RunningInv' /\ UnsetInv'
         /\ SocketInv'
<1>. USE EndpointConstantsOK DEF IInv, Deregister
<1>1. SocketInv'
  BY DEF TypeOK, SocketInv, CallerInv, Stage, Up, Asleep, Joined
<1>. QED
  BY <1>1, ControlFrame

-----------------------------------------------------------------------------
\* Every step preserves the invariant.
LEMMA NextIInv == ASSUME IInv, [Next]_vars PROVE IInv'
<1>1. TypeOK' /\ ListenInv'
  BY TypeStep DEF IInv
<1>. DEFINE Rest == /\ MtxInv /\ JoinInv /\ UniformInv /\ CallerInv /\ RunningInv
                    /\ UnsetInv /\ SocketInv
<1>2. ASSUME NEW c \in Callers, WithSettings(c) PROVE Rest'
  BY <1>2, WithSettingsKeeps
<1>3. ASSUME NEW c \in Callers, Listen(c) PROVE Rest'
  BY <1>3, ListenKeeps
<1>4. ASSUME NEW c \in Callers, Connect(c) PROVE Rest'
  BY <1>4, ConnectKeeps
<1>5. ASSUME NEW c \in Callers, RunBegin(c) PROVE Rest'
  BY <1>5, RunBeginKeeps
<1>6. ASSUME NEW c \in Callers, StopBegin(c) PROVE Rest'
  BY <1>6, StopBeginKeeps
<1>7. ASSUME NEW c \in Callers, RunLock(c) PROVE Rest'
  BY <1>7, RunLockKeeps
<1>8. ASSUME NEW c \in Callers, RunUnset(c) PROVE Rest'
  BY <1>8, RunUnsetKeeps
<1>9. ASSUME NEW c \in Callers, RunWorker(c) PROVE Rest'
  BY <1>9, RunWorkerKeeps
<1>10. ASSUME NEW c \in Callers, RunWorkerFails(c) PROVE Rest'
  BY <1>10, RunWorkerFailsKeeps
<1>11. ASSUME NEW c \in Callers, RunPartial(c) PROVE Rest'
  BY <1>11, RunPartialKeeps
<1>12. ASSUME NEW c \in Callers, Spawn(c) PROVE Rest'
  BY <1>12, SpawnKeeps
<1>13. ASSUME NEW c \in Callers, StopWorker(c) PROVE Rest'
  BY <1>13, StopWorkerKeeps
<1>14. ASSUME NEW c \in Callers, StopSkip(c) PROVE Rest'
  BY <1>14, StopSkipKeeps
<1>15. ASSUME NEW c \in Callers, StopJoin(c) PROVE Rest'
  BY <1>15, StopJoinKeeps
<1>16. ASSUME NEW c \in Callers, StopEnd(c) PROVE Rest'
  BY <1>16, StopEndKeeps
<1>17. ASSUME NEW w \in Workers, ExecStart(w) PROVE Rest'
  BY <1>17, ExecStartKeeps
<1>18. ASSUME NEW w \in Workers, Accept(w) PROVE Rest'
  BY <1>18, AcceptKeeps
<1>19. ASSUME NEW w \in Workers, CloseAcceptor(w) PROVE Rest'
  BY <1>19, CloseAcceptorKeeps
<1>20. ASSUME NEW w \in Workers, ExecCallback(w) PROVE Rest'
  BY <1>20, ExecCallbackKeeps
<1>21. ASSUME NEW w \in Workers, ExecReturn(w) PROVE Rest'
  BY <1>21, ExecReturnKeeps
<1>22. ASSUME NEW w \in Workers, ExecLeave(w) PROVE Rest'
  BY <1>22, ExecLeaveKeeps
<1>23. ASSUME NEW w \in Workers, ExecEnd(w) PROVE Rest'
  BY <1>23, ExecEndKeeps
<1>24. ASSUME NEW w \in Workers, Deregister(w) PROVE Rest'
  BY <1>24, DeregisterKeeps
<1>25. ASSUME UNCHANGED vars PROVE Rest'
  <2>1. MtxInv' /\ JoinInv' /\ UniformInv' /\ CallerInv' /\ RunningInv' /\ UnsetInv'
    BY <1>25, ControlFrame DEF vars
  <2>2. SocketInv'
    BY <1>25 DEF IInv, SocketInv, Up, vars
  <2>. QED
    BY <2>1, <2>2
<1>26. Rest'
  <2>. HIDE DEF Rest
  <2>. QED
    BY <1>2, <1>3, <1>4, <1>5, <1>6, <1>7, <1>8, <1>9, <1>10, <1>11, <1>12,
       <1>13, <1>14, <1>15, <1>16, <1>17, <1>18, <1>19, <1>20, <1>21, <1>22,
       <1>23, <1>24, <1>25 DEF Next, CallerSteps, ExecSteps
<1>. QED
  BY <1>1, <1>26 DEF IInv

\* The invariant holds in every state, for every set of callers and number of
\* workers, however many threads call run() and stop().
THEOREM Invariance == Spec => []IInv
<1>1. Init => IInv
  BY InitIInv
<1>2. IInv /\ [Next]_vars => IInv'
  BY NextIInv
<1>. QED
  BY <1>1, <1>2, PTL DEF Spec

\* Every variable keeps its type.
THEOREM TypeCorrect == Spec => []TypeOK
<1>1. IInv => TypeOK
  BY DEF IInv
<1>. QED
  BY <1>1, Invariance, PTL

\* However many threads call run() and stop(), tcp_connect and do_accept hand a
\* connection only to a runtime that runs, or that a run() is about to start,
\* and none is left with a runtime that has ended.
THEOREM ConnectedServed == Spec => []ConnectedIsServed
<1>1. IInv => ConnectedIsServed
  BY DEF IInv, SocketInv, ConnectedIsServed, Up
<1>. QED
  BY <1>1, Invariance, PTL

\* A registered acceptor has an open listening socket, though not the converse:
\* a stop() leaves listening sockets open that nobody accepts from.
THEOREM AcceptorsListen == Spec => []ListenInv
<1>1. IInv => ListenInv
  BY DEF IInv
<1>. QED
  BY <1>1, Invariance, PTL

\* However many threads call run() and stop(), a stop() that returns has ended
\* and joined the threads of all runtimes, and nobody has restarted one meanwhile.
THEOREM StopEndsAll == Spec => []StopLeavesNothing
<1>1. IInv => StopLeavesNothing
  BY DEF IInv, CallerInv, Stage, StopLeavesNothing, Asleep
<1>. QED
  BY <1>1, Invariance, PTL

\* However many threads call run() and stop(), a run() starts all runtimes, or
\* fails on the first because all of them are running.
THEOREM RunIsWhole == Spec => []RunAllOrNothing
<1>1. IInv => RunAllOrNothing
  BY DEF IInv, CallerInv, Stage, RunAllOrNothing, Up
<1>. QED
  BY <1>1, Invariance, PTL
=============================================================================
