--------------------------- MODULE RegistryProofs ---------------------------
(***************************************************************************)
(* Proofs about Registry, for any number of sockets, descriptors and       *)
(* threads.                                                                *)
(***************************************************************************)
EXTENDS Registry, FiniteSetTheorems, TLAPS

USE DEF lifeVars

Calls == {"event", "do_read", "do_write"}

\* The places inside close(), and those at which the file is still open.
InClose == {"runtime", "deregister", "closeFd", "drain"}
HasFile == {"open", "runtime", "deregister", "closeFd"}

\* handles_mtx_ is held through clear(), reset and release, where no callback
\* of the loop's own is running; only there are references destroyed.
MtxInv ==
  /\ mtx = Loop <=> loop \in {"clear", "reset", "release"}
  /\ inCallback => loop \in {"dispatch", "sweep"}
  /\ cleanup # {} => loop \in {"clear", "release"}

\* A thread is inside close() of a socket exactly until close() has returned.
ByInv == \A s \in Sockets : by[s] # None <=> at[s] \in InClose

\* Until ::close, fd_ names the socket's own file; no other file is open.
FileInv ==
  /\ \A s \in Sockets : at[s] \in HasFile => fd[s] \in Fds /\ owner[fd[s]] = s
  /\ \A f \in Fds :
       owner[f] # None => at[owner[f]] \in HasFile /\ fd[owner[f]] = f

\* What is in the table has not got past deregister_handle, except while
\* release_all_handles resets runtime_.
TableInv ==
  \A f \in Fds : handles[f] # None =>
    /\ at[handles[f]] # "unborn"
    /\ fd[handles[f]] = f
    /\ loop # "reset" =>
         /\ at[handles[f]] \in {"open", "runtime", "deregister"}
         /\ linked[handles[f]]

\* runtime_ is set only while the table has the socket.
LinkedInv == \A s \in Sockets : linked[s] => fd[s] \in Fds /\ handles[fd[s]] = s

\* What removable_handles_ keeps is closed, so that clear() runs no destructor
\* that does anything.
RemovableInv ==
  /\ \A s \in removable : at[s] \in {"closeFd", "drain", "closed"}
  /\ loop = "clear" => \A s \in cleanup : at[s] \in {"closeFd", "drain", "closed"}

\* The table or removable_handles_ keeps everything the loop points to.
VisitInv ==
  /\ visiting # {} => loop \in {"dispatch", "sweep"}
  /\ \A v \in visiting : /\ v[1] \in Registered \cup removable
                         /\ v[2] = "event" => loop = "dispatch"

\* The loop closes through a raw pointer only during the events, and the
\* table, then removable_handles_, keeps the socket meanwhile.
EventInv ==
  \A s \in Sockets : by[s] # None /\ how[s] = "event" =>
    /\ by[s] = Loop /\ loop = "dispatch"
    /\ at[s] \in {"runtime", "deregister"} => fd[s] \in Fds /\ handles[fd[s]] = s
    /\ at[s] \notin {"runtime", "deregister"} => s \in removable

\* Nothing that is open has lost its last reference.
OpenInv == \A s \in Sockets : at[s] = "open" => Kept(s, held, cleanup)

\* While handles_mtx_ is held, the loop's thread is inside no close(), or
\* inside one that has found runtime_ reset.
LockedInv ==
  /\ loop \in {"clear", "reset"} => Inside(Loop) = {}
  /\ loop = "release" => /\ \A s \in Sockets : ~linked[s]
                         /\ \A s \in Inside(Loop) : at[s] # "deregister"

IInv ==
  /\ TypeOK /\ MtxInv /\ ByInv /\ FileInv /\ TableInv /\ LinkedInv
  /\ RemovableInv /\ VisitInv /\ EventInv /\ OpenInv /\ LockedInv

-----------------------------------------------------------------------------
\* How deep a call of close() is nested is a number.
LEMMA InsideIsCounted ==
  ASSUME NEW t PROVE Cardinality(Inside(t)) \in Nat
<1>1. IsFiniteSet(Inside(t))
  BY RegistryConstantsOK, FS_Subset DEF Inside
<1>2. QED
  BY <1>1, FS_CardinalityType

\* run() and stop() of the endpoint: they touch no socket, and of the loop they
\* only start the thread.
EndpointSteps ==
  RunBegin \/ Spawn \/ ExecStart \/ StopLock \/ StopSet \/ StopReturn
    \/ ConnectBlocks

LEMMA EndpointStepsOnlyStart ==
  ASSUME EndpointSteps
  PROVE  /\ UNCHANGED <<closeVars, tableVars, fileVars, refVars, mtx, visiting,
                        cleanup, inCallback>>
         /\ \/ loop' = loop
            \/ loop \in {"ended", "started"} /\ loop' \in {"started", "wait"}
  BY DEF EndpointSteps, RunBegin, Spawn, ExecStart, StopLock, StopSet,
         StopReturn, ConnectBlocks

\* Every step keeps the variables in their sets.
LEMMA TypeOKStep ==
  ASSUME IInv, Next
  PROVE  TypeOK'
<1>1. ASSUME Poll
      PROVE  TypeOK'
  <2>1. visiting' \subseteq Sockets \X Calls
    BY <1>1 DEF Poll, WaitForEvents, Registered, Calls
  <2>2. QED
    BY <1>1, <2>1 DEF IInv, TypeOK, Poll, WaitForEvents, Calls, closeVars,
                     tableVars, fileVars, refVars
<1>2. ASSUME Copy
      PROVE  TypeOK'
  <2>1. visiting' \subseteq Sockets \X Calls
    BY <1>2 DEF Copy, Registered, Calls
  <2>2. QED
    BY <1>2, <2>1 DEF IInv, TypeOK, Copy, Calls, closeVars,
                     tableVars, fileVars, refVars
<1>3. ASSUME Clear
      PROVE  TypeOK'
  BY <1>3 DEF IInv, TypeOK, Clear, closeVars, fileVars, refVars
<1>4. ASSUME Leave
      PROVE  TypeOK'
  BY RegistryConstantsOK, <1>4
     DEF Threads, IInv, TypeOK, Leave, LoopIdle, closeVars, tableVars,
         fileVars, refVars, loopVars
<1>5. ASSUME Release
      PROVE  TypeOK'
  <2>1. cleanup' \subseteq Sockets
    BY <1>5 DEF IInv, TypeOK, Release, TakeTables, Registered
  <2>2. handles' \in [Fds -> Sockets \cup {None}]
    BY <1>5 DEF Release, TakeTables
  <2>3. QED
    BY <1>5, <2>1, <2>2 DEF IInv, TypeOK, Release, TakeTables, closeVars,
                            fileVars, refVars
<1>6. ASSUME CleanupEnd
      PROVE  TypeOK'
  BY RegistryConstantsOK, <1>6
     DEF Threads, IInv, TypeOK, CleanupEnd, LoopIdle, closeVars, tableVars,
         fileVars, refVars, loopVars
<1>7. ASSUME CallbackReturn
      PROVE  TypeOK'
  BY RegistryConstantsOK, <1>7
     DEF Threads, IInv, TypeOK, CallbackReturn, closeVars, tableVars,
         fileVars, refVars, loopVars
<1>8. ASSUME EndpointSteps
      PROVE  TypeOK'
  <2>1. loop' \in {"started", "wait", "dispatch", "sweep", "clear", "reset",
                   "release", "ended"}
    BY <1>8, EndpointStepsOnlyStart DEF IInv, TypeOK
  <2>2. /\ running' \in BOOLEAN /\ starting' \in BOOLEAN
        /\ stopped' \in BOOLEAN /\ stopping' \in BOOLEAN
        /\ blocked' \in BOOLEAN
    BY <1>8 DEF IInv, TypeOK, EndpointSteps, RunBegin, Spawn, ExecStart,
                StopLock, StopSet, StopReturn, ConnectBlocks
  <2>3. QED
    BY <1>8, <2>1, <2>2, EndpointStepsOnlyStart
       DEF IInv, TypeOK, closeVars, tableVars, fileVars, refVars
<1>9. ASSUME NEW s \in Sockets, Reset(s)
      PROVE  TypeOK'
  BY RegistryConstantsOK, <1>9
     DEF Threads, IInv, TypeOK, Reset, closeVars, tableVars, fileVars,
         refVars, loopVars
<1>10. ASSUME NEW s \in Sockets, CleanupNext(s)
      PROVE  TypeOK'
  <2>1. /\ at' = at /\ by' = by /\ how' = how /\ depth' = depth
        \/ EnterClose(Loop, s, "destructor")
    BY <1>10 DEF CleanupNext, DestroyIfLast, closeVars
  <2>2. /\ at' \in [Sockets -> {"unborn", "open", "runtime", "deregister",
                               "closeFd", "drain", "closed"}]
        /\ by' \in [Sockets -> Threads \cup {None}]
        /\ how' \in [Sockets -> {"owner", "event", "destructor"}]
        /\ depth' \in [Sockets -> Nat]
    BY <2>1, InsideIsCounted DEF IInv, TypeOK, EnterClose, Threads
  <2>3. QED
    BY <1>10, <2>2 DEF IInv, TypeOK, CleanupNext, tableVars, fileVars, refVars
<1>11. ASSUME NEW s \in Sockets, NEW call \in Calls, VisitNothing(s, call)
      PROVE  TypeOK'
  BY RegistryConstantsOK, <1>11
     DEF Threads, IInv, TypeOK, VisitNothing, Visit, LoopIdle, closeVars,
         tableVars, fileVars, refVars, loopVars, Calls
<1>12. ASSUME NEW s \in Sockets, NEW call \in Calls, VisitAnswers(s, call)
      PROVE  TypeOK'
  BY RegistryConstantsOK, <1>12
     DEF Threads, IInv, TypeOK, VisitAnswers, Visit, LoopIdle, closeVars,
         tableVars, fileVars, refVars, loopVars, Calls
<1>13. ASSUME NEW s \in Sockets, NEW call \in Calls, VisitHangUp(s, call)
      PROVE  TypeOK'
  BY RegistryConstantsOK, <1>13, InsideIsCounted
     DEF Threads, IInv, TypeOK, VisitHangUp, Visit, EnterClose, LoopIdle,
         closeVars, tableVars, fileVars, refVars, loopVars, Calls
<1>14. ASSUME NEW s \in Sockets, NEW f \in Fds, Accept(s, f)
      PROVE  TypeOK'
  BY RegistryConstantsOK, <1>14
     DEF Threads, IInv, TypeOK, Accept, Register, LoopIdle, closeVars,
         tableVars, fileVars, refVars, loopVars
<1>15. ASSUME NEW t \in Threads, NEW s \in Sockets, NEW f \in Fds, Connect(t, s, f)
      PROVE  TypeOK'
  BY RegistryConstantsOK, <1>15
     DEF Threads, IInv, TypeOK, Connect, Register, closeVars, tableVars,
         fileVars, refVars, loopVars
<1>16. ASSUME NEW t \in Threads, NEW s \in Sockets, Submit(t, s)
      PROVE  TypeOK'
  BY RegistryConstantsOK, <1>16
     DEF Threads, IInv, TypeOK, Submit, closeVars, tableVars, fileVars,
         refVars, loopVars
<1>17. ASSUME NEW t \in Threads, NEW s \in Sockets, Close(t, s)
      PROVE  TypeOK'
  BY RegistryConstantsOK, <1>17, InsideIsCounted
     DEF Threads, IInv, TypeOK, Close, EnterClose, closeVars, tableVars,
         fileVars, refVars, loopVars
<1>18. ASSUME NEW t \in Threads, NEW s \in Sockets, Drop(t, s)
      PROVE  TypeOK'
  BY RegistryConstantsOK, <1>18, InsideIsCounted
     DEF Threads, IInv, TypeOK, Drop, DestroyIfLast, EnterClose, closeVars,
         tableVars, fileVars, refVars, loopVars
<1>19. ASSUME NEW t \in Threads, NEW s \in Sockets, ReadRuntime(t, s)
      PROVE  TypeOK'
  BY RegistryConstantsOK, <1>19
     DEF Threads, IInv, TypeOK, ReadRuntime, Innermost, Goto, closeVars,
         tableVars, fileVars, refVars, loopVars
<1>20. ASSUME NEW t \in Threads, NEW s \in Sockets, Deregister(t, s)
      PROVE  TypeOK'
  <2>1. /\ linked' \in [Sockets -> BOOLEAN]
        /\ handles' \in [Fds -> Sockets \cup {None}]
        /\ removable' \subseteq Sockets
    BY <1>20 DEF IInv, TypeOK, Deregister, Retires, tableVars
  <2>2. QED
    BY <1>20, <2>1 DEF IInv, TypeOK, Deregister, Goto, fileVars, refVars, loopVars
<1>21. ASSUME NEW t \in Threads, NEW s \in Sockets, CloseFd(t, s)
      PROVE  TypeOK'
  BY RegistryConstantsOK, <1>21
     DEF Threads, IInv, TypeOK, CloseFd, Innermost, Goto, closeVars,
         tableVars, fileVars, refVars, loopVars
<1>22. ASSUME NEW t \in Threads, NEW s \in Sockets, Drain(t, s)
      PROVE  TypeOK'
  BY RegistryConstantsOK, <1>22
     DEF Threads, IInv, TypeOK, Drain, Innermost, closeVars, tableVars,
         fileVars, refVars, loopVars
<1>23. ASSUME NEW t \in Threads, NEW s \in Sockets, CloseReturn(t, s)
      PROVE  TypeOK'
  BY RegistryConstantsOK, <1>23
     DEF Threads, IInv, TypeOK, CloseReturn, Innermost, closeVars,
         tableVars, fileVars, refVars, loopVars
<1>24. QED
  BY <1>1, <1>2, <1>3, <1>4, <1>5, <1>6, <1>7, <1>8, <1>9, <1>10, <1>11,
     <1>12, <1>13, <1>14, <1>15, <1>16, <1>17, <1>18, <1>19, <1>20, <1>21,
     <1>22, <1>23
    DEF Next, EndpointSteps, TurnSteps, AppSteps, CloseSteps, Calls

\* Every step preserves MtxInv.
LEMMA MtxInvStep ==
  ASSUME IInv, Next
  PROVE  MtxInv'
<1>1. ASSUME Poll
      PROVE  MtxInv'
  BY RegistryConstantsOK, <1>1
     DEF Threads, IInv, TypeOK, MtxInv, Poll, WaitForEvents, LoopIdle,
         closeVars, tableVars, fileVars, refVars, loopVars
<1>2. ASSUME Copy
      PROVE  MtxInv'
  BY RegistryConstantsOK, <1>2
     DEF Threads, IInv, TypeOK, MtxInv, Copy, LoopIdle, closeVars,
         tableVars, fileVars, refVars, loopVars
<1>3. ASSUME Clear
      PROVE  MtxInv'
  BY RegistryConstantsOK, <1>3
     DEF Threads, IInv, TypeOK, MtxInv, Clear, LoopIdle, closeVars,
         tableVars, fileVars, refVars, loopVars
<1>4. ASSUME Leave
      PROVE  MtxInv'
  BY RegistryConstantsOK, <1>4
     DEF Threads, IInv, TypeOK, MtxInv, Leave, LoopIdle, closeVars,
         tableVars, fileVars, refVars, loopVars
<1>5. ASSUME Release
      PROVE  MtxInv'
  BY RegistryConstantsOK, <1>5
     DEF Threads, IInv, TypeOK, MtxInv, Release, TakeTables, closeVars,
         tableVars, fileVars, refVars, loopVars
<1>6. ASSUME CleanupEnd
      PROVE  MtxInv'
  BY RegistryConstantsOK, <1>6
     DEF Threads, IInv, TypeOK, MtxInv, CleanupEnd, LoopIdle, closeVars,
         tableVars, fileVars, refVars, loopVars
<1>7. ASSUME CallbackReturn
      PROVE  MtxInv'
  BY RegistryConstantsOK, <1>7
     DEF Threads, IInv, TypeOK, MtxInv, CallbackReturn, closeVars,
         tableVars, fileVars, refVars, loopVars
<1>8. ASSUME EndpointSteps
      PROVE  MtxInv'
  BY RegistryConstantsOK, <1>8, EndpointStepsOnlyStart
     DEF Threads, IInv, TypeOK, MtxInv, closeVars, tableVars,
         fileVars, refVars, loopVars
<1>9. ASSUME NEW s \in Sockets, CleanupNext(s)
      PROVE  MtxInv'
  BY RegistryConstantsOK, <1>9
     DEF Threads, IInv, TypeOK, MtxInv, CleanupNext, DestroyIfLast,
         EnterClose, LoopIdle, closeVars, tableVars, fileVars, refVars,
         loopVars
<1>10. ASSUME NEW s \in Sockets, NEW call \in Calls, VisitAnswers(s, call)
      PROVE  MtxInv'
  BY RegistryConstantsOK, <1>10
     DEF Threads, IInv, TypeOK, MtxInv, VisitAnswers, Visit, LoopIdle,
         closeVars, tableVars, fileVars, refVars, loopVars
<1>11. ASSUME NEW s \in Sockets, NEW f \in Fds, Accept(s, f)
      PROVE  MtxInv'
  BY RegistryConstantsOK, <1>11
     DEF Threads, IInv, TypeOK, MtxInv, Accept, Register, LoopIdle,
         closeVars, tableVars, fileVars, refVars, loopVars
<1>12. ASSUME UNCHANGED <<mtx, loop, inCallback, cleanup>>
      PROVE  MtxInv'
  BY <1>12 DEF IInv, MtxInv
<1>13. ASSUME NEW s \in Sockets,
              \/ Reset(s)
              \/ \E call \in Calls : VisitNothing(s, call) \/ VisitHangUp(s, call)
       PROVE  MtxInv'
  BY <1>12, <1>13 DEF Reset, VisitNothing, Visit, VisitHangUp, loopVars
<1>14. ASSUME NEW t \in Threads, AppSteps(t) \/ CloseSteps(t)
       PROVE  MtxInv'
  BY <1>12, <1>14
     DEF AppSteps, CloseSteps, Connect, Register, Submit, Close, Drop,
         ReadRuntime, Deregister, CloseFd, Drain, CloseReturn, loopVars
<1>15. QED
  BY <1>1, <1>2, <1>3, <1>4, <1>5, <1>6, <1>7, <1>8, <1>9, <1>10, <1>11,
     <1>13, <1>14
     DEF Next, TurnSteps, EndpointSteps, Calls

\* Every step preserves ByInv.
LEMMA ByInvStep ==
  ASSUME IInv, Next
  PROVE  ByInv'
<1>1. ASSUME NEW s \in Sockets, CleanupNext(s)
      PROVE  ByInv'
  BY RegistryConstantsOK, <1>1
     DEF Threads, IInv, TypeOK, InClose, ByInv, CleanupNext, DestroyIfLast,
         EnterClose, LoopIdle, closeVars, tableVars, fileVars, refVars,
         loopVars
<1>2. ASSUME NEW s \in Sockets, NEW call \in Calls, VisitHangUp(s, call)
      PROVE  ByInv'
  BY RegistryConstantsOK, <1>2
     DEF Threads, IInv, TypeOK, InClose, ByInv, VisitHangUp, Visit,
         EnterClose, LoopIdle, closeVars, tableVars, fileVars, refVars,
         loopVars
<1>3. ASSUME NEW s \in Sockets, NEW f \in Fds, Accept(s, f)
      PROVE  ByInv'
  BY RegistryConstantsOK, <1>3
     DEF Threads, IInv, TypeOK, InClose, ByInv, Accept, Register, LoopIdle,
         closeVars, tableVars, fileVars, refVars, loopVars
<1>4. ASSUME NEW t \in Threads, NEW s \in Sockets, NEW f \in Fds, Connect(t, s, f)
      PROVE  ByInv'
  BY RegistryConstantsOK, <1>4
     DEF Threads, IInv, TypeOK, InClose, ByInv, Connect, Register,
         closeVars, tableVars, fileVars, refVars, loopVars
<1>5. ASSUME NEW t \in Threads, NEW s \in Sockets, Close(t, s)
      PROVE  ByInv'
  BY RegistryConstantsOK, <1>5
     DEF Threads, IInv, TypeOK, InClose, ByInv, Close, EnterClose,
         closeVars, tableVars, fileVars, refVars, loopVars
<1>6. ASSUME NEW t \in Threads, NEW s \in Sockets, Drop(t, s)
      PROVE  ByInv'
  BY RegistryConstantsOK, <1>6
     DEF Threads, IInv, TypeOK, InClose, ByInv, Drop, DestroyIfLast,
         EnterClose, closeVars, tableVars, fileVars, refVars, loopVars
<1>7. ASSUME NEW t \in Threads, NEW s \in Sockets, ReadRuntime(t, s)
      PROVE  ByInv'
  BY RegistryConstantsOK, <1>7
     DEF Threads, IInv, TypeOK, InClose, ByInv, ReadRuntime, Innermost,
         Goto, closeVars, tableVars, fileVars, refVars, loopVars
<1>8. ASSUME NEW t \in Threads, NEW s \in Sockets, Deregister(t, s)
      PROVE  ByInv'
  BY RegistryConstantsOK, <1>8
     DEF Threads, IInv, TypeOK, InClose, ByInv, Deregister, Innermost, Goto,
         Retires, closeVars, tableVars, fileVars, refVars, loopVars
<1>9. ASSUME NEW t \in Threads, NEW s \in Sockets, CloseFd(t, s)
      PROVE  ByInv'
  BY RegistryConstantsOK, <1>9
     DEF Threads, IInv, TypeOK, InClose, ByInv, CloseFd, Innermost, Goto,
         closeVars, tableVars, fileVars, refVars, loopVars
<1>10. ASSUME NEW t \in Threads, NEW s \in Sockets, CloseReturn(t, s)
      PROVE  ByInv'
  BY RegistryConstantsOK, <1>10
     DEF Threads, IInv, TypeOK, InClose, ByInv, CloseReturn, Innermost,
         closeVars, tableVars, fileVars, refVars, loopVars
<1>11. ASSUME UNCHANGED <<by, at>>
      PROVE  ByInv'
  BY <1>11 DEF IInv, ByInv, InClose
<1>12. QED
  BY <1>1, <1>2, <1>3, <1>4, <1>5, <1>6, <1>7, <1>8, <1>9, <1>10, <1>11,
     EndpointStepsOnlyStart
    DEF Next, TurnSteps, AppSteps, CloseSteps, Calls, Poll, WaitForEvents,
        Copy, Clear, Leave, Release, TakeTables, CleanupEnd, CallbackReturn,
        EndpointSteps, Reset, VisitNothing, Visit, VisitAnswers, Submit, Drain,
        closeVars, tableVars, fileVars, refVars, loopVars

\* Every step preserves FileInv.
LEMMA FileInvStep ==
  ASSUME IInv, Next
  PROVE  FileInv'
<1>1. ASSUME NEW s \in Sockets, CleanupNext(s)
      PROVE  FileInv'
  BY RegistryConstantsOK, <1>1
     DEF Threads, IInv, TypeOK, HasFile, FileInv, CleanupNext,
         DestroyIfLast, EnterClose, LoopIdle, closeVars, tableVars,
         fileVars, refVars, loopVars
<1>2. ASSUME NEW s \in Sockets, NEW call \in Calls, VisitHangUp(s, call)
      PROVE  FileInv'
  BY RegistryConstantsOK, <1>2
     DEF Threads, IInv, TypeOK, HasFile, FileInv, VisitHangUp, Visit,
         EnterClose, LoopIdle, closeVars, tableVars, fileVars, refVars,
         loopVars
<1>3. ASSUME NEW s \in Sockets, NEW f \in Fds, Accept(s, f)
      PROVE  FileInv'
  BY RegistryConstantsOK, <1>3
     DEF Threads, IInv, TypeOK, HasFile, FileInv, Accept, Register,
         LoopIdle, closeVars, tableVars, fileVars, refVars, loopVars
<1>4. ASSUME NEW t \in Threads, NEW s \in Sockets, NEW f \in Fds, Connect(t, s, f)
      PROVE  FileInv'
  BY RegistryConstantsOK, <1>4
     DEF Threads, IInv, TypeOK, HasFile, FileInv, Connect, Register,
         closeVars, tableVars, fileVars, refVars, loopVars
<1>5. ASSUME NEW t \in Threads, NEW s \in Sockets, Close(t, s)
      PROVE  FileInv'
  BY RegistryConstantsOK, <1>5
     DEF Threads, IInv, TypeOK, HasFile, FileInv, Close, EnterClose,
         closeVars, tableVars, fileVars, refVars, loopVars
<1>6. ASSUME NEW t \in Threads, NEW s \in Sockets, Drop(t, s)
      PROVE  FileInv'
  BY RegistryConstantsOK, <1>6
     DEF Threads, IInv, TypeOK, HasFile, FileInv, Drop, DestroyIfLast,
         EnterClose, closeVars, tableVars, fileVars, refVars, loopVars
<1>7. ASSUME NEW t \in Threads, NEW s \in Sockets, ReadRuntime(t, s)
      PROVE  FileInv'
  BY RegistryConstantsOK, <1>7
     DEF Threads, IInv, TypeOK, HasFile, FileInv, ReadRuntime, Innermost,
         Goto, closeVars, tableVars, fileVars, refVars, loopVars
<1>8. ASSUME NEW t \in Threads, NEW s \in Sockets, Deregister(t, s)
      PROVE  FileInv'
  BY RegistryConstantsOK, <1>8
     DEF Threads, IInv, TypeOK, HasFile, FileInv, Deregister, Innermost,
         Goto, Retires, closeVars, tableVars, fileVars, refVars, loopVars
<1>9. ASSUME NEW t \in Threads, NEW s \in Sockets, CloseFd(t, s)
      PROVE  FileInv'
  BY RegistryConstantsOK, <1>9
     DEF Threads, IInv, TypeOK, HasFile, FileInv, CloseFd, Innermost, Goto,
         closeVars, tableVars, fileVars, refVars, loopVars
<1>10. ASSUME NEW t \in Threads, NEW s \in Sockets, CloseReturn(t, s)
      PROVE  FileInv'
  BY RegistryConstantsOK, <1>10
     DEF Threads, IInv, TypeOK, HasFile, FileInv, CloseReturn, Innermost,
         closeVars, tableVars, fileVars, refVars, loopVars
<1>11. ASSUME UNCHANGED <<at, fd, owner>>
      PROVE  FileInv'
  BY <1>11 DEF IInv, FileInv, HasFile
<1>12. QED
  BY <1>1, <1>2, <1>3, <1>4, <1>5, <1>6, <1>7, <1>8, <1>9, <1>10, <1>11,
     EndpointStepsOnlyStart
    DEF Next, TurnSteps, AppSteps, CloseSteps, Calls, Poll, WaitForEvents,
        Copy, Clear, Leave, Release, TakeTables, CleanupEnd, CallbackReturn,
        EndpointSteps, Reset, VisitNothing, Visit, VisitAnswers, Submit, Drain,
        closeVars, tableVars, fileVars, refVars, loopVars

\* Every step preserves TableInv.
LEMMA TableInvStep ==
  ASSUME IInv, Next
  PROVE  TableInv'
<1>1. ASSUME Poll
      PROVE  TableInv'
  BY RegistryConstantsOK, <1>1
     DEF Threads, IInv, TypeOK, MtxInv, FileInv, HasFile, Registered,
         RemovableInv, LinkedInv, ByInv, InClose, TableInv, Poll,
         WaitForEvents, LoopIdle, closeVars, tableVars, fileVars, refVars,
         loopVars
<1>2. ASSUME Copy
      PROVE  TableInv'
  BY RegistryConstantsOK, <1>2
     DEF Threads, IInv, TypeOK, MtxInv, FileInv, HasFile, Registered,
         RemovableInv, LinkedInv, ByInv, InClose, TableInv, Copy, LoopIdle,
         closeVars, tableVars, fileVars, refVars, loopVars
<1>3. ASSUME Clear
      PROVE  TableInv'
  BY RegistryConstantsOK, <1>3
     DEF Threads, IInv, TypeOK, MtxInv, FileInv, HasFile, Registered,
         RemovableInv, LinkedInv, ByInv, InClose, TableInv, Clear, LoopIdle,
         closeVars, tableVars, fileVars, refVars, loopVars
<1>4. ASSUME Leave
      PROVE  TableInv'
  BY RegistryConstantsOK, <1>4
     DEF Threads, IInv, TypeOK, MtxInv, FileInv, HasFile, Registered,
         RemovableInv, LinkedInv, ByInv, InClose, TableInv, Leave, LoopIdle,
         closeVars, tableVars, fileVars, refVars, loopVars
<1>5. ASSUME Release
      PROVE  TableInv'
  BY RegistryConstantsOK, <1>5
     DEF Threads, IInv, TypeOK, MtxInv, FileInv, HasFile, Registered,
         RemovableInv, LinkedInv, ByInv, InClose, TableInv, Release,
         TakeTables, closeVars, tableVars, fileVars, refVars, loopVars
<1>6. ASSUME CleanupEnd
      PROVE  TableInv'
  BY RegistryConstantsOK, <1>6
     DEF Threads, IInv, TypeOK, MtxInv, FileInv, HasFile, Registered,
         RemovableInv, LinkedInv, ByInv, InClose, TableInv, CleanupEnd,
         LoopIdle, closeVars, tableVars, fileVars, refVars, loopVars
<1>7. ASSUME EndpointSteps
      PROVE  TableInv'
  BY RegistryConstantsOK, <1>7, EndpointStepsOnlyStart
     DEF Threads, IInv, TypeOK, MtxInv, FileInv, HasFile, Registered,
         RemovableInv, LinkedInv, ByInv, InClose, TableInv, closeVars,
         tableVars, fileVars, refVars, loopVars
<1>8. ASSUME NEW s \in Sockets, Reset(s)
      PROVE  TableInv'
  BY RegistryConstantsOK, <1>8
     DEF Threads, IInv, TypeOK, MtxInv, FileInv, HasFile, Registered,
         RemovableInv, LinkedInv, ByInv, InClose, TableInv, Reset,
         closeVars, tableVars, fileVars, refVars, loopVars
<1>9. ASSUME NEW s \in Sockets, CleanupNext(s)
      PROVE  TableInv'
  BY RegistryConstantsOK, <1>9
     DEF Threads, IInv, TypeOK, MtxInv, FileInv, HasFile, Registered,
         RemovableInv, LinkedInv, ByInv, InClose, TableInv, CleanupNext,
         DestroyIfLast, EnterClose, LoopIdle, closeVars, tableVars,
         fileVars, refVars, loopVars
<1>10. ASSUME NEW s \in Sockets, NEW call \in Calls, VisitHangUp(s, call)
      PROVE  TableInv'
  BY RegistryConstantsOK, <1>10
     DEF Threads, IInv, TypeOK, MtxInv, FileInv, HasFile, Registered,
         RemovableInv, LinkedInv, ByInv, InClose, TableInv, VisitHangUp,
         Visit, EnterClose, LoopIdle, closeVars, tableVars, fileVars,
         refVars, loopVars
<1>11. ASSUME NEW s \in Sockets, NEW f \in Fds, Accept(s, f)
      PROVE  TableInv'
  BY RegistryConstantsOK, <1>11
     DEF Threads, IInv, TypeOK, MtxInv, FileInv, HasFile, Registered,
         RemovableInv, LinkedInv, ByInv, InClose, TableInv, Accept,
         Register, LoopIdle, closeVars, tableVars, fileVars, refVars,
         loopVars
<1>12. ASSUME NEW t \in Threads, NEW s \in Sockets, NEW f \in Fds, Connect(t, s, f)
      PROVE  TableInv'
  BY RegistryConstantsOK, <1>12
     DEF Threads, IInv, TypeOK, MtxInv, FileInv, HasFile, Registered,
         RemovableInv, LinkedInv, ByInv, InClose, TableInv, Connect,
         Register, closeVars, tableVars, fileVars, refVars, loopVars
<1>13. ASSUME NEW t \in Threads, NEW s \in Sockets, Close(t, s)
      PROVE  TableInv'
  BY RegistryConstantsOK, <1>13
     DEF Threads, IInv, TypeOK, MtxInv, FileInv, HasFile, Registered,
         RemovableInv, LinkedInv, ByInv, InClose, TableInv, Close,
         EnterClose, closeVars, tableVars, fileVars, refVars, loopVars
<1>14. ASSUME NEW t \in Threads, NEW s \in Sockets, Drop(t, s)
      PROVE  TableInv'
  BY RegistryConstantsOK, <1>14
     DEF Threads, IInv, TypeOK, MtxInv, FileInv, HasFile, Registered,
         RemovableInv, LinkedInv, ByInv, InClose, TableInv, Drop,
         DestroyIfLast, EnterClose, closeVars, tableVars, fileVars, refVars,
         loopVars
<1>15. ASSUME NEW t \in Threads, NEW s \in Sockets, ReadRuntime(t, s)
      PROVE  TableInv'
  BY RegistryConstantsOK, <1>15
     DEF Threads, IInv, TypeOK, MtxInv, FileInv, HasFile, Registered,
         RemovableInv, LinkedInv, ByInv, InClose, TableInv, ReadRuntime,
         Innermost, Goto, closeVars, tableVars, fileVars, refVars, loopVars
<1>16. ASSUME NEW t \in Threads, NEW s \in Sockets, Deregister(t, s)
      PROVE  TableInv'
  BY RegistryConstantsOK, <1>16
     DEF Threads, IInv, TypeOK, MtxInv, FileInv, HasFile, Registered,
         RemovableInv, LinkedInv, ByInv, InClose, TableInv, Deregister,
         Innermost, Goto, Retires, closeVars, tableVars, fileVars, refVars,
         loopVars
<1>17. ASSUME NEW t \in Threads, NEW s \in Sockets, CloseFd(t, s)
      PROVE  TableInv'
  BY RegistryConstantsOK, <1>17
     DEF Threads, IInv, TypeOK, MtxInv, FileInv, HasFile, Registered,
         RemovableInv, LinkedInv, ByInv, InClose, TableInv, CloseFd,
         Innermost, Goto, closeVars, tableVars, fileVars, refVars, loopVars
<1>18. ASSUME NEW t \in Threads, NEW s \in Sockets, CloseReturn(t, s)
      PROVE  TableInv'
  BY RegistryConstantsOK, <1>18
     DEF Threads, IInv, TypeOK, MtxInv, FileInv, HasFile, Registered,
         RemovableInv, LinkedInv, ByInv, InClose, TableInv, CloseReturn,
         Innermost, closeVars, tableVars, fileVars, refVars, loopVars
<1>19. ASSUME UNCHANGED <<handles, at, fd, loop, linked>>
      PROVE  TableInv'
  BY <1>19 DEF IInv, TableInv
<1>20. QED
  BY <1>1, <1>2, <1>3, <1>4, <1>5, <1>6, <1>7, <1>8, <1>9, <1>10, <1>11,
     <1>12, <1>13, <1>14, <1>15, <1>16, <1>17, <1>18, <1>19
    DEF Next, TurnSteps, AppSteps, CloseSteps, Calls, CallbackReturn,
        EndpointSteps, VisitNothing, Visit, VisitAnswers, Submit, Drain, closeVars,
        tableVars, fileVars, refVars, loopVars

\* Every step preserves LinkedInv.
LEMMA LinkedInvStep ==
  ASSUME IInv, Next
  PROVE  LinkedInv'
<1>1. ASSUME Release
      PROVE  LinkedInv'
  BY RegistryConstantsOK, <1>1
     DEF Threads, IInv, TypeOK, TableInv, FileInv, HasFile, Registered,
         MtxInv, LinkedInv, Release, TakeTables, closeVars, tableVars,
         fileVars, refVars, loopVars
<1>2. ASSUME NEW s \in Sockets, Reset(s)
      PROVE  LinkedInv'
  BY RegistryConstantsOK, <1>2
     DEF Threads, IInv, TypeOK, TableInv, FileInv, HasFile, Registered,
         MtxInv, LinkedInv, Reset, closeVars, tableVars, fileVars, refVars,
         loopVars
<1>3. ASSUME NEW s \in Sockets, NEW f \in Fds, Accept(s, f)
      PROVE  LinkedInv'
  BY RegistryConstantsOK, <1>3
     DEF Threads, IInv, TypeOK, TableInv, FileInv, HasFile, Registered,
         MtxInv, LinkedInv, Accept, Register, LoopIdle, closeVars,
         tableVars, fileVars, refVars, loopVars
<1>4. ASSUME NEW t \in Threads, NEW s \in Sockets, NEW f \in Fds, Connect(t, s, f)
      PROVE  LinkedInv'
  BY RegistryConstantsOK, <1>4
     DEF Threads, IInv, TypeOK, TableInv, FileInv, HasFile, Registered,
         MtxInv, LinkedInv, Connect, Register, closeVars, tableVars,
         fileVars, refVars, loopVars
<1>5. ASSUME NEW t \in Threads, NEW s \in Sockets, Deregister(t, s)
      PROVE  LinkedInv'
  BY RegistryConstantsOK, <1>5
     DEF Threads, IInv, TypeOK, TableInv, FileInv, HasFile, Registered,
         MtxInv, LinkedInv, Deregister, Innermost, Goto, Retires, closeVars,
         tableVars, fileVars, refVars, loopVars
<1>6. ASSUME UNCHANGED <<linked, handles, fd>>
      PROVE  LinkedInv'
  BY <1>6 DEF IInv, LinkedInv
<1>7. QED
  BY <1>1, <1>2, <1>3, <1>4, <1>5, <1>6, EndpointStepsOnlyStart
    DEF Next, TurnSteps, AppSteps, CloseSteps, Calls, Poll, WaitForEvents,
        Copy, Clear, Leave, CleanupEnd, CallbackReturn, EndpointSteps,
        CleanupNext, VisitNothing, Visit, VisitAnswers, VisitHangUp, Submit,
        Close, Drop, ReadRuntime, CloseFd, Drain, CloseReturn, closeVars,
        tableVars, fileVars, refVars, loopVars

\* Every step preserves RemovableInv.
LEMMA RemovableInvStep ==
  ASSUME IInv, Next
  PROVE  RemovableInv'
<1>1. ASSUME Poll
      PROVE  RemovableInv'
  BY RegistryConstantsOK, <1>1
     DEF Threads, IInv, TypeOK, MtxInv, ByInv, InClose, RemovableInv, Poll,
         WaitForEvents, LoopIdle, closeVars, tableVars, fileVars, refVars,
         loopVars
<1>2. ASSUME Copy
      PROVE  RemovableInv'
  BY RegistryConstantsOK, <1>2
     DEF Threads, IInv, TypeOK, MtxInv, ByInv, InClose, RemovableInv, Copy,
         LoopIdle, closeVars, tableVars, fileVars, refVars, loopVars
<1>3. ASSUME Clear
      PROVE  RemovableInv'
  BY RegistryConstantsOK, <1>3
     DEF Threads, IInv, TypeOK, MtxInv, ByInv, InClose, RemovableInv, Clear,
         LoopIdle, closeVars, tableVars, fileVars, refVars, loopVars
<1>4. ASSUME Leave
      PROVE  RemovableInv'
  BY RegistryConstantsOK, <1>4
     DEF Threads, IInv, TypeOK, MtxInv, ByInv, InClose, RemovableInv, Leave,
         LoopIdle, closeVars, tableVars, fileVars, refVars, loopVars
<1>5. ASSUME Release
      PROVE  RemovableInv'
  BY RegistryConstantsOK, <1>5
     DEF Threads, IInv, TypeOK, MtxInv, ByInv, InClose, RemovableInv,
         Release, TakeTables, closeVars, tableVars, fileVars, refVars,
         loopVars
<1>6. ASSUME CleanupEnd
      PROVE  RemovableInv'
  BY RegistryConstantsOK, <1>6
     DEF Threads, IInv, TypeOK, MtxInv, ByInv, InClose, RemovableInv,
         CleanupEnd, LoopIdle, closeVars, tableVars, fileVars, refVars,
         loopVars
<1>7. ASSUME EndpointSteps
      PROVE  RemovableInv'
  BY RegistryConstantsOK, <1>7, EndpointStepsOnlyStart
     DEF Threads, IInv, TypeOK, MtxInv, ByInv, InClose, RemovableInv,
         closeVars, tableVars, fileVars, refVars, loopVars
<1>8. ASSUME NEW s \in Sockets, CleanupNext(s)
      PROVE  RemovableInv'
  BY RegistryConstantsOK, <1>8
     DEF Threads, IInv, TypeOK, MtxInv, ByInv, InClose, RemovableInv,
         CleanupNext, DestroyIfLast, EnterClose, LoopIdle, closeVars,
         tableVars, fileVars, refVars, loopVars
<1>9. ASSUME NEW s \in Sockets, NEW call \in Calls, VisitHangUp(s, call)
      PROVE  RemovableInv'
  BY RegistryConstantsOK, <1>9
     DEF Threads, IInv, TypeOK, MtxInv, ByInv, InClose, RemovableInv,
         VisitHangUp, Visit, EnterClose, LoopIdle, closeVars, tableVars,
         fileVars, refVars, loopVars
<1>10. ASSUME NEW s \in Sockets, NEW f \in Fds, Accept(s, f)
      PROVE  RemovableInv'
  BY RegistryConstantsOK, <1>10
     DEF Threads, IInv, TypeOK, MtxInv, ByInv, InClose, RemovableInv,
         Accept, Register, LoopIdle, closeVars, tableVars, fileVars,
         refVars, loopVars
<1>11. ASSUME NEW t \in Threads, NEW s \in Sockets, NEW f \in Fds, Connect(t, s, f)
      PROVE  RemovableInv'
  BY RegistryConstantsOK, <1>11
     DEF Threads, IInv, TypeOK, MtxInv, ByInv, InClose, RemovableInv,
         Connect, Register, closeVars, tableVars, fileVars, refVars,
         loopVars
<1>12. ASSUME NEW t \in Threads, NEW s \in Sockets, Close(t, s)
      PROVE  RemovableInv'
  BY RegistryConstantsOK, <1>12
     DEF Threads, IInv, TypeOK, MtxInv, ByInv, InClose, RemovableInv, Close,
         EnterClose, closeVars, tableVars, fileVars, refVars, loopVars
<1>13. ASSUME NEW t \in Threads, NEW s \in Sockets, Drop(t, s)
      PROVE  RemovableInv'
  BY RegistryConstantsOK, <1>13
     DEF Threads, IInv, TypeOK, MtxInv, ByInv, InClose, RemovableInv, Drop,
         DestroyIfLast, EnterClose, closeVars, tableVars, fileVars, refVars,
         loopVars
<1>14. ASSUME NEW t \in Threads, NEW s \in Sockets, ReadRuntime(t, s)
      PROVE  RemovableInv'
  BY RegistryConstantsOK, <1>14
     DEF Threads, IInv, TypeOK, MtxInv, ByInv, InClose, RemovableInv,
         ReadRuntime, Innermost, Goto, closeVars, tableVars, fileVars,
         refVars, loopVars
<1>15. ASSUME NEW t \in Threads, NEW s \in Sockets, Deregister(t, s)
      PROVE  RemovableInv'
  BY RegistryConstantsOK, <1>15
     DEF Threads, IInv, TypeOK, MtxInv, ByInv, InClose, RemovableInv,
         Deregister, Innermost, Goto, Retires, closeVars, tableVars,
         fileVars, refVars, loopVars
<1>16. ASSUME NEW t \in Threads, NEW s \in Sockets, CloseFd(t, s)
      PROVE  RemovableInv'
  BY RegistryConstantsOK, <1>16
     DEF Threads, IInv, TypeOK, MtxInv, ByInv, InClose, RemovableInv,
         CloseFd, Innermost, Goto, closeVars, tableVars, fileVars, refVars,
         loopVars
<1>17. ASSUME NEW t \in Threads, NEW s \in Sockets, CloseReturn(t, s)
      PROVE  RemovableInv'
  BY RegistryConstantsOK, <1>17
     DEF Threads, IInv, TypeOK, MtxInv, ByInv, InClose, RemovableInv,
         CloseReturn, Innermost, closeVars, tableVars, fileVars, refVars,
         loopVars
<1>18. ASSUME UNCHANGED <<removable, at, loop, cleanup>>
      PROVE  RemovableInv'
  BY <1>18 DEF IInv, RemovableInv
<1>19. QED
  BY <1>1, <1>2, <1>3, <1>4, <1>5, <1>6, <1>7, <1>8, <1>9, <1>10, <1>11,
     <1>12, <1>13, <1>14, <1>15, <1>16, <1>17, <1>18
    DEF Next, TurnSteps, AppSteps, CloseSteps, Calls, CallbackReturn, EndpointSteps,
        Reset, VisitNothing, Visit, VisitAnswers, Submit, Drain, closeVars,
        tableVars, fileVars, refVars, loopVars

\* Every step preserves VisitInv.
LEMMA VisitInvStep ==
  ASSUME IInv, Next
  PROVE  VisitInv'
<1>1. ASSUME Poll
      PROVE  VisitInv'
  BY RegistryConstantsOK, <1>1
     DEF Threads, IInv, TypeOK, Registered, FileInv, HasFile, TableInv,
         MtxInv, VisitInv, Poll, WaitForEvents, LoopIdle, closeVars,
         tableVars, fileVars, refVars, loopVars
<1>2. ASSUME Copy
      PROVE  VisitInv'
  BY RegistryConstantsOK, <1>2
     DEF Threads, IInv, TypeOK, Registered, FileInv, HasFile, TableInv,
         MtxInv, VisitInv, Copy, LoopIdle, closeVars, tableVars, fileVars,
         refVars, loopVars
<1>3. ASSUME Clear
      PROVE  VisitInv'
  BY RegistryConstantsOK, <1>3
     DEF Threads, IInv, TypeOK, Registered, FileInv, HasFile, TableInv,
         MtxInv, VisitInv, Clear, LoopIdle, closeVars, tableVars, fileVars,
         refVars, loopVars
<1>4. ASSUME Leave
      PROVE  VisitInv'
  BY RegistryConstantsOK, <1>4
     DEF Threads, IInv, TypeOK, Registered, FileInv, HasFile, TableInv,
         MtxInv, VisitInv, Leave, LoopIdle, closeVars, tableVars, fileVars,
         refVars, loopVars
<1>5. ASSUME Release
      PROVE  VisitInv'
  BY RegistryConstantsOK, <1>5
     DEF Threads, IInv, TypeOK, Registered, FileInv, HasFile, TableInv,
         MtxInv, VisitInv, Release, TakeTables, closeVars, tableVars,
         fileVars, refVars, loopVars
<1>6. ASSUME CleanupEnd
      PROVE  VisitInv'
  BY RegistryConstantsOK, <1>6
     DEF Threads, IInv, TypeOK, Registered, FileInv, HasFile, TableInv,
         MtxInv, VisitInv, CleanupEnd, LoopIdle, closeVars, tableVars,
         fileVars, refVars, loopVars
<1>7. ASSUME EndpointSteps
      PROVE  VisitInv'
  BY RegistryConstantsOK, <1>7, EndpointStepsOnlyStart
     DEF Threads, IInv, TypeOK, Registered, FileInv, HasFile, TableInv,
         MtxInv, VisitInv, closeVars, tableVars, fileVars, refVars,
         loopVars
<1>8. ASSUME NEW s \in Sockets, NEW call \in Calls, VisitNothing(s, call)
      PROVE  VisitInv'
  BY RegistryConstantsOK, <1>8
     DEF Threads, IInv, TypeOK, Registered, FileInv, HasFile, TableInv,
         MtxInv, VisitInv, VisitNothing, Visit, LoopIdle, closeVars,
         tableVars, fileVars, refVars, loopVars
<1>9. ASSUME NEW s \in Sockets, NEW call \in Calls, VisitAnswers(s, call)
      PROVE  VisitInv'
  BY RegistryConstantsOK, <1>9
     DEF Threads, IInv, TypeOK, Registered, FileInv, HasFile, TableInv,
         MtxInv, VisitInv, VisitAnswers, Visit, LoopIdle, closeVars,
         tableVars, fileVars, refVars, loopVars
<1>10. ASSUME NEW s \in Sockets, NEW call \in Calls, VisitHangUp(s, call)
      PROVE  VisitInv'
  BY RegistryConstantsOK, <1>10
     DEF Threads, IInv, TypeOK, Registered, FileInv, HasFile, TableInv,
         MtxInv, VisitInv, VisitHangUp, Visit, EnterClose, LoopIdle,
         closeVars, tableVars, fileVars, refVars, loopVars
<1>11. ASSUME NEW s \in Sockets, NEW f \in Fds, Accept(s, f)
      PROVE  VisitInv'
  BY RegistryConstantsOK, <1>11
     DEF Threads, IInv, TypeOK, Registered, FileInv, HasFile, TableInv,
         MtxInv, VisitInv, Accept, Register, LoopIdle, closeVars, tableVars,
         fileVars, refVars, loopVars
<1>12. ASSUME NEW t \in Threads, NEW s \in Sockets, NEW f \in Fds, Connect(t, s, f)
      PROVE  VisitInv'
  BY RegistryConstantsOK, <1>12
     DEF Threads, IInv, TypeOK, Registered, FileInv, HasFile, TableInv,
         MtxInv, VisitInv, Connect, Register, closeVars, tableVars,
         fileVars, refVars, loopVars
<1>13. ASSUME NEW t \in Threads, NEW s \in Sockets, Deregister(t, s)
      PROVE  VisitInv'
  BY RegistryConstantsOK, <1>13
     DEF Threads, IInv, TypeOK, Registered, FileInv, HasFile, TableInv,
         MtxInv, VisitInv, Deregister, Innermost, Goto, Retires, closeVars,
         tableVars, fileVars, refVars, loopVars
<1>14. ASSUME UNCHANGED <<visiting, loop, handles, removable>>
      PROVE  VisitInv'
  BY <1>14 DEF IInv, VisitInv, Registered
<1>15. QED
  BY <1>1, <1>2, <1>3, <1>4, <1>5, <1>6, <1>7, <1>8, <1>9, <1>10, <1>11,
     <1>12, <1>13, <1>14
    DEF Next, TurnSteps, AppSteps, CloseSteps, Calls, CallbackReturn, EndpointSteps,
        Reset, CleanupNext, Submit, Close, Drop, ReadRuntime, CloseFd,
        Drain, CloseReturn, closeVars, tableVars, fileVars, refVars,
        loopVars

\* Every step preserves EventInv.
LEMMA EventInvStep ==
  ASSUME IInv, Next
  PROVE  EventInv'
<1>1. ASSUME Poll
      PROVE  EventInv'
  BY RegistryConstantsOK, <1>1
     DEF Threads, IInv, TypeOK, MtxInv, ByInv, InClose, TableInv, FileInv,
         HasFile, RemovableInv, VisitInv, Registered, LinkedInv, LockedInv,
         Inside, EventInv, Poll, WaitForEvents, LoopIdle, closeVars,
         tableVars, fileVars, refVars, loopVars
<1>2. ASSUME Copy
      PROVE  EventInv'
  BY RegistryConstantsOK, <1>2
     DEF Threads, IInv, TypeOK, MtxInv, ByInv, InClose, TableInv, FileInv,
         HasFile, RemovableInv, VisitInv, Registered, LinkedInv, LockedInv,
         Inside, EventInv, Copy, LoopIdle, closeVars, tableVars, fileVars,
         refVars, loopVars
<1>3. ASSUME Clear
      PROVE  EventInv'
  BY RegistryConstantsOK, <1>3
     DEF Threads, IInv, TypeOK, MtxInv, ByInv, InClose, TableInv, FileInv,
         HasFile, RemovableInv, VisitInv, Registered, LinkedInv, LockedInv,
         Inside, EventInv, Clear, LoopIdle, closeVars, tableVars, fileVars,
         refVars, loopVars
<1>4. ASSUME Leave
      PROVE  EventInv'
  BY RegistryConstantsOK, <1>4
     DEF Threads, IInv, TypeOK, MtxInv, ByInv, InClose, TableInv, FileInv,
         HasFile, RemovableInv, VisitInv, Registered, LinkedInv, LockedInv,
         Inside, EventInv, Leave, LoopIdle, closeVars, tableVars, fileVars,
         refVars, loopVars
<1>5. ASSUME Release
      PROVE  EventInv'
  BY RegistryConstantsOK, <1>5
     DEF Threads, IInv, TypeOK, MtxInv, ByInv, InClose, TableInv, FileInv,
         HasFile, RemovableInv, VisitInv, Registered, LinkedInv, LockedInv,
         Inside, EventInv, Release, TakeTables, closeVars, tableVars,
         fileVars, refVars, loopVars
<1>6. ASSUME CleanupEnd
      PROVE  EventInv'
  BY RegistryConstantsOK, <1>6
     DEF Threads, IInv, TypeOK, MtxInv, ByInv, InClose, TableInv, FileInv,
         HasFile, RemovableInv, VisitInv, Registered, LinkedInv, LockedInv,
         Inside, EventInv, CleanupEnd, LoopIdle, closeVars, tableVars,
         fileVars, refVars, loopVars
<1>7. ASSUME EndpointSteps
      PROVE  EventInv'
  BY RegistryConstantsOK, <1>7, EndpointStepsOnlyStart
     DEF Threads, IInv, TypeOK, MtxInv, ByInv, InClose, TableInv, FileInv,
         HasFile, RemovableInv, VisitInv, Registered, LinkedInv, LockedInv,
         Inside, EventInv, closeVars, tableVars, fileVars, refVars,
         loopVars
<1>8. ASSUME NEW s \in Sockets, CleanupNext(s)
      PROVE  EventInv'
  BY RegistryConstantsOK, <1>8
     DEF Threads, IInv, TypeOK, MtxInv, ByInv, InClose, TableInv, FileInv,
         HasFile, RemovableInv, VisitInv, Registered, LinkedInv, LockedInv,
         Inside, EventInv, CleanupNext, DestroyIfLast, EnterClose, LoopIdle,
         closeVars, tableVars, fileVars, refVars, loopVars
<1>9. ASSUME NEW s \in Sockets, NEW call \in Calls, VisitHangUp(s, call)
      PROVE  EventInv'
  <2>1. at[s] = "open" /\ s \in Registered \cup removable /\ loop = "dispatch"
    BY <1>9 DEF VisitHangUp, Visit, EnterClose, IInv, VisitInv
  <2>2. fd[s] \in Fds /\ handles[fd[s]] = s
    BY RegistryConstantsOK, <2>1 DEF IInv, RemovableInv, TableInv, Registered
  <2>3. /\ at' = [at EXCEPT ![s] = "runtime"] /\ by' = [by EXCEPT ![s] = Loop]
        /\ how' = [how EXCEPT ![s] = "event"]
        /\ UNCHANGED <<loop, handles, fd, removable>>
    BY <1>9 DEF VisitHangUp, Visit, EnterClose, tableVars, fileVars
  <2>4. QED
    BY <2>1, <2>2, <2>3 DEF IInv, TypeOK, EventInv
<1>10. ASSUME NEW s \in Sockets, NEW f \in Fds, Accept(s, f)
      PROVE  EventInv'
  BY RegistryConstantsOK, <1>10
     DEF Threads, IInv, TypeOK, MtxInv, ByInv, InClose, TableInv, FileInv,
         HasFile, RemovableInv, VisitInv, Registered, LinkedInv, LockedInv,
         Inside, EventInv, Accept, Register, LoopIdle, closeVars, tableVars,
         fileVars, refVars, loopVars
<1>11. ASSUME NEW t \in Threads, NEW s \in Sockets, NEW f \in Fds, Connect(t, s, f)
      PROVE  EventInv'
  BY RegistryConstantsOK, <1>11
     DEF Threads, IInv, TypeOK, MtxInv, ByInv, InClose, TableInv, FileInv,
         HasFile, RemovableInv, VisitInv, Registered, LinkedInv, LockedInv,
         Inside, EventInv, Connect, Register, closeVars, tableVars,
         fileVars, refVars, loopVars
<1>12. ASSUME NEW t \in Threads, NEW s \in Sockets, Close(t, s)
      PROVE  EventInv'
  BY RegistryConstantsOK, <1>12
     DEF Threads, IInv, TypeOK, MtxInv, ByInv, InClose, TableInv, FileInv,
         HasFile, RemovableInv, VisitInv, Registered, LinkedInv, LockedInv,
         Inside, EventInv, Close, EnterClose, closeVars, tableVars,
         fileVars, refVars, loopVars
<1>13. ASSUME NEW t \in Threads, NEW s \in Sockets, Drop(t, s)
      PROVE  EventInv'
  BY RegistryConstantsOK, <1>13
     DEF Threads, IInv, TypeOK, MtxInv, ByInv, InClose, TableInv, FileInv,
         HasFile, RemovableInv, VisitInv, Registered, LinkedInv, LockedInv,
         Inside, EventInv, Drop, DestroyIfLast, EnterClose, closeVars,
         tableVars, fileVars, refVars, loopVars
<1>14. ASSUME NEW t \in Threads, NEW s \in Sockets, ReadRuntime(t, s)
      PROVE  EventInv'
  BY RegistryConstantsOK, <1>14
     DEF Threads, IInv, TypeOK, MtxInv, ByInv, InClose, TableInv, FileInv,
         HasFile, RemovableInv, VisitInv, Registered, LinkedInv, LockedInv,
         Inside, EventInv, ReadRuntime, Innermost, Goto, closeVars,
         tableVars, fileVars, refVars, loopVars
<1>15. ASSUME NEW t \in Threads, NEW s \in Sockets, Deregister(t, s)
      PROVE  EventInv'
  BY RegistryConstantsOK, <1>15
     DEF Threads, IInv, TypeOK, MtxInv, ByInv, InClose, TableInv, FileInv,
         HasFile, RemovableInv, VisitInv, Registered, LinkedInv, LockedInv,
         Inside, EventInv, Deregister, Innermost, Goto, Retires, closeVars,
         tableVars, fileVars, refVars, loopVars
<1>16. ASSUME NEW t \in Threads, NEW s \in Sockets, CloseFd(t, s)
      PROVE  EventInv'
  BY RegistryConstantsOK, <1>16
     DEF Threads, IInv, TypeOK, MtxInv, ByInv, InClose, TableInv, FileInv,
         HasFile, RemovableInv, VisitInv, Registered, LinkedInv, LockedInv,
         Inside, EventInv, CloseFd, Innermost, Goto, closeVars, tableVars,
         fileVars, refVars, loopVars
<1>17. ASSUME NEW t \in Threads, NEW s \in Sockets, CloseReturn(t, s)
      PROVE  EventInv'
  BY RegistryConstantsOK, <1>17
     DEF Threads, IInv, TypeOK, MtxInv, ByInv, InClose, TableInv, FileInv,
         HasFile, RemovableInv, VisitInv, Registered, LinkedInv, LockedInv,
         Inside, EventInv, CloseReturn, Innermost, closeVars, tableVars,
         fileVars, refVars, loopVars
<1>18. ASSUME UNCHANGED <<by, how, loop, at, handles, fd, removable>>
      PROVE  EventInv'
  BY <1>18 DEF IInv, EventInv
<1>19. QED
  BY <1>1, <1>2, <1>3, <1>4, <1>5, <1>6, <1>7, <1>8, <1>9, <1>10, <1>11,
     <1>12, <1>13, <1>14, <1>15, <1>16, <1>17, <1>18
    DEF Next, TurnSteps, AppSteps, CloseSteps, Calls, CallbackReturn, EndpointSteps,
        Reset, VisitNothing, Visit, VisitAnswers, Submit, Drain, closeVars,
        tableVars, fileVars, refVars, loopVars

\* Every step preserves OpenInv.
LEMMA OpenInvStep ==
  ASSUME IInv, Next
  PROVE  OpenInv'
<1>1. ASSUME Clear
      PROVE  OpenInv'
  BY RegistryConstantsOK, <1>1
     DEF Threads, IInv, TypeOK, Kept, Registered, RemovableInv, TableInv,
         ByInv, InClose, FileInv, HasFile, MtxInv, OpenInv, Clear, LoopIdle,
         closeVars, tableVars, fileVars, refVars, loopVars
<1>2. ASSUME Release
      PROVE  OpenInv'
  BY RegistryConstantsOK, <1>2
     DEF Threads, IInv, TypeOK, Kept, Registered, RemovableInv, TableInv,
         ByInv, InClose, FileInv, HasFile, MtxInv, OpenInv, Release,
         TakeTables, closeVars, tableVars, fileVars, refVars, loopVars
<1>3. ASSUME NEW s \in Sockets, CleanupNext(s)
      PROVE  OpenInv'
  BY RegistryConstantsOK, <1>3
     DEF Threads, IInv, TypeOK, Kept, Registered, RemovableInv, TableInv,
         ByInv, InClose, FileInv, HasFile, MtxInv, OpenInv, CleanupNext,
         DestroyIfLast, EnterClose, LoopIdle, closeVars, tableVars,
         fileVars, refVars, loopVars
<1>4. ASSUME NEW s \in Sockets, NEW call \in Calls, VisitAnswers(s, call)
      PROVE  OpenInv'
  BY RegistryConstantsOK, <1>4
     DEF Threads, IInv, TypeOK, Kept, Registered, RemovableInv, TableInv,
         ByInv, InClose, FileInv, HasFile, MtxInv, OpenInv, VisitAnswers,
         Visit, LoopIdle, closeVars, tableVars, fileVars, refVars, loopVars
<1>5. ASSUME NEW s \in Sockets, NEW call \in Calls, VisitHangUp(s, call)
      PROVE  OpenInv'
  BY RegistryConstantsOK, <1>5
     DEF Threads, IInv, TypeOK, Kept, Registered, RemovableInv, TableInv,
         ByInv, InClose, FileInv, HasFile, MtxInv, OpenInv, VisitHangUp,
         Visit, EnterClose, LoopIdle, closeVars, tableVars, fileVars,
         refVars, loopVars
<1>6. ASSUME NEW s \in Sockets, NEW f \in Fds, Accept(s, f)
      PROVE  OpenInv'
  BY RegistryConstantsOK, <1>6
     DEF Threads, IInv, TypeOK, Kept, Registered, RemovableInv, TableInv,
         ByInv, InClose, FileInv, HasFile, MtxInv, OpenInv, Accept,
         Register, LoopIdle, closeVars, tableVars, fileVars, refVars,
         loopVars
<1>7. ASSUME NEW t \in Threads, NEW s \in Sockets, NEW f \in Fds, Connect(t, s, f)
      PROVE  OpenInv'
  BY RegistryConstantsOK, <1>7
     DEF Threads, IInv, TypeOK, Kept, Registered, RemovableInv, TableInv,
         ByInv, InClose, FileInv, HasFile, MtxInv, OpenInv, Connect,
         Register, closeVars, tableVars, fileVars, refVars, loopVars
<1>8. ASSUME NEW t \in Threads, NEW s \in Sockets, Submit(t, s)
      PROVE  OpenInv'
  BY RegistryConstantsOK, <1>8
     DEF Threads, IInv, TypeOK, Kept, Registered, RemovableInv, TableInv,
         ByInv, InClose, FileInv, HasFile, MtxInv, OpenInv, Submit,
         closeVars, tableVars, fileVars, refVars, loopVars
<1>9. ASSUME NEW t \in Threads, NEW s \in Sockets, Close(t, s)
      PROVE  OpenInv'
  BY RegistryConstantsOK, <1>9
     DEF Threads, IInv, TypeOK, Kept, Registered, RemovableInv, TableInv,
         ByInv, InClose, FileInv, HasFile, MtxInv, OpenInv, Close,
         EnterClose, closeVars, tableVars, fileVars, refVars, loopVars
<1>10. ASSUME NEW t \in Threads, NEW s \in Sockets, Drop(t, s)
      PROVE  OpenInv'
  BY RegistryConstantsOK, <1>10
     DEF Threads, IInv, TypeOK, Kept, Registered, RemovableInv, TableInv,
         ByInv, InClose, FileInv, HasFile, MtxInv, OpenInv, Drop,
         DestroyIfLast, EnterClose, closeVars, tableVars, fileVars, refVars,
         loopVars
<1>11. ASSUME NEW t \in Threads, NEW s \in Sockets, ReadRuntime(t, s)
      PROVE  OpenInv'
  BY RegistryConstantsOK, <1>11
     DEF Threads, IInv, TypeOK, Kept, Registered, RemovableInv, TableInv,
         ByInv, InClose, FileInv, HasFile, MtxInv, OpenInv, ReadRuntime,
         Innermost, Goto, closeVars, tableVars, fileVars, refVars, loopVars
<1>12. ASSUME NEW t \in Threads, NEW s \in Sockets, Deregister(t, s)
      PROVE  OpenInv'
  BY RegistryConstantsOK, <1>12
     DEF Threads, IInv, TypeOK, Kept, Registered, RemovableInv, TableInv,
         ByInv, InClose, FileInv, HasFile, MtxInv, OpenInv, Deregister,
         Innermost, Goto, Retires, closeVars, tableVars, fileVars, refVars,
         loopVars
<1>13. ASSUME NEW t \in Threads, NEW s \in Sockets, CloseFd(t, s)
      PROVE  OpenInv'
  BY RegistryConstantsOK, <1>13
     DEF Threads, IInv, TypeOK, Kept, Registered, RemovableInv, TableInv,
         ByInv, InClose, FileInv, HasFile, MtxInv, OpenInv, CloseFd,
         Innermost, Goto, closeVars, tableVars, fileVars, refVars, loopVars
<1>14. ASSUME NEW t \in Threads, NEW s \in Sockets, Drain(t, s)
      PROVE  OpenInv'
  BY RegistryConstantsOK, <1>14
     DEF Threads, IInv, TypeOK, Kept, Registered, RemovableInv, TableInv,
         ByInv, InClose, FileInv, HasFile, MtxInv, OpenInv, Drain,
         Innermost, closeVars, tableVars, fileVars, refVars, loopVars
<1>15. ASSUME NEW t \in Threads, NEW s \in Sockets, CloseReturn(t, s)
      PROVE  OpenInv'
  BY RegistryConstantsOK, <1>15
     DEF Threads, IInv, TypeOK, Kept, Registered, RemovableInv, TableInv,
         ByInv, InClose, FileInv, HasFile, MtxInv, OpenInv, CloseReturn,
         Innermost, closeVars, tableVars, fileVars, refVars, loopVars
<1>16. ASSUME UNCHANGED <<at, held, cleanup, pending, removable, handles, by, how>>
      PROVE  OpenInv'
  BY <1>16 DEF IInv, OpenInv, Kept, Registered
<1>17. QED
  BY <1>1, <1>2, <1>3, <1>4, <1>5, <1>6, <1>7, <1>8, <1>9, <1>10, <1>11,
     <1>12, <1>13, <1>14, <1>15, <1>16, EndpointStepsOnlyStart
    DEF Next, TurnSteps, AppSteps, CloseSteps, Calls, Poll, WaitForEvents,
        Copy, Leave, CleanupEnd, CallbackReturn, EndpointSteps, Reset,
        VisitNothing, Visit, closeVars, tableVars, fileVars, refVars, loopVars

\* Every step preserves LockedInv.
LEMMA LockedInvStep ==
  ASSUME IInv, Next
  PROVE  LockedInv'
<1>1. ASSUME Poll
      PROVE  LockedInv'
  BY RegistryConstantsOK, <1>1
     DEF Threads, IInv, TypeOK, Inside, MtxInv, TableInv, Registered,
         LinkedInv, RemovableInv, RunsAppCode, Innermost, ByInv, InClose,
         LockedInv, Poll, WaitForEvents, LoopIdle, closeVars, tableVars,
         fileVars, refVars, loopVars
<1>2. ASSUME Copy
      PROVE  LockedInv'
  BY RegistryConstantsOK, <1>2
     DEF Threads, IInv, TypeOK, Inside, MtxInv, TableInv, Registered,
         LinkedInv, RemovableInv, RunsAppCode, Innermost, ByInv, InClose,
         LockedInv, Copy, LoopIdle, closeVars, tableVars, fileVars, refVars,
         loopVars
<1>3. ASSUME Clear
      PROVE  LockedInv'
  BY RegistryConstantsOK, <1>3
     DEF Threads, IInv, TypeOK, Inside, MtxInv, TableInv, Registered,
         LinkedInv, RemovableInv, RunsAppCode, Innermost, ByInv, InClose,
         LockedInv, Clear, LoopIdle, closeVars, tableVars, fileVars,
         refVars, loopVars
<1>4. ASSUME Leave
      PROVE  LockedInv'
  BY RegistryConstantsOK, <1>4
     DEF Threads, IInv, TypeOK, Inside, MtxInv, TableInv, Registered,
         LinkedInv, RemovableInv, RunsAppCode, Innermost, ByInv, InClose,
         LockedInv, Leave, LoopIdle, closeVars, tableVars, fileVars,
         refVars, loopVars
<1>5. ASSUME Release
      PROVE  LockedInv'
  BY RegistryConstantsOK, <1>5
     DEF Threads, IInv, TypeOK, Inside, MtxInv, TableInv, Registered,
         LinkedInv, RemovableInv, RunsAppCode, Innermost, ByInv, InClose,
         LockedInv, Release, TakeTables, closeVars, tableVars, fileVars,
         refVars, loopVars
<1>6. ASSUME CleanupEnd
      PROVE  LockedInv'
  BY RegistryConstantsOK, <1>6
     DEF Threads, IInv, TypeOK, Inside, MtxInv, TableInv, Registered,
         LinkedInv, RemovableInv, RunsAppCode, Innermost, ByInv, InClose,
         LockedInv, CleanupEnd, LoopIdle, closeVars, tableVars, fileVars,
         refVars, loopVars
<1>7. ASSUME EndpointSteps
      PROVE  LockedInv'
  BY RegistryConstantsOK, <1>7, EndpointStepsOnlyStart
     DEF Threads, IInv, TypeOK, Inside, MtxInv, TableInv, Registered,
         LinkedInv, RemovableInv, RunsAppCode, Innermost, ByInv, InClose,
         LockedInv, closeVars, tableVars, fileVars, refVars,
         loopVars
<1>8. ASSUME NEW s \in Sockets, Reset(s)
      PROVE  LockedInv'
  BY RegistryConstantsOK, <1>8
     DEF Threads, IInv, TypeOK, Inside, MtxInv, TableInv, Registered,
         LinkedInv, RemovableInv, RunsAppCode, Innermost, ByInv, InClose,
         LockedInv, Reset, closeVars, tableVars, fileVars, refVars, loopVars
<1>9. ASSUME NEW s \in Sockets, CleanupNext(s)
      PROVE  LockedInv'
  BY RegistryConstantsOK, <1>9
     DEF Threads, IInv, TypeOK, Inside, MtxInv, TableInv, Registered,
         LinkedInv, RemovableInv, RunsAppCode, Innermost, ByInv, InClose,
         LockedInv, CleanupNext, DestroyIfLast, EnterClose, LoopIdle,
         closeVars, tableVars, fileVars, refVars, loopVars
<1>10. ASSUME NEW s \in Sockets, NEW call \in Calls, VisitHangUp(s, call)
      PROVE  LockedInv'
  BY RegistryConstantsOK, <1>10
     DEF Threads, IInv, TypeOK, Inside, MtxInv, TableInv, Registered,
         LinkedInv, RemovableInv, RunsAppCode, Innermost, ByInv, InClose,
         LockedInv, VisitHangUp, Visit, EnterClose, LoopIdle, closeVars,
         tableVars, fileVars, refVars, loopVars
<1>11. ASSUME NEW s \in Sockets, NEW f \in Fds, Accept(s, f)
      PROVE  LockedInv'
  BY RegistryConstantsOK, <1>11
     DEF Threads, IInv, TypeOK, Inside, MtxInv, TableInv, Registered,
         LinkedInv, RemovableInv, RunsAppCode, Innermost, ByInv, InClose,
         LockedInv, Accept, Register, LoopIdle, closeVars, tableVars,
         fileVars, refVars, loopVars
<1>12. ASSUME NEW t \in Threads, NEW s \in Sockets, NEW f \in Fds, Connect(t, s, f)
      PROVE  LockedInv'
  BY RegistryConstantsOK, <1>12
     DEF Threads, IInv, TypeOK, Inside, MtxInv, TableInv, Registered,
         LinkedInv, RemovableInv, RunsAppCode, Innermost, ByInv, InClose,
         LockedInv, Connect, Register, closeVars, tableVars, fileVars,
         refVars, loopVars
<1>13. ASSUME NEW t \in Threads, NEW s \in Sockets, Close(t, s)
      PROVE  LockedInv'
  BY RegistryConstantsOK, <1>13
     DEF Threads, IInv, TypeOK, Inside, MtxInv, TableInv, Registered,
         LinkedInv, RemovableInv, RunsAppCode, Innermost, ByInv, InClose,
         LockedInv, Close, EnterClose, closeVars, tableVars, fileVars,
         refVars, loopVars
<1>14. ASSUME NEW t \in Threads, NEW s \in Sockets, Drop(t, s)
      PROVE  LockedInv'
  BY RegistryConstantsOK, <1>14
     DEF Threads, IInv, TypeOK, Inside, MtxInv, TableInv, Registered,
         LinkedInv, RemovableInv, RunsAppCode, Innermost, ByInv, InClose,
         LockedInv, Drop, DestroyIfLast, EnterClose, closeVars, tableVars,
         fileVars, refVars, loopVars
<1>15. ASSUME NEW t \in Threads, NEW s \in Sockets, ReadRuntime(t, s)
      PROVE  LockedInv'
  BY RegistryConstantsOK, <1>15
     DEF Threads, IInv, TypeOK, Inside, MtxInv, TableInv, Registered,
         LinkedInv, RemovableInv, RunsAppCode, Innermost, ByInv, InClose,
         LockedInv, ReadRuntime, Goto, closeVars, tableVars, fileVars,
         refVars, loopVars
<1>16. ASSUME NEW t \in Threads, NEW s \in Sockets, Deregister(t, s)
      PROVE  LockedInv'
  BY RegistryConstantsOK, <1>16
     DEF Threads, IInv, TypeOK, Inside, MtxInv, TableInv, Registered,
         LinkedInv, RemovableInv, RunsAppCode, Innermost, ByInv, InClose,
         LockedInv, Deregister, Goto, Retires, closeVars, tableVars,
         fileVars, refVars, loopVars
<1>17. ASSUME NEW t \in Threads, NEW s \in Sockets, CloseFd(t, s)
      PROVE  LockedInv'
  BY RegistryConstantsOK, <1>17
     DEF Threads, IInv, TypeOK, Inside, MtxInv, TableInv, Registered,
         LinkedInv, RemovableInv, RunsAppCode, Innermost, ByInv, InClose,
         LockedInv, CloseFd, Goto, closeVars, tableVars, fileVars, refVars,
         loopVars
<1>18. ASSUME NEW t \in Threads, NEW s \in Sockets, CloseReturn(t, s)
      PROVE  LockedInv'
  BY RegistryConstantsOK, <1>18
     DEF Threads, IInv, TypeOK, Inside, MtxInv, TableInv, Registered,
         LinkedInv, RemovableInv, RunsAppCode, Innermost, ByInv, InClose,
         LockedInv, CloseReturn, closeVars, tableVars, fileVars, refVars,
         loopVars
<1>19. ASSUME UNCHANGED <<loop, by, linked, at>>
      PROVE  LockedInv'
  BY <1>19 DEF IInv, LockedInv, Inside
<1>20. QED
  BY <1>1, <1>2, <1>3, <1>4, <1>5, <1>6, <1>7, <1>8, <1>9, <1>10, <1>11,
     <1>12, <1>13, <1>14, <1>15, <1>16, <1>17, <1>18, <1>19
    DEF Next, TurnSteps, AppSteps, CloseSteps, Calls, CallbackReturn,
        EndpointSteps, VisitNothing, Visit, VisitAnswers, Submit, Drain, closeVars,
        tableVars, fileVars, refVars, loopVars

-----------------------------------------------------------------------------
\* The inductive invariant holds at the start.
LEMMA IInvInit == Init => IInv
<1>1. SUFFICES ASSUME Init PROVE IInv
  OBVIOUS
<1>2. TypeOK
  BY <1>1, RegistryConstantsOK DEF Init, TypeOK, Threads
<1>3. MtxInv /\ ByInv /\ FileInv /\ TableInv /\ LinkedInv
  BY <1>1, RegistryConstantsOK
     DEF Init, MtxInv, ByInv, FileInv, TableInv, LinkedInv, InClose, HasFile,
         Threads
<1>4. RemovableInv /\ VisitInv /\ EventInv /\ OpenInv /\ LockedInv
  BY <1>1, RegistryConstantsOK
     DEF Init, RemovableInv, VisitInv, EventInv, OpenInv, LockedInv, Inside,
         Threads
<1>5. QED
  BY <1>2, <1>3, <1>4 DEF IInv

\* Every step, and every stuttering step, preserves it.
LEMMA IInvStep == IInv /\ [Next]_vars => IInv'
<1>1. ASSUME IInv, Next PROVE IInv'
  BY <1>1, TypeOKStep, MtxInvStep, ByInvStep, FileInvStep, TableInvStep,
     LinkedInvStep, RemovableInvStep, VisitInvStep, EventInvStep, OpenInvStep,
     LockedInvStep
     DEF IInv
<1>2. ASSUME IInv, UNCHANGED vars PROVE IInv'
  <2>1. /\ TypeOK' /\ MtxInv' /\ ByInv' /\ FileInv' /\ TableInv'
    BY <1>2 DEF IInv, vars, closeVars, tableVars, fileVars, refVars, loopVars,
                TypeOK, MtxInv, ByInv, FileInv, TableInv
  <2>2. LinkedInv' /\ RemovableInv' /\ VisitInv' /\ EventInv'
    BY <1>2 DEF IInv, vars, closeVars, tableVars, fileVars, refVars, loopVars,
                LinkedInv, RemovableInv, VisitInv, EventInv, Registered
  <2>3. OpenInv' /\ LockedInv'
    BY <1>2 DEF IInv, vars, closeVars, tableVars, fileVars, refVars, loopVars,
                OpenInv, LockedInv, Kept, Registered, Inside
  <2>4. QED
    BY <2>1, <2>2, <2>3 DEF IInv
<1>3. QED
  BY <1>1, <1>2

\* IInv holds in every state of every behaviour.
LEMMA IInvAlways == Spec => []IInv
  BY IInvInit, IInvStep, PTL DEF Spec

-----------------------------------------------------------------------------
\* Type correctness of the sockets' lives and of the runtime's tables.
THEOREM TypeCorrect == Spec => []TypeOK
<1>1. IInv => TypeOK
  BY DEF IInv
<1>2. QED
  BY <1>1, IInvAlways, PTL

\* The references that the invariant speaks of keep what is in use.
LEMMA KeptWhenUsed == IInv => NoDangling
<1>1. SUFFICES ASSUME IInv PROVE NoDangling
  OBVIOUS
<1>2. ASSUME NEW v \in visiting PROVE Alive(v[1])
  <2>1. v[1] \in Sockets /\ v[1] \in Registered \cup removable
    BY <1>1 DEF IInv, TypeOK, VisitInv, Registered
  <2>2. at[v[1]] # "unborn"
    BY <1>1, <2>1, RegistryConstantsOK
       DEF IInv, RemovableInv, TableInv, Registered
  <2>3. QED
    BY <2>1, <2>2 DEF Alive, Kept
<1>3. ASSUME NEW s \in Sockets, by[s] # None PROVE Alive(s)
  <2>1. at[s] # "unborn"
    BY <1>1, <1>3 DEF IInv, ByInv, InClose
  <2>2. CASE how[s] = "owner"
    BY <1>3, <2>1, <2>2 DEF Alive, Kept
  <2>3. CASE how[s] = "destructor"
    BY <1>3, <2>1, <2>3 DEF Alive
  <2>4. CASE how[s] = "event"
    <3>1. s \in Registered \cup removable
      BY <1>1, <1>3, <2>4 DEF IInv, EventInv, Registered
    <3>2. QED
      BY <2>1, <3>1 DEF Alive, Kept
  <2>5. QED
    BY <1>1, <2>2, <2>3, <2>4 DEF IInv, TypeOK
<1>4. QED
  BY <1>2, <1>3 DEF NoDangling

\* Whatever callbacks and other threads close and drop during a turn of exec,
\* removable_handles_ and the table keep every object to which the loop still
\* has a raw pointer, and every object that a thread is closing.
THEOREM NothingDangles == Spec => []NoDangling
  BY KeptWhenUsed, IInvAlways, PTL

\* Whoever drops the last reference to a socket, on whatever thread, its
\* destructor closes the file: no descriptor is left open without its socket.
THEOREM NoFileIsLost == Spec => []NoFileLost
<1>1. IInv => NoFileLost
  <2>1. SUFFICES ASSUME IInv, NEW f \in Fds, owner[f] # None
                 PROVE  Alive(owner[f])
    BY DEF NoFileLost
  <2>2. owner[f] \in Sockets /\ at[owner[f]] \in HasFile
    BY <2>1 DEF IInv, TypeOK, FileInv
  <2>3. CASE at[owner[f]] = "open"
    BY <2>1, <2>2, <2>3 DEF IInv, OpenInv, Alive
  <2>4. CASE at[owner[f]] # "open"
    <3>1. by[owner[f]] # None
      BY <2>1, <2>2, <2>4 DEF IInv, ByInv, InClose, HasFile
    <3>2. NoDangling
      BY <2>1, KeptWhenUsed
    <3>3. QED
      BY <2>2, <3>1, <3>2 DEF NoDangling
  <2>5. QED
    BY <2>3, <2>4
<1>2. QED
  BY <1>1, IInvAlways, PTL

\* The destructors that clear() and release_all_handles run with handles_mtx_
\* held, and what their callbacks close, never lock that mutex again.
THEOREM NeverRelocks == Spec => []NoRelock
<1>1. IInv => NoRelock
  BY DEF IInv, MtxInv, LockedInv, NoRelock
<1>2. QED
  BY <1>1, IInvAlways, PTL

\* register_handle replaces no entry: the number of a new descriptor is out of
\* the table before the kernel can give it out again.
THEOREM FreshNumbers == Spec => NumbersAreFresh
<1>1. ASSUME IInv, [Next]_vars
      PROVE  [\A f \in Fds : handles'[f] \notin {handles[f], None}
                           => handles[f] = None]_vars
  <2>1. ASSUME NEW s \in Sockets, NEW f \in Fds, Register(s, f),
               NEW g \in Fds, handles'[g] \notin {handles[g], None}
        PROVE  handles[g] = None
    <3>1. g = f
      BY <1>1, <2>1 DEF IInv, TypeOK, Register
    <3>2. CASE handles[f] # None
      <4>1. /\ handles[f] \in Sockets /\ fd[handles[f]] = f
            /\ at[handles[f]] \in HasFile
        BY <1>1, <2>1, <3>2, RegistryConstantsOK
           DEF IInv, TypeOK, TableInv, MtxInv, Register, HasFile, Threads
      <4>2. owner[f] = handles[f]
        BY <1>1, <4>1 DEF IInv, FileInv
      <4>3. QED
        BY <2>1, <3>2, <4>2 DEF Register
    <3>3. QED
      BY <3>1, <3>2
  <2>2. ASSUME UNCHANGED handles
        PROVE  \A f \in Fds : handles'[f] \notin {handles[f], None}
                             => handles[f] = None
    BY <2>2
  <2>3. ASSUME Release \/ \E t \in Threads, s \in Sockets : Deregister(t, s)
        PROVE  \A f \in Fds : handles'[f] \notin {handles[f], None}
                             => handles[f] = None
    BY <1>1, <2>3
       DEF IInv, TypeOK, Release, TakeTables, Deregister, Innermost, tableVars
  <2>4. CASE Next
    <3>1. \/ UNCHANGED handles
          \/ Release \/ \E t \in Threads, s \in Sockets : Deregister(t, s)
          \/ \E s \in Sockets, f \in Fds : Register(s, f)
      BY <2>4, EndpointStepsOnlyStart
        DEF Next, TurnSteps, AppSteps, CloseSteps, Poll, WaitForEvents, Copy,
            Clear, Leave, CleanupEnd, CallbackReturn, EndpointSteps, Reset,
            CleanupNext, VisitNothing, VisitAnswers, VisitHangUp, Visit,
            Accept, Connect, Submit, Close, Drop, ReadRuntime, CloseFd, Drain,
            CloseReturn, tableVars
    <3>2. QED
      BY <2>1, <2>2, <2>3, <3>1
  <2>5. QED
    BY <1>1, <2>2, <2>4 DEF vars, tableVars
<1>2. QED
  BY <1>1, IInvAlways, PTL DEF Spec, NumbersAreFresh
=============================================================================
