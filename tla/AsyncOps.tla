------------------------------ MODULE AsyncOps ------------------------------
(***************************************************************************)
(* What a socket promises to the code that starts asynchronous operations  *)
(* on it (include/spinet/core/tcp_socket.h), with no threads, mutexes,     *)
(* queues or file descriptors: an operation is accepted or refused, an     *)
(* accepted one is completed by one call of its callback or is cancelled,  *)
(* and once the socket has been closed every operation that is still       *)
(* accepted is completed.                                                  *)
(***************************************************************************)
EXTENDS Naturals

CONSTANT Ops            \* the asynchronous operations of one socket

VARIABLES open,         \* no call of close() has taken effect yet
          phase,        \* what became of each operation
          called        \* how often each operation's callback was called

avars == <<open, phase, called>>

Phases == {"new", "accepted", "refused", "cancelled", "completed"}

AbsInit ==
  /\ open = TRUE
  /\ phase = [op \in Ops |-> "new"]
  /\ called = [op \in Ops |-> 0]

\* async_read, async_read_some, async_write or async_write_some returned true.
Accept(op) ==
  /\ open
  /\ phase[op] = "new"
  /\ phase' = [phase EXCEPT ![op] = "accepted"]
  /\ UNCHANGED <<open, called>>

\* One of them returned false.
Refuse(op) ==
  /\ ~open
  /\ phase[op] = "new"
  /\ phase' = [phase EXCEPT ![op] = "refused"]
  /\ UNCHANGED <<open, called>>

\* The operation's callback is called, with success or with an error.
Complete(op) ==
  /\ phase[op] = "accepted"
  /\ phase' = [phase EXCEPT ![op] = "completed"]
  /\ called' = [called EXCEPT ![op] = @ + 1]
  /\ UNCHANGED open

\* cancel() discards accepted operations; their callbacks are never called.
Discard(S) ==
  /\ \A op \in S : phase[op] = "accepted"
  /\ phase' = [op \in Ops |-> IF op \in S THEN "cancelled" ELSE phase[op]]
  /\ UNCHANGED <<open, called>>

Close ==
  /\ open
  /\ open' = FALSE
  /\ UNCHANGED <<phase, called>>

AbsNext ==
  \/ \E op \in Ops : Accept(op) \/ Refuse(op) \/ Complete(op)
  \/ \E S \in (SUBSET Ops) \ {{}} : Discard(S)
  \/ Close

AbsSafety == AbsInit /\ [][AbsNext]_avars

\* Closing the socket completes what it had accepted.
AbsFairness == \A op \in Ops : WF_avars(~open /\ Complete(op))

AbsSpec == AbsSafety /\ AbsFairness

=============================================================================
