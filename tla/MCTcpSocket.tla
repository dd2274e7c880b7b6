---------------------------- MODULE MCTcpSocket ----------------------------
(***************************************************************************)
(* Instances of TcpSocket for TLC: which operations there are, and what    *)
(* each of them asks for.                                                  *)
(***************************************************************************)
EXTENDS TcpSocket, TLC

CONSTANTS r1, r2, w0, w1, w2

Given(f) == [op \in Ops |-> f[op]]

MCDir == Given((r1 :> "read") @@ (r2 :> "read") @@ (w0 :> "write") @@
               (w1 :> "write") @@ (w2 :> "write"))

\* r1 asks for two bytes, r2 for one, w0 for none.
MCSize == Given((r1 :> 2) @@ (r2 :> 1) @@ (w0 :> 0) @@ (w1 :> 2) @@ (w2 :> 1))

\* async_read_some and async_write_some only.
AllTry == [op \in Ops |-> FALSE]

\* The two-byte operations are async_read and async_write.
TwoByteUntil == [op \in Ops |-> MCSize[op] = 2]
=============================================================================
