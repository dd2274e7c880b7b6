---------------------------- MODULE HttpExchange ----------------------------
(***************************************************************************)
(* What a peer may rely on in a connection of the HTTP examples, with no   *)
(* sockets, buffers, parsers or threads: requests and responses take       *)
(* turns, what a response announces is what follows it, and a connection   *)
(* that has ended does not come back.                                      *)
(***************************************************************************)

VARIABLES awaits,     \* what the connection waits for, or "none" at its end
          announces   \* it goes on after the response (Keep-Alive)

evars == <<awaits, announces>>

ExchangeInit == awaits = "header" /\ announces = FALSE

\* A request: its body follows, or the response; it may end the connection.
HeaderArrives ==
  /\ awaits = "header"
  /\ awaits' \in {"body", "write", "none"}
  /\ announces' \in BOOLEAN

BodyArrives ==
  /\ awaits = "body"
  /\ awaits' \in {"write", "none"}
  /\ UNCHANGED announces

\* Only a response that announces it is followed by another request.
ResponseLeaves ==
  /\ awaits = "write" /\ announces
  /\ awaits' = "header"
  /\ UNCHANGED announces

Ends ==
  /\ awaits # "none"
  /\ awaits' = "none"
  /\ UNCHANGED announces

ExchangeNext == HeaderArrives \/ BodyArrives \/ ResponseLeaves \/ Ends

ExchangeSpec == ExchangeInit /\ [][ExchangeNext]_evars
=============================================================================
