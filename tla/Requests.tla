------------------------------ MODULE Requests ------------------------------
(***************************************************************************)
(* What the queues between the connections and the scene hold for one of   *)
(* them.  Module Uplink speaks of nothing else; the modules Gateway and    *)
(* Session say by these operators what they implement it with.             *)
(***************************************************************************)
EXTENDS Integers, Sequences

\* What a frame or an input asks of the scene for connection c, if it is one
\* of its own: a LoginReq becomes a join, a Spectate goes no further.
Ask(c, in) ==
  IF in.id # c \/ in.kind = "spectate" THEN <<>>
  ELSE <<IF in.kind = "login" THEN "join" ELSE in.kind>>

\* What the queue q asks for c, the oldest first.
Asks(c, q) ==
  LET first[n \in 0 .. Len(q)] ==
        IF n = 0 THEN <<>> ELSE first[n - 1] \o Ask(c, q[n])
  IN  first[Len(q)]
=============================================================================
