------------------------------- MODULE Uplink -------------------------------
(***************************************************************************)
(* What the way from the connections up to the scene promises, whatever it *)
(* is made of: a reader, two channels and a goroutine between them in a    *)
(* single process (module Gateway), two more channels and a stream when    *)
(* the scene is a process of its own (module Session).                     *)
(*                                                                         *)
(* The requests of one connection arrive in the order in which its client  *)
(* made them, each of them once, with nothing lost but the last one of a   *)
(* connection that has ended.  A connection that has ended, and no other,  *)
(* is sent a leave, once at most; it may overtake requests, and a player   *)
(* whose join is overtaken by its leave stays behind.  Nothing is promised *)
(* about one connection beside another, nor that anything arrives.         *)
(*                                                                         *)
(* The way may be cut, where a process may end or a stream may break: what *)
(* it holds then arrives up to some point and no further.                  *)
(***************************************************************************)
EXTENDS SequencesExt

CONSTANT Conn

VARIABLES way,        \* of each connection, the oldest first
          spoken,     \* the connections that have asked to join
          ended,      \* the connections that have ended
          gone,       \* those of them whose leave has been sent
          lost,       \* those of them whose last request has been lost
          inScene,    \* whose player the scene has
          overtaken,  \* history: whose leave overtook its join
          cut         \* the way has been cut

vars == <<spoken, ended, gone, lost, inScene, overtaken, cut, way>>

Init ==
  /\ way = [c \in Conn |-> <<>>]
  /\ spoken = {} /\ ended = {} /\ gone = {} /\ lost = {}
  /\ inScene = {} /\ overtaken = {}
  /\ cut = FALSE

\* A client asks to join once, then to move.
Speak(c) ==
  /\ ~cut /\ c \notin ended
  /\ spoken' = spoken \cup {c}
  /\ UNCHANGED <<ended, gone, lost, inScene, overtaken, cut>>
  /\ way' = [way EXCEPT ![c] = Append(@, IF c \in spoken THEN "move" ELSE "join")]

End(c) ==
  /\ ~cut /\ c \notin ended
  /\ ended' = ended \cup {c}
  /\ UNCHANGED <<spoken, gone, lost, inScene, overtaken, cut, way>>

\* The leave goes in front of the requests from the i-th on.
Leave(c) ==
  /\ ~cut /\ c \in ended \ gone
  /\ gone' = gone \cup {c}
  /\ UNCHANGED <<spoken, ended, lost, inScene, cut>>
  /\ \E i \in 1 .. Len(way[c]) + 1 :
       /\ way' = [way EXCEPT ![c] = InsertAt(@, i, "leave")]
       /\ overtaken' = IF \E j \in i .. Len(way[c]) : way[c][j] = "join"
                       THEN overtaken \cup {c} ELSE overtaken

Discard(c) ==
  /\ ~cut /\ c \in ended \ lost
  /\ lost' = lost \cup {c}
  /\ UNCHANGED <<spoken, ended, gone, inScene, overtaken, cut>>
  /\ way[c] # <<>> /\ Last(way[c]) # "leave"
  /\ way' = [way EXCEPT ![c] = Front(@)]

\* The scene ignores the move of a player that it does not have.
Arrive(c) ==
  /\ UNCHANGED <<spoken, ended, gone, lost, overtaken, cut>>
  /\ way[c] # <<>>
  /\ inScene' = CASE Head(way[c]) = "join"  -> inScene \cup {c}
                  [] Head(way[c]) = "leave" -> inScene \ {c}
                  [] OTHER                  -> inScene
  /\ way' = [way EXCEPT ![c] = Tail(@)]

\* The connections and what was known of them are lost as well, and the players
\* too if the scene's process ends.
Cut ==
  /\ cut'
  /\ \A c \in Conn : IsPrefix(way'[c], way[c])
  /\ spoken' = {} /\ ended' = {} /\ gone' = {} /\ lost' = {} /\ overtaken' = {}
  /\ inScene' \subseteq inScene

Next ==
  \/ \E c \in Conn : Speak(c) \/ End(c) \/ Leave(c) \/ Discard(c) \/ Arrive(c)
  \/ Cut

Spec == Init /\ [][Next]_vars
=============================================================================
