------------------------------- MODULE World -------------------------------
(***************************************************************************)
(* What the scene promises to its clients: players appear at the spawn     *)
(* point, move about and depart, and at every moment each of them has been *)
(* told of exactly the others that it can see.  There is no channel, tick, *)
(* index or notification here: who sees whom is recomputed from the        *)
(* positions after every step.                                             *)
(***************************************************************************)
EXTENDS Aoi

CONSTANTS Player, Pos, Spawn, Nil

VARIABLES where,  \* a position, or Nil for a player that is not there
          sees    \* whom each player sees

vars == <<where, sees>>

Sight(at) ==
  [o \in Player |-> { q \in Player \ {o} : at[o] # Nil /\ at[q] # Nil
                                            /\ InView(at[o], at[q]) }]

Init ==
  /\ where = [p \in Player |-> Nil]
  /\ sees = Sight(where)

Put(p, pos) ==
  /\ where' = [where EXCEPT ![p] = pos]
  /\ sees' = Sight(where')

Arrive(p)        == where[p] = Nil /\ Put(p, Spawn)
Depart(p)        == where[p] # Nil /\ Put(p, Nil)
Relocate(p, pos) == where[p] # Nil /\ Put(p, pos)

Next == \E p \in Player :
          \/ Arrive(p)
          \/ Depart(p)
          \/ \E pos \in Pos : Relocate(p, pos)

Spec == Init /\ [][Next]_vars
=============================================================================
