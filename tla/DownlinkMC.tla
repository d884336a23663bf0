---------------------------- MODULE DownlinkMC -----------------------------
(***************************************************************************)
(* Instances of Downlink for TLC: a row of three cells, the observer and   *)
(* another, who stands in its view or out of it.                           *)
(***************************************************************************)
EXTENDS Downlink

SpawnPos == <<0, 0>>
NearPos  == {SpawnPos, <<2, 0>>}   \* cells 0 and 2

\* A connection that is Backlogged before it is full needs two places.  The
\* players come and go in that setup, but they stay in sight.
AllSetups ==
  [kind : {"player", "spectator"}, sendCap : {1}, backlogAt : {1}, going : {NearPos}]
    \cup [kind : {"split"}, sendCap : {2}, backlogAt : {1}, going : {{SpawnPos}}]
=============================================================================
