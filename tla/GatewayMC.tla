----------------------------- MODULE GatewayMC -----------------------------
(***************************************************************************)
(* Instances of Gateway for TLC.  Who sees whom does not matter here: the  *)
(* map is a single cell and there is a single position.                    *)
(***************************************************************************)
EXTENDS Gateway, TLC

SpawnPos == <<0, 0>>
OnePos   == {SpawnPos}

Connections == Permutations(Player)
=============================================================================
