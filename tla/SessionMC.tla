----------------------------- MODULE SessionMC -----------------------------
(***************************************************************************)
(* Instances of Session for TLC: one cell, one position.                   *)
(***************************************************************************)
EXTENDS Session, TLC

SpawnPos == <<0, 0>>
OnePos   == {SpawnPos}
=============================================================================
