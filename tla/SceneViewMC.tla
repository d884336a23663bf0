---------------------------- MODULE SceneViewMC ----------------------------
(***************************************************************************)
(* Instances of SceneView for TLC.  The map runs from (-2,0) to (5,4) with *)
(* cells of side 3, which divides neither side: three columns, two rows.   *)
(* The positions fall in four different cells, two of them lie outside the *)
(* map, and cells 2 and 3 are neighbours in number but not on the map.     *)
(***************************************************************************)
EXTENDS SceneView, TLC

GridMinX == -2

SpawnPos == <<0, 0>>                                   \* cell 0
RowPos   == {SpawnPos, <<3, 1>>, <<9, -7>>}            \* cells 0, 1, 2
GridPos  == {SpawnPos, <<3, 3>>, <<9, -7>>, <<-2, 4>>} \* cells 0, 4, 2, 3

Players == Permutations(Player)
=============================================================================
