------------------------------ MODULE CodecMC ------------------------------
(***************************************************************************)
(* An instance of Codec for TLC: bytes of one bit, two for a length.       *)
(***************************************************************************)
EXTENDS Codec

\* The empty body, bodies that look like lengths, the longest, one too long.
Bodies == {<<>>, <<1>>, <<1, 0>>, <<0, 1>>, <<1, 1, 1>>}
=============================================================================
