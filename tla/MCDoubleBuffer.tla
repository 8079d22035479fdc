--------------------------- MODULE MCDoubleBuffer ---------------------------
(* Two pixels, one with two colours: enough for a picture to be half drawn *)
(* and for a word to be overwritten.                                       *)
EXTENDS DoubleBuffer

MCStrokes == {<<39, 6, <<7, 1>>>>, <<0, 0, <<0, 9>>>>, <<0, 0, <<3, 0>>>>, <<40, 3, <<1, 1>>>>}

MCPowerUp == {[p \in Port |-> v] : v \in 0 .. 1}
=============================================================================
