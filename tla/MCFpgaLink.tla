----------------------------- MODULE MCFpgaLink -----------------------------
(* A small display session over the serial link: two pixels inside the     *)
(* window, one of them above address 255, and one outside it.              *)
EXTENDS FpgaLink

MCStrokes == {<<39, 6, <<7, 1>>>>, <<0, 0, <<0, 9>>>>, <<40, 3, <<1, 1>>>>}

MCPowerUp == {[p \in Port |-> v] : v \in 0 .. 1}

MCGarbled == {0, 34, 255}
=============================================================================
