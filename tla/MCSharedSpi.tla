---------------------------- MODULE MCSharedSpi -----------------------------
(* Six bytes in pages and sectors of two; data for one page and for three. *)
EXTENDS SharedSpi

MCBits == {1}
MCData == {<<{1}>>, <<{1}, {}, {1}, {1}>>}
=============================================================================
