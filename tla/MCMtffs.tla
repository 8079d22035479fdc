------------------------------ MODULE MCMtffs -------------------------------
(* Two files on a flash that is soon full: chains grow, meet the end of    *)
(* the flash, and reuse each other's blocks.                               *)
EXTENDS Mtffs, TLC

(* A write inside a block, and one that always crosses into the next.      *)
MCWrites == {<<"x">>, <<"y", "y", "y">>}

(* With one unit in a block and one kind of unit, only chains matter.      *)
MCBlockWrites == {<<"x">>, <<"x", "x">>}

(* The second file name can stand for the first.                           *)
MCNames == Permutations(Names)
=============================================================================
