----------------------------- MODULE MCMtshell ------------------------------
(* An instance of Mtshell for TLC: the command names are single letters.   *)
EXTENDS Mtshell

MCLua == <<"l">>
MCLuai == <<"i">>
=============================================================================
