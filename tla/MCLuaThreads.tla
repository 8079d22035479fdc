---------------------------- MODULE MCLuaThreads ----------------------------
(* Instances of LuaThreads for TLC: the children are interchangeable.      *)
EXTENDS LuaThreads, TLC

ChildSymmetry == Permutations(Child)
=============================================================================
