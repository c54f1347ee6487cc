-------------------------- MODULE MCLuaThreadPool --------------------------
(* Finite instances of LuaThreadPool for TLC.                              *)
EXTENDS LuaThreadPool, TLC

\* Worker ids are interchangeable in the safety runs.
Symmetry == Permutations(Workers)
=============================================================================
