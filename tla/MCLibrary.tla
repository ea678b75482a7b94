----------------------------- MODULE MCLibrary -----------------------------
(* The library and its files, with overlapping callbacks, a failing call   *)
(* and a restart.                                                          *)
EXTENDS Library, TLC

(* Callbacks are alike. *)
Alike == Permutations(Callbacks)
=============================================================================
