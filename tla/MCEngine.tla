------------------------------ MODULE MCEngine ------------------------------
(* The engine with a few encoders and decoders. *)
EXTENDS Engine
=============================================================================
