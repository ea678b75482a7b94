------------------------------- MODULE MCHLS -------------------------------
(* The HLS supervisor on a hub with one other listener. *)
EXTENDS HLS
=============================================================================
