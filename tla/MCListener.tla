----------------------------- MODULE MCListener -----------------------------
(* One listener, with a few bytes per second and short titles. *)
EXTENDS Listener

MCSeconds == -1 .. 4
MCTitles  == { <<"a", ";", "'">>, <<"^", "w", "w", "w", "w">> }
MCStation == <<"a">>
=============================================================================
