----------------------------- MODULE MCStation -----------------------------
(* The station; its listeners are interchangeable. *)
EXTENDS Station, TLC

CONSTANT MaxSubs  \* bound: requests for a stream and lives of ffmpeg together

Sparing == Cardinality({s \in Subs : owner'[s] # "new"}) <= MaxSubs

MCSpec == StationInit /\ [][StationNext /\ Sparing]_everything

ListenerSymmetry == Permutations(Clients)
=============================================================================
