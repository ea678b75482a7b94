------------------------------ MODULE MCCaches ------------------------------
(* Tracks, their lyrics and their pictures. *)
EXTENDS Caches, FiniteSets, TLC

(* Lyrics and pictures share no state but the row and the entry in memory, *)
(* of which each has fields of its own: one of the two is switched on.     *)
(* The second track is there to have the picture of the first, in a        *)
(* process that does not die.                                              *)
Chosen ==
    \/ cfg.lyrics /\ ~cfg.itunes /\ crashes = 0 /\ file[2] = 0
    \/ cfg.itunes /\ ~cfg.lyrics /\ crashes = 0 /\ file[2] = 0
    \/ cfg.itunes /\ ~cfg.lyrics /\ crashes = MaxCrashes /\ 0 \notin {file[id] : id \in Ids}

(* After the last restart one play at a time, and one refresh of a song.   *)
(* What fails of the cache that nothing is looked up for is not told.      *)
Sparing ==
    /\ cfg.itunes => UNCHANGED play /\ (crashes' = crashes => mixed' \subseteq mixed)
    /\ cfg.lyrics /\ crashes' = crashes => blurred' \subseteq blurred
    /\ crashes' = MaxCrashes => /\ Cardinality({p \in Plays : play'[p].pc # "idle"}) <= 1
                                /\ crashes = MaxCrashes => recent \subseteq recent'

MCInit == Init /\ Chosen

MCSpec == MCInit /\ [][Next /\ Sparing]_vars

Alike == Permutations(Plays) \union Permutations(Refreshers)
=============================================================================
