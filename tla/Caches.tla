------------------------------- MODULE Caches -------------------------------
(***************************************************************************)
(* The caches of a track put together: the library that replaces and       *)
(* removes tracks, the lookups of lyrics and of pictures that write behind *)
(* its back, and restarts of the process that has them all.                *)
(***************************************************************************)
EXTENDS Lyrics, Artwork

vars == <<trackVars, lyricsVars, artVars>>

Init == TracksInit /\ LyricsInit /\ ArtworkInit

(* A picture that was not saved is not promised to be right; nor is a      *)
(* track that is gone to have left nothing when its file stayed.           *)
LibraryStep ==
    \E id \in Ids :
        \/ (TrackStep(id) \/ Change(id)) /\ LyricsStay({}) /\ ArtStays({})
        \/ (PictureLost(id) \/ PictureCut(id)) /\ LyricsStay({}) /\ ArtStays({id})
        \/ PictureStays(id) /\ LyricsStay({}) /\ ArtStays({id} \ stored)
        \/ LyricsRemain(id) /\ LyricsStay({id} \ stored) /\ ArtStays({})

Next ==
    \/ LibraryStep
    \/ ScanEnds /\ UNCHANGED <<lyricsVars, artVars>>
    \/ LyricsStep /\ UNCHANGED artVars
    \/ ArtStep /\ UNCHANGED lyricsVars
    \/ Restart /\ LyricsRestart /\ ArtRestart

Spec == Init /\ [][Next]_vars

TypeOK == TracksTypeOK /\ LyricsTypeOK /\ ArtworkTypeOK

(* "So the cache cannot grow without bound as a library churns": of a      *)
(* track that has left neither lyrics nor a picture stays, unless a lookup *)
(* was under way, the process died or os.Remove failed on it.              *)
NothingLeftBehind ==
    \A id \in Ids \ (known \union mixed \union blurred) :
        At(id, "idle") => lyr[id] = None /\ pic[Art(id)] = None
=============================================================================
