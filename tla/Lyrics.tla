------------------------------- MODULE Lyrics -------------------------------
(***************************************************************************)
(* internal/playlist/lyrics.go: each track that starts playing gets a      *)
(* goroutine (source.go) that measures its duration and looks up its       *)
(* lyrics, provider after provider, while the file behind the track may be *)
(* replaced or removed, another play of it may start, or the process die.  *)
(* The providers are external: they answer, have nothing, or fail.         *)
(***************************************************************************)
EXTENDS Tracks

CONSTANTS
    Plays,    \* goroutines of tracks that have begun to play
    Credits   \* ways the artist is credited

ASSUME LyricsAssumption == Credits \in Nat \ {0}

VARIABLES
    play,      \* what each goroutine is doing
    inflight,  \* lyricsInflight
    lyrTmp,    \* id -> version of lyrics/<id>.lrc.tmp
    mixed,     \* history: tracks changed behind a lookup that then wrote, or not cleaned up
    answered   \* history: tracks whose present file got a definitive answer

lyricsVars == <<play, inflight, lyrTmp, mixed, answered>>

Stopped == [pc |-> "idle"]

LyricsInit ==
    /\ play = [p \in Plays |-> Stopped] /\ inflight = {}
    /\ lyrTmp = [id \in Ids |-> None]
    /\ mixed = {} /\ answered = {}

(* The questions of lookupLyrics, in order: LRCLIB for each credit, its    *)
(* search once, lyrics.ovh and versuri.ro for each credit.                 *)
Questions == 3 * Credits + 1
IsSearch(n) == n = Credits + 1
IsExact(n) == n <= Credits

Doing(p, pc) == play[p].pc = pc
GoOn(p, pc) == play' = [play EXCEPT ![p].pc = pc]
Done(p) == play' = [play EXCEPT ![p] = Stopped]
Track(p) == play[p].id

(* The track has changed since the goroutine read its tags, or was         *)
(* changing then.                                                          *)
Crossed(p) == play[p].crossed
Mix(p) == mixed' = IF Crossed(p) THEN mixed \union {Track(p)} ELSE mixed

(* UPDATE tracks ... WHERE id = ?: nothing when the row is gone.           *)
UpdateTo(p, r) == IF Track(p) \in stored THEN [row EXCEPT ![Track(p)] = r] ELSE row
RowOf(p) == row[Track(p)]
RestOfTracks == <<cfg, file, clock, scanning, stored, known, upd, pic, fd, fresh, crashes>>

---------------------------------------------------------------------------
(* A track starts playing, and is in the library then.                     *)
Begin(p, id) ==
    /\ Doing(p, "idle") /\ ~scanning /\ id \in known
    /\ play' = [play EXCEPT ![p] =
                  [pc |-> IF mem[id].dur = 0 THEN "probe" ELSE "tried", id |-> id, dur |-> 0,
                   song |-> None, asked |-> 0, erred |-> FALSE, failed |-> FALSE, body |-> None,
                   crossed |-> Unsteady(id)]]
    /\ UNCHANGED <<trackVars, inflight, lyrTmp, mixed, answered>>

(* Mutant: the error value of a failed probe is taken for a duration. *)
Probe_Unchecked(p) ==
    /\ Doing(p, "probe")
    /\ play' = [play EXCEPT ![p].pc = "saveDur", ![p].dur = IF file[Track(p)] = 0 THEN -1
                                                           ELSE file[Track(p)]]
    /\ UNCHANGED <<trackVars, inflight, lyrTmp, mixed, answered>>

(* EnsureDuration: ffprobe fails, or measures the file that is there.      *)
Probe(p) ==
    /\ Doing(p, "probe")
    /\ \/ GoOn(p, "tried")
       \/ /\ file[Track(p)] # 0
          /\ play' = [play EXCEPT ![p].pc = "saveDur", ![p].dur = file[Track(p)]]
    /\ UNCHANGED <<trackVars, inflight, lyrTmp, mixed, answered>>

(* The error of UPDATE is ignored.                                         *)
SaveDuration(p) ==
    /\ Doing(p, "saveDur")
    /\ row' \in {row, UpdateTo(p, [RowOf(p) EXCEPT !.dur = play[p].dur])}
    /\ GoOn(p, "setDur") /\ Mix(p)
    /\ UNCHANGED <<RestOfTracks, mem, lyr, inflight, lyrTmp, answered>>

SetDuration(p) ==
    /\ Doing(p, "setDur")
    /\ mem' = IF Track(p) \in known THEN [mem EXCEPT ![Track(p)].dur = play[p].dur] ELSE mem
    /\ play' = [play EXCEPT ![p].pc = "tried", ![p].dur = 0] /\ Mix(p)
    /\ UNCHANGED <<RestOfTracks, row, lyr, inflight, lyrTmp, answered>>

(* FetchLyrics.  A track without a row has not been tried.                 *)
AlreadyTried(p) ==
    /\ Doing(p, "tried")
    /\ IF ~cfg.lyrics \/ (Track(p) \in stored /\ row[Track(p)].lyricsTried)
       THEN Done(p) ELSE GoOn(p, "claim")
    /\ UNCHANGED <<trackVars, inflight, lyrTmp, mixed, answered>>

(* Mutant: the guard is a look and a mark, and somebody may be between.    *)
Busy_Never(p) == FALSE

Busy(p) == Track(p) \in inflight

(* LoadOrStore, then the tags that all questions but the search will use.  *)
Claim(p) ==
    /\ Doing(p, "claim")
    /\ IF Busy(p)
       THEN Done(p) /\ UNCHANGED inflight
       ELSE /\ inflight' = inflight \union {Track(p)}
            /\ play' = [play EXCEPT ![p].pc = "ask", ![p].asked = 1,
                                    ![p].song = mem[Track(p)].song,
                                    ![p].crossed = Unsteady(Track(p))]
    /\ UNCHANGED <<trackVars, lyrTmp, mixed, answered>>

(* A record of LRCLIB may hold no words, or be marked instrumental.  The   *)
(* search uses the artist anew: the answer may fit either song.  With an   *)
(* answer it does not matter who failed before.                            *)
Answered(p) ==
    /\ Doing(p, "ask")
    /\ \E v \in {play[p].song, None, mem[Track(p)].song} :
         /\ v = None => IsExact(play[p].asked)
         /\ v \notin {None, play[p].song} => IsSearch(play[p].asked)
         /\ play' = [play EXCEPT ![p].pc = "mark", ![p].body = v, ![p].failed = FALSE]
    /\ UNCHANGED <<trackVars, inflight, lyrTmp, mixed, answered>>

(* Mutant: the last provider decides. *)
Note_LastOnly(p, fails) == fails

(* One provider that failed keeps the track open.                          *)
Note(p, fails) == play[p].erred \/ fails

(* errNoLyricsMatch, or an error of the provider; after the last one the   *)
(* track is written off unless it is kept open.                            *)
NotAnswered(p) ==
    /\ Doing(p, "ask")
    /\ \E fails \in BOOLEAN :
         LET erred == Note(p, fails)
             last == play[p].asked = Questions IN
         play' = [play EXCEPT ![p].erred = erred, ![p].failed = @ \/ fails,
                    ![p].asked = IF last THEN @ ELSE @ + 1,
                    ![p].pc = IF ~last THEN "ask" ELSE IF erred THEN "release" ELSE "mark"]
    /\ UNCHANGED <<trackVars, inflight, lyrTmp, mixed, answered>>

(* markLyricsTried, whose error is ignored.                                *)
Mark(p) ==
    /\ Doing(p, "mark")
    /\ row' \in {row, UpdateTo(p, [RowOf(p) EXCEPT !.lyricsTried = TRUE])}
    /\ GoOn(p, IF play[p].body = None THEN "release" ELSE "write") /\ Mix(p)
    /\ answered' = IF play[p].failed THEN answered ELSE answered \union {Track(p)}
    /\ UNCHANGED <<RestOfTracks, mem, lyr, inflight, lyrTmp>>

(* writeLyrics: any of its three calls may fail.                           *)
OpenTmp(p) ==
    /\ Doing(p, "write")
    /\ \/ lyrTmp' = [lyrTmp EXCEPT ![Track(p)] = Half] /\ GoOn(p, "fill")
       \/ GoOn(p, "release") /\ UNCHANGED lyrTmp
    /\ UNCHANGED <<trackVars, inflight, mixed, answered>>

FillTmp(p) ==
    /\ Doing(p, "fill")
    /\ \/ lyrTmp' = [lyrTmp EXCEPT ![Track(p)] = play[p].body] /\ GoOn(p, "rename")
       \/ GoOn(p, "release") /\ UNCHANGED lyrTmp
    /\ UNCHANGED <<trackVars, inflight, mixed, answered>>

RenameTmp(p) ==
    /\ Doing(p, "rename")
    /\ \/ /\ lyrTmp[Track(p)] # None
          /\ lyr' = [lyr EXCEPT ![Track(p)] = lyrTmp[Track(p)]]
          /\ GoOn(p, "flagRow") /\ Mix(p)
       \/ GoOn(p, "release") /\ UNCHANGED <<lyr, mixed>>
    /\ lyrTmp' = [lyrTmp EXCEPT ![Track(p)] = None]
    /\ UNCHANGED <<RestOfTracks, row, mem, inflight, answered>>

FlagRow(p) ==
    /\ Doing(p, "flagRow")
    /\ \/ /\ row' = UpdateTo(p, [RowOf(p) EXCEPT !.hasLyrics = TRUE])
          /\ GoOn(p, "flag") /\ Mix(p)
       \/ GoOn(p, "release") /\ UNCHANGED <<row, mixed>>
    /\ UNCHANGED <<RestOfTracks, mem, lyr, inflight, lyrTmp, answered>>

Flag(p) ==
    /\ Doing(p, "flag")
    /\ mem' = IF Track(p) \in known THEN [mem EXCEPT ![Track(p)].hasLyrics = TRUE] ELSE mem
    /\ GoOn(p, "release") /\ Mix(p)
    /\ UNCHANGED <<RestOfTracks, row, lyr, inflight, lyrTmp, answered>>

(* Mutant: a lookup that failed does not give its track back. *)
Release_IfAnswered(p) ==
    /\ Doing(p, "release")
    /\ inflight' = IF play[p].erred THEN inflight ELSE inflight \ {Track(p)}
    /\ Done(p)
    /\ UNCHANGED <<trackVars, lyrTmp, mixed, answered>>

(* The deferred Delete, on every way out.                                  *)
Release(p) ==
    /\ Doing(p, "release")
    /\ inflight' = inflight \ {Track(p)}
    /\ Done(p)
    /\ UNCHANGED <<trackVars, lyrTmp, mixed, answered>>

PlayStep(p) ==
    \/ Probe(p) \/ SaveDuration(p) \/ SetDuration(p) \/ AlreadyTried(p) \/ Claim(p)
    \/ Answered(p) \/ NotAnswered(p) \/ Mark(p) \/ OpenTmp(p) \/ FillTmp(p) \/ RenameTmp(p)
    \/ FlagRow(p) \/ Flag(p) \/ Release(p)

LyricsStep == \E p \in Plays : PlayStep(p) \/ \E id \in Ids : Begin(p, id)

(* A step of the library: a new file is a new beginning for its histories; *)
(* of the tracks of S nothing is promised.                                 *)
LyricsStay(S) ==
    /\ mixed' = (mixed \ Renewed) \union S /\ answered' = answered \ Renewed
    /\ play' = [p \in Plays |-> IF Doing(p, "idle") \/ Track(p) \notin Renewed
                                THEN play[p] ELSE [play[p] EXCEPT !.crossed = TRUE]]
    /\ UNCHANGED <<inflight, lyrTmp>>

(* Goroutines die with the process.  A removal cut off is not taken up.    *)
LyricsRestart ==
    /\ play' = [p \in Plays |-> Stopped] /\ inflight' = {}
    /\ mixed' = mixed \union {id \in Ids \ stored : ~At(id, "idle")}
    /\ UNCHANGED <<lyrTmp, answered>>

(* What handleLyrics answers, and whether the player offers the button.    *)
Offered(id) == id \in known /\ mem[id].hasLyrics
Served(id) == IF Offered(id) THEN lyr[id] ELSE None

---------------------------------------------------------------------------
Claimed == {"ask", "mark", "write", "fill", "rename", "flagRow", "flag", "release"}

Lookups == [pc : {"probe", "saveDur", "setDur", "tried", "claim"} \union Claimed,
            id : Ids, dur : 0 .. MaxVersions, song : {None} \union Versions,
            asked : 0 .. Questions, erred : BOOLEAN, failed : BOOLEAN,
            body : {None} \union Versions, crossed : BOOLEAN]

LyricsTypeOK ==
    /\ play \in [Plays -> {Stopped} \union Lookups]
    /\ inflight \subseteq Ids /\ lyrTmp \in [Ids -> Content]
    /\ mixed \subseteq Ids /\ answered \subseteq Ids

(* "Write and rename so a reader never sees a half-written file": neither  *)
(* two plays of a track nor a crash leave half a file where handleLyrics   *)
(* reads, though all lookups of a track share one temporary file.          *)
LyricsWhole == \A id \in Ids : lyr[id] # Half

(* Unless the file was changed behind a lookup, what is offered of a track *)
(* is there and is of its present file, and so is its duration; over       *)
(* replacements, restarts and lookups that fail half way.                  *)
CachedIsOfTheFile ==
    \A id \in known \ mixed : Settled(id) =>
        /\ Offered(id) => lyr[id] = mem[id].song
        /\ mem[id].dur \in {0, mem[id].song}

(* "Only a definitive miss is recorded": a track is closed to further      *)
(* lookups only if its present file got an answer or a no from all         *)
(* providers.                                                              *)
WrittenOffRightly ==
    \A id \in stored \ mixed : row[id].lyricsTried => id \in answered

(* A track is closed to lookups only while one runs: whatever way a lookup *)
(* ends, the next play of the track may try again.                         *)
ClaimIsHeld ==
    inflight = {Track(p) : p \in {q \in Plays : play[q].pc \in Claimed}}
=============================================================================
