------------------------------ MODULE Artwork ------------------------------
(***************************************************************************)
(* internal/playlist/art_itunes.go: pictures looked up at iTunes, by the   *)
(* batch that runs after the first scan and by each track that starts      *)
(* playing.  A download writes the track's temporary file, which all       *)
(* downloads for the track share, and renames it over the cached picture.  *)
(* iTunes is external: it has a picture of the song, none, or fails.       *)
(***************************************************************************)
EXTENDS Tracks

CONSTANT Batch  \* the goroutine of FetchMissingArt

ASSUME ArtworkAssumption == Batch \in Downloads

Refreshers == Downloads \ {Batch}

VARIABLES
    dl,       \* what each goroutine is doing
    pending,  \* candidates of the batch still to be looked up
    recent,   \* songs refreshed within refreshThrottle
    blurred   \* history: tracks whose picture is not promised to be right

artVars == <<dl, pending, recent, blurred>>

Waiting == [pc |-> "idle"]
Fetching == [pc |-> "query"]
Idling == [pc |-> "next"]

ArtworkInit ==
    /\ dl = [d \in Downloads |-> IF d = Batch THEN Fetching ELSE Waiting]
    /\ pending = {} /\ recent = {} /\ blurred = {}

(* A track as a goroutine knows it: its tags and the file they were of.    *)
Candidate(id, v) == [id |-> id, song |-> v, crossed |-> Unsteady(id)]
Changed(c) == c.crossed

(* The tracks of one song (group), the one that is looked up (top), those  *)
(* a loop has still to do (left).                                          *)
Group(pc, top, group) == [pc |-> pc, top |-> top, group |-> group, left |-> group \ {top}]
Is(d, pc) == dl[d].pc = pc
To(d, pc) == dl' = [dl EXCEPT ![d].pc = pc]
Top(d) == dl[d].top
Over(d) == dl' = [dl EXCEPT ![d] = IF d = Batch THEN Idling ELSE Waiting]
Loop(d, pc) == dl' = [dl EXCEPT ![d].pc = pc, ![d].left = dl[d].group]
Blur(S) == blurred' = blurred \union S
BlurIf(b, c) == Blur(IF b THEN {c.id} ELSE {})
RestOfTracks_ == <<cfg, file, clock, scanning, stored, known, upd, lyr, fresh, crashes>>

---------------------------------------------------------------------------
(* FetchMissingArt: the candidates are those of one SELECT, song by song.  *)
Query ==
    /\ Is(Batch, "query") /\ ~scanning
    /\ pending' = IF ~cfg.itunes THEN {}
                  ELSE {Candidate(id, row[id].song) : id \in {i \in stored : ~row[i].artTried}}
    /\ Over(Batch)
    /\ UNCHANGED <<trackVars, recent, blurred>>

NextSong ==
    /\ Is(Batch, "next") /\ pending # {}
    /\ \E top \in pending :
         LET group == {c \in pending : Song(c.song) = Song(top.song)} IN
         /\ \A c \in pending : top.id <= c.id
         /\ dl' = [dl EXCEPT ![Batch] = Group("ask", top, group)]
         /\ pending' = pending \ group
    /\ UNCHANGED <<trackVars, recent, blurred>>

(* RefreshArt, when id starts playing.                                     *)
StartRefresh(d, id) ==
    /\ cfg.itunes /\ ~scanning /\ id \in known
    /\ d \in Refreshers /\ Is(d, "idle")
    /\ LET c == Candidate(id, mem[id].song) IN dl' = [dl EXCEPT ![d] = Group("throttle", c, {c})]
    /\ UNCHANGED <<trackVars, pending, recent, blurred>>

Throttle(d) ==
    /\ Is(d, "throttle")
    /\ IF Song(Top(d).song) \in recent THEN Over(d) ELSE To(d, "stamp")
    /\ UNCHANGED <<trackVars, pending, recent, blurred>>

(* The time is stored under the song; the request reads the tags again.    *)
Stamp(d) ==
    /\ Is(d, "stamp")
    /\ recent' = recent \union {Song(Top(d).song)}
    /\ LET c == Candidate(Top(d).id, mem[Top(d).id].song) IN
       dl' = [dl EXCEPT ![d] = Group("ask", c, {c})]
    /\ UNCHANGED <<trackVars, pending, blurred>>

ThrottleExpires(song) ==
    /\ song \in recent /\ recent' = recent \ {song}
    /\ UNCHANGED <<trackVars, dl, pending, blurred>>

(* Mutant: the batch goes on when nothing was downloaded. *)
Fail_GoesOn(d) == IF d = Batch THEN Loop(d, "flagRow") ELSE Over(d)

(* A batch that got nothing does not ask again; a refresh just ends.       *)
Fail(d) == IF d = Batch THEN Loop(d, "tried") ELSE Over(d)

AskITunes(d) ==
    /\ Is(d, "ask")
    /\ To(d, "create") \/ Fail(d)
    /\ UNCHANGED <<trackVars, pending, recent, blurred>>

---------------------------------------------------------------------------
(* downloadTo.  A copy that fails or is too long is removed, one that      *)
(* cannot be closed is not.                                                *)

(* Somebody else downloads for the track already, or saves its picture.    *)
Shared(d) == \E e \in Downloads \ {d} : dl[e].pc \in {"copy", "rename"} /\ Top(e).id = Top(d).id

CreateTmp(d) ==
    /\ Is(d, "create")
    /\ \/ /\ Open(d, Tmp(Top(d).id)) /\ To(d, "copy")
          /\ BlurIf(Shared(d), Top(d))
       \/ Fail(d) /\ UNCHANGED <<pic, fd, blurred>>
    /\ UNCHANGED <<RestOfTracks_, row, mem, pending, recent>>

CopyBody(d) ==
    /\ Is(d, "copy")
    /\ \/ Finish(d, Top(d).song) /\ To(d, "rename")
       \/ Discard(d, Tmp(Top(d).id)) /\ Fail(d)
       \/ Finish(d, Half) /\ Fail(d)
    /\ BlurIf(Changed(Top(d)), Top(d))
    /\ UNCHANGED <<RestOfTracks_, row, mem, pending, recent>>

(* It fails when somebody else has renamed the temporary file.             *)
RenamePicture(d) ==
    LET id == Top(d).id IN
    /\ Is(d, "rename")
    /\ \/ Fail(d) /\ UNCHANGED <<pic, fd, blurred>>
       \/ /\ pic[Tmp(id)] # None /\ Rename(id)
          /\ IF dl[d].left = {} THEN Loop(d, "flagRow") ELSE To(d, "twin")
          /\ BlurIf(Changed(Top(d)), Top(d))
    /\ UNCHANGED <<RestOfTracks_, row, mem, pending, recent>>

---------------------------------------------------------------------------
(* The other tracks of the song get a copy, all of them their flags.       *)

(* c is done: the loop goes on with the next, or the next loop begins.     *)
After(d, c, pc, then) ==
    IF dl[d].left = {c} THEN then ELSE dl' = [dl EXCEPT ![d].pc = pc, ![d].left = @ \ {c}]
First(d, c) == c \in dl[d].left /\ \A e \in dl[d].left : c.id <= e.id

(* copyFile may fail, before or after it has truncated what was there,     *)
(* which is logged and no more.                                            *)
CopyToTwin(d, c) ==
    /\ Is(d, "twin") /\ First(d, c)
    /\ \/ /\ pic[Art(Top(d).id)] # None
          /\ Open(d, Art(c.id)) /\ To(d, "copying") /\ BlurIf(Changed(c), c)
       \/ After(d, c, "twin", Loop(d, "flagRow")) /\ Blur({c.id}) /\ UNCHANGED <<pic, fd>>
    /\ UNCHANGED <<RestOfTracks_, row, mem, pending, recent>>

CopyTwin(d, c) ==
    /\ Is(d, "copying") /\ First(d, c)
    /\ After(d, c, "twin", Loop(d, "flagRow"))
    /\ \/ Finish(d, pic[Art(Top(d).id)])
          /\ BlurIf(Changed(c) \/ Song(pic[Art(Top(d).id)]) # Song(c.song), c)
       \/ Finish(d, Half) /\ Blur({c.id})
    /\ UNCHANGED <<RestOfTracks_, row, mem, pending, recent>>

(* UPDATE tracks ... WHERE id = ?, whose error is ignored.                 *)
FlagArtRow(d, c) ==
    /\ Is(d, "flagRow") /\ First(d, c)
    /\ row' \in {row, IF c.id \in stored
                      THEN [row EXCEPT ![c.id].hasArt = TRUE, ![c.id].artTried = TRUE] ELSE row}
    /\ To(d, "flag") /\ BlurIf(Changed(c), c)
    /\ UNCHANGED <<RestOfTracks_, mem, pic, fd, pending, recent>>

FlagArt(d, c) ==
    /\ Is(d, "flag") /\ First(d, c)
    /\ mem' = IF c.id \in known THEN [mem EXCEPT ![c.id].hasArt = TRUE] ELSE mem
    /\ After(d, c, "flagRow", Over(d)) /\ BlurIf(Changed(c), c)
    /\ UNCHANGED <<RestOfTracks_, row, pic, fd, pending, recent>>

MarkArtTried(d, c) ==
    /\ Is(d, "tried") /\ First(d, c)
    /\ row' \in {row, IF c.id \in stored THEN [row EXCEPT ![c.id].artTried = TRUE] ELSE row}
    /\ After(d, c, "tried", Over(d))
    /\ UNCHANGED <<RestOfTracks_, mem, pic, fd, pending, recent, blurred>>

DownloadStep(d) ==
    \/ Throttle(d) \/ Stamp(d) \/ AskITunes(d) \/ CreateTmp(d) \/ CopyBody(d) \/ RenamePicture(d)
    \/ \E c \in dl[d].left : CopyToTwin(d, c) \/ CopyTwin(d, c) \/ FlagArtRow(d, c)
                             \/ FlagArt(d, c) \/ MarkArtTried(d, c)

ArtStep ==
    \/ Query \/ NextSong
    \/ \E d \in Downloads : (dl[d].pc \notin {"idle", "query", "next"} /\ DownloadStep(d))
                            \/ \E id \in Ids : StartRefresh(d, id)
    \/ \E song \in recent : ThrottleExpires(song)

(* A step of the library: a new file is a new beginning for its history;   *)
(* of the tracks of S nothing is promised.                                 *)
Crosses(c) == IF c.id \in Renewed THEN [c EXCEPT !.crossed = TRUE] ELSE c
ArtStays(S) ==
    /\ blurred' = (blurred \ Renewed) \union S
    /\ pending' = {Crosses(c) : c \in pending}
    /\ dl' = [d \in Downloads |-> IF dl[d].pc \in {"idle", "query", "next"} THEN dl[d] ELSE
                 [pc |-> dl[d].pc, top |-> Crosses(dl[d].top),
                  group |-> {Crosses(c) : c \in dl[d].group},
                  left |-> {Crosses(c) : c \in dl[d].left}]]
    /\ UNCHANGED recent

(* A picture that was being written stays as it is, and upsertFile, which  *)
(* finds the row up to date, does not save it again.                       *)
ArtRestart ==
    /\ dl' = [d \in Downloads |-> IF d = Batch THEN Fetching ELSE Waiting]
    /\ pending' = {} /\ recent' = {}
    /\ Blur({id \in Ids : ~At(id, "idle") \/ \E w \in Writers : fd[w] = Art(id)})

---------------------------------------------------------------------------
Candidates == [id : Ids, song : Versions, crossed : BOOLEAN]
Jobs == [pc : {"throttle", "stamp", "ask", "create", "copy", "rename", "twin", "copying",
               "flagRow", "flag", "tried"},
         top : Candidates, group : SUBSET Candidates, left : SUBSET Candidates]

ArtworkTypeOK ==
    /\ dl \in [Downloads -> {Waiting, Fetching, Idling} \union Jobs]
    /\ pending \subseteq Candidates /\ recent \subseteq {Song(v) : v \in Versions}
    /\ blurred \subseteq Ids

(* Unless its file was changed behind a download, two downloads met, a     *)
(* copy from its twin failed, or its own picture was not saved because     *)
(* saveArt failed or the process died, the picture handleArt serves of a   *)
(* track is there, whole and of the track's song, but for the moment in    *)
(* which it is copied from a twin's over what was there.                   *)
ArtIsOfTheSong ==
    \A id \in known \ blurred :
        Settled(id) /\ mem[id].hasArt /\ (\A w \in Writers : fd[w] # Art(id))
            => pic[Art(id)] \in Versions /\ Song(pic[Art(id)]) = Song(mem[id].song)
=============================================================================
