------------------------------- MODULE Tracks -------------------------------
(***************************************************************************)
(* What internal/playlist/library.go keeps about a track besides its path: *)
(* the row, the entry in memory, the cached lyrics and the cached picture, *)
(* while its file is replaced or removed.  How changes are noticed, and    *)
(* callbacks that overlap, are in Library; here each track has one caller  *)
(* of upsertFile and removeTrack at a time, and every one of their writes  *)
(* is a step of its own, for lookups to fall between.                      *)
(*                                                                         *)
(* A file is its version: tags, pictures and lyrics are the version they   *)
(* are of.  Twins are versions of one song: same artist and title.         *)
(***************************************************************************)
EXTENDS Integers

CONSTANTS
    Tracks,       \* tracks the first scan may insert, with ids 1 .. Tracks
    Twins,        \* versions that are the same song
    Pictured,     \* versions with an embedded picture
    Downloads,    \* goroutines that download pictures
    MaxVersions,  \* bound: versions of files
    MaxCrashes    \* bound: times the process dies

Ids == 1 .. Tracks
Versions == 1 .. MaxVersions

ASSUME TracksAssumption ==
    /\ Tracks \in Nat \ {0} /\ MaxVersions \in Nat /\ Tracks <= MaxVersions
    /\ Twins \subseteq Versions /\ Pictured \subseteq Versions
    /\ Downloads \intersect Ids = {}
    /\ MaxCrashes \in Nat

VARIABLES
    cfg,       \* STATIONCAST_LYRICS, STATIONCAST_ITUNES_ART
    file,      \* id -> version at the track's path, 0 when there is none
    clock,     \* the last version made
    scanning,  \* InitialScan runs: nothing is played yet
    stored,    \* ids with a row
    row,       \* id -> what its row says, while it has one
    known,     \* ids in l.byID
    mem,       \* id -> the Track a player may hold even when it is not known
    upd,       \* id -> next step of upsertFile or removeTrack, with saveArt's picture
    lyr,       \* id -> version of lyrics/<id>.lrc
    pic,       \* place -> version of a picture
    fd,        \* writer of pictures -> the place it has open
    fresh,     \* ids not inserted yet (AUTOINCREMENT)
    crashes    \* deaths so far, some before the first state

trackVars == <<cfg, file, clock, scanning, stored, row, known, mem, upd, lyr, pic, fd, fresh,
               crashes>>

(* Of a file in a cache: there is none; it is not written to its end.      *)
None == 0
Half == -1
Content == {None, Half} \union Versions

(* art/<id>.jpg and art/<id>.jpg.tmp, or no file.                          *)
Art(id) == <<"art", id>>
Tmp(id) == <<"tmp", id>>
Places == {"art", "tmp"} \X Ids
Nowhere == <<"none", 0>>
Writers == Downloads \union Ids

(* The artist and title of a version.                                      *)
Song(v) == IF v \in Twins THEN MaxVersions + 1 ELSE v

NewRow(v) == [song |-> v, dur |-> 0, hasArt |-> v \in Pictured, artTried |-> FALSE,
              hasLyrics |-> FALSE, lyricsTried |-> FALSE]
NewTrack(v) == [song |-> v, dur |-> 0, hasArt |-> v \in Pictured, hasLyrics |-> FALSE]

(* Nobody is in upsertFile or removeTrack for the track.                   *)
Ready == [pc |-> "idle", pic |-> None]

TracksInit ==
    /\ cfg \in [lyrics : BOOLEAN, itunes : BOOLEAN]
    /\ file \in {[id \in Ids |-> IF id \in S THEN id ELSE 0] : S \in SUBSET Ids} /\ clock = Tracks
    /\ scanning = TRUE
    /\ stored = {} /\ row = [id \in Ids |-> NewRow(id)]
    /\ known = {} /\ mem = [id \in Ids |-> NewTrack(id)]
    /\ upd = [id \in Ids |-> Ready]
    /\ lyr = [id \in Ids |-> None]
    /\ pic = [p \in Places |-> None] /\ fd = [w \in Writers |-> Nowhere]
    /\ fresh = Ids /\ crashes \in 0 .. MaxCrashes

---------------------------------------------------------------------------
(* Files of pictures.  Whoever has a file open keeps writing to it when it *)
(* is renamed, and to nothing that can be seen when it is unlinked or      *)
(* replaced.                                                               *)

(* os.Create: a file that is there is truncated, for those who have it too.*)
Open(w, p) == fd' = [fd EXCEPT ![w] = p] /\ pic' = [pic EXCEPT ![p] = Half]

(* The last byte written and the file closed.  Over another picture the    *)
(* result is neither.                                                      *)
Finish(w, v) ==
    /\ pic' = IF fd[w] = Nowhere THEN pic
              ELSE [pic EXCEPT ![fd[w]] = IF @ \in {Half, v} THEN v ELSE Half]
    /\ fd' = [fd EXCEPT ![w] = Nowhere]

Unlink(p) ==
    /\ pic' = [pic EXCEPT ![p] = None]
    /\ fd' = [w \in Writers |-> IF fd[w] = p THEN Nowhere ELSE fd[w]]

(* The file that w writes is closed as it is, and p unlinked.              *)
Discard(w, p) ==
    /\ pic' = [pic EXCEPT ![p] = None]
    /\ fd' = [x \in Writers |-> IF x = w \/ fd[x] = p THEN Nowhere ELSE fd[x]]

(* os.Rename of the temporary file over the picture.                       *)
Rename(id) ==
    /\ pic' = [pic EXCEPT ![Art(id)] = pic[Tmp(id)], ![Tmp(id)] = None]
    /\ fd' = [w \in Writers |-> CASE fd[w] = Tmp(id) -> Art(id)
                                  [] fd[w] = Art(id) -> Nowhere
                                  [] OTHER -> fd[w]]

---------------------------------------------------------------------------
(* The file of a track is replaced, removed or put back.  A track that has *)
(* been removed does not come back: the next file has a new id.            *)
Change(id) ==
    /\ clock < MaxVersions /\ clock' = clock + 1
    /\ id \in stored
    /\ file' \in {[file EXCEPT ![id] = v] : v \in {0, clock'}} /\ file' # file
    /\ UNCHANGED <<cfg, scanning, stored, row, known, mem, upd, lyr, pic, fd, fresh, crashes>>

(* The next step of id's upsertFile or removeTrack.                        *)
Goto(id, pc) == upd' = [upd EXCEPT ![id] = [pc |-> pc, pic |-> None]]
At(id, pc) == upd[id].pc = pc

InsertRow(id) ==
    /\ At(id, "idle") /\ id \in fresh /\ file[id] # 0
    /\ stored' = stored \union {id}
    /\ row' = [row EXCEPT ![id] = NewRow(file[id])]
    /\ fresh' = fresh \ {id}
    /\ Goto(id, "map")
    /\ UNCHANGED <<cfg, file, clock, scanning, known, mem, lyr, pic, fd, crashes>>

MapTrack(id) ==
    /\ At(id, "map")
    /\ known' = known \union {id}
    /\ mem' = [mem EXCEPT ![id] = NewTrack(row[id].song)]
    /\ Goto(id, IF row[id].song \in Pictured THEN "picture" ELSE "idle")
    /\ UNCHANGED <<cfg, file, clock, scanning, stored, row, lyr, pic, fd, fresh, crashes>>

(* Another size or time: whatever was found for the former song is reset.  *)
UpdateRow(id) ==
    /\ At(id, "idle") /\ id \in known /\ file[id] \notin {0, mem[id].song}
    /\ row' = [row EXCEPT ![id] = NewRow(file[id])]
    /\ Goto(id, "set")
    /\ UNCHANGED <<cfg, file, clock, scanning, stored, known, mem, lyr, pic, fd, fresh, crashes>>

(* Mutant: HasLyrics of the former song stays. *)
SetFields_KeepsLyrics(id) ==
    /\ At(id, "set")
    /\ mem' = [mem EXCEPT ![id] = [NewTrack(row[id].song) EXCEPT !.hasLyrics = mem[id].hasLyrics]]
    /\ Goto(id, "unlyrics")
    /\ UNCHANGED <<cfg, file, clock, scanning, stored, row, known, lyr, pic, fd, fresh, crashes>>

SetFields(id) ==
    /\ At(id, "set")
    /\ mem' = [mem EXCEPT ![id] = NewTrack(row[id].song)]
    /\ Goto(id, "unlyrics")
    /\ UNCHANGED <<cfg, file, clock, scanning, stored, row, known, lyr, pic, fd, fresh, crashes>>

RemoveLyrics(id) ==
    /\ At(id, "unlyrics")
    /\ lyr' = [lyr EXCEPT ![id] = None]
    /\ Goto(id, IF id \notin stored THEN "idle"
                ELSE IF row[id].song \in Pictured THEN "picture" ELSE "unart")
    /\ UNCHANGED <<cfg, file, clock, scanning, stored, row, known, mem, pic, fd, fresh, crashes>>

(* saveArt opens the file again, which may be another by now.              *)
OpenPicture(id) ==
    /\ At(id, "picture")
    /\ IF file[id] \in Pictured
       THEN Open(id, Art(id)) /\ upd' = [upd EXCEPT ![id] = [pc |-> "saving", pic |-> file[id]]]
       ELSE Goto(id, "idle") /\ UNCHANGED <<pic, fd>>
    /\ UNCHANGED <<cfg, file, clock, scanning, stored, row, known, mem, lyr, fresh, crashes>>

SavePicture(id) ==
    /\ At(id, "saving")
    /\ Finish(id, upd[id].pic)
    /\ Goto(id, "idle")
    /\ UNCHANGED <<cfg, file, clock, scanning, stored, row, known, mem, lyr, fresh, crashes>>

(* saveArt's error is ignored, though the row and the entry say by now that *)
(* there is a picture: the file cannot be opened or read, its picture is   *)
(* larger than maxArtBytes, or art/<id>.jpg cannot be opened.              *)
PictureLost(id) ==
    /\ At(id, "picture")
    /\ Goto(id, "idle")
    /\ UNCHANGED <<cfg, file, clock, scanning, stored, row, known, mem, lyr, pic, fd, fresh, crashes>>

(* os.WriteFile fails after it has truncated what was there.               *)
PictureCut(id) ==
    /\ At(id, "saving")
    /\ Finish(id, Half)
    /\ Goto(id, "idle")
    /\ UNCHANGED <<cfg, file, clock, scanning, stored, row, known, mem, lyr, fresh, crashes>>

RemovePicture(id) ==
    /\ At(id, "unart")
    /\ Unlink(Art(id))
    /\ Goto(id, IF id \in stored THEN "idle" ELSE "unlyrics")
    /\ UNCHANGED <<cfg, file, clock, scanning, stored, row, known, mem, lyr, fresh, crashes>>

(* os.Remove fails, which is ignored as well.                              *)
PictureStays(id) ==
    /\ At(id, "unart")
    /\ Goto(id, IF id \in stored THEN "idle" ELSE "unlyrics")
    /\ UNCHANGED <<cfg, file, clock, scanning, stored, row, known, mem, lyr, pic, fd, fresh, crashes>>

LyricsRemain(id) ==
    /\ At(id, "unlyrics")
    /\ Goto(id, IF id \notin stored THEN "idle"
                ELSE IF row[id].song \in Pictured THEN "picture" ELSE "unart")
    /\ UNCHANGED <<cfg, file, clock, scanning, stored, row, known, mem, lyr, pic, fd, fresh, crashes>>

DeleteRow(id) ==
    /\ At(id, "idle") /\ id \in known /\ file[id] = 0
    /\ stored' = stored \ {id}
    /\ row' = [row EXCEPT ![id] = NewRow(row[id].song)]
    /\ Goto(id, "unmap")
    /\ UNCHANGED <<cfg, file, clock, scanning, known, mem, lyr, pic, fd, fresh, crashes>>

(* Mutant: the row and the entry go, the caches stay. *)
Unmap_Only(id) ==
    /\ At(id, "unmap")
    /\ known' = known \ {id}
    /\ Goto(id, "idle")
    /\ UNCHANGED <<cfg, file, clock, scanning, stored, row, mem, lyr, pic, fd, fresh, crashes>>

Unmap(id) ==
    /\ At(id, "unmap")
    /\ known' = known \ {id}
    /\ Goto(id, "unart")
    /\ UNCHANGED <<cfg, file, clock, scanning, stored, row, mem, lyr, pic, fd, fresh, crashes>>

(* Memory and row are of the file, and nobody is changing that.            *)
Settled(id) ==
    /\ At(id, "idle")
    /\ id \in known => file[id] = mem[id].song
    /\ id \in fresh => file[id] = 0

ScanEnds ==
    /\ scanning /\ \A id \in Ids : Settled(id)
    /\ scanning' = FALSE
    /\ UNCHANGED <<cfg, file, clock, stored, row, known, mem, upd, lyr, pic, fd, fresh, crashes>>

(* The process dies; the next one loads the rows and scans.                *)
Restart ==
    /\ crashes < MaxCrashes /\ crashes' = crashes + 1
    /\ scanning' = TRUE
    /\ known' = stored
    /\ mem' = [id \in Ids |-> [song |-> row[id].song, dur |-> row[id].dur,
                               hasArt |-> row[id].hasArt, hasLyrics |-> row[id].hasLyrics]]
    /\ upd' = [id \in Ids |-> Ready]
    /\ fd' = [w \in Writers |-> Nowhere]
    /\ UNCHANGED <<cfg, file, clock, stored, row, lyr, pic, fresh>>

(* The tracks that a step inserts, updates or removes.                     *)
Renewed == {id \in Ids : row'[id] # row[id] \/ (id \in stored) # (id \in stored')}

(* Tags read now may be those of another file than the row's.              *)
Unsteady(id) == ~At(id, "idle") \/ id \notin stored

TrackStep(id) ==
    \/ InsertRow(id) \/ MapTrack(id) \/ UpdateRow(id) \/ SetFields(id) \/ RemoveLyrics(id)
    \/ OpenPicture(id) \/ SavePicture(id) \/ RemovePicture(id) \/ DeleteRow(id) \/ Unmap(id)

---------------------------------------------------------------------------
Rows == [song : Versions, dur : 0 .. MaxVersions, hasArt : BOOLEAN, artTried : BOOLEAN,
         hasLyrics : BOOLEAN, lyricsTried : BOOLEAN]
Mems == [song : Versions, dur : 0 .. MaxVersions, hasArt : BOOLEAN, hasLyrics : BOOLEAN]

TracksTypeOK ==
    /\ cfg \in [lyrics : BOOLEAN, itunes : BOOLEAN]
    /\ file \in [Ids -> 0 .. MaxVersions] /\ clock \in Versions /\ scanning \in BOOLEAN
    /\ stored \subseteq Ids /\ known \subseteq Ids
    /\ row \in [Ids -> Rows] /\ mem \in [Ids -> Mems]
    /\ upd \in [Ids -> [pc : {"idle", "map", "set", "unlyrics", "picture", "saving", "unart",
                               "unmap"}, pic : Content]]
    /\ lyr \in [Ids -> Content] /\ pic \in [Places -> Content]
    /\ fd \in [Writers -> Places \union {Nowhere}]
    /\ fresh \subseteq Ids /\ crashes \in 0 .. MaxCrashes
=============================================================================
