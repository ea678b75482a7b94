---------------------------- MODULE CachesProofs ----------------------------
(***************************************************************************)
(* Proofs about the caches of a track, for every number of tracks, plays,  *)
(* downloads and credits: types, the claim of a lookup, lyrics that are    *)
(* never half written, what a track is written off for, that what is       *)
(* cached of it is of its present file, its picture included, and that     *)
(* nothing stays of a track that has left.                                 *)
(***************************************************************************)
EXTENDS Caches, TLAPS

(* The steps, one by one. *)
LEMMA CacheCases ==
    ASSUME Next
    PROVE  \/ LibraryStep
           \/ ScanEnds /\ UNCHANGED <<lyricsVars, artVars>>
           \/ \E p \in Plays, id \in Ids : Begin(p, id) /\ UNCHANGED artVars
           \/ \E p \in Plays : PlayStep(p) /\ UNCHANGED artVars
           \/ ArtStep /\ UNCHANGED lyricsVars
           \/ Restart /\ LyricsRestart /\ ArtRestart
  BY DEF Next, LyricsStep

(* What saveArt and os.Remove fail at, and all that the caller of          *)
(* upsertFile or removeTrack does.                                         *)
Fault(id) == PictureLost(id) \/ PictureCut(id) \/ PictureStays(id) \/ LyricsRemain(id)
CallerStep(id) == TrackStep(id) \/ Fault(id)

(* What a step of the library costs the histories of its track. *)
Cost(id, S, T) ==
    \/ TrackStep(id)
    \/ (PictureLost(id) \/ PictureCut(id)) /\ T = {id}
    \/ PictureStays(id) /\ T = {id} \ stored
    \/ LyricsRemain(id) /\ S = {id} \ stored

LEMMA LibraryCases ==
    ASSUME LibraryStep
    PROVE  \E id \in Ids : \E S, T \in SUBSET {id} :
              /\ LyricsStay(S) /\ ArtStays(T)
              /\ (CallerStep(id) /\ Cost(id, S, T)) \/ Change(id)
  <1>1. PICK id \in Ids :
           \/ (TrackStep(id) \/ Change(id)) /\ LyricsStay({}) /\ ArtStays({})
           \/ (PictureLost(id) \/ PictureCut(id)) /\ LyricsStay({}) /\ ArtStays({id})
           \/ PictureStays(id) /\ LyricsStay({}) /\ ArtStays({id} \ stored)
           \/ LyricsRemain(id) /\ LyricsStay({id} \ stored) /\ ArtStays({})
    BY DEF LibraryStep
  <1>2. {} \in SUBSET {id} /\ {id} \in SUBSET {id} /\ {id} \ stored \in SUBSET {id}
    OBVIOUS
  <1>3. CASE (TrackStep(id) \/ Change(id)) /\ LyricsStay({}) /\ ArtStays({})
    BY <1>2, <1>3 DEF CallerStep, Cost
  <1>4. CASE (PictureLost(id) \/ PictureCut(id)) /\ LyricsStay({}) /\ ArtStays({id})
    BY <1>2, <1>4 DEF CallerStep, Fault, Cost
  <1>5. CASE PictureStays(id) /\ LyricsStay({}) /\ ArtStays({id} \ stored)
    BY <1>2, <1>5 DEF CallerStep, Fault, Cost
  <1>6. CASE LyricsRemain(id) /\ LyricsStay({id} \ stored) /\ ArtStays({})
    BY <1>2, <1>6 DEF CallerStep, Fault, Cost
  <1>. QED
    BY <1>1, <1>3, <1>4, <1>5, <1>6

-----------------------------------------------------------------------------
(* Types.  First what the library does to its own state. *)
LEMMA NewTypes ==
    ASSUME NEW v \in Versions PROVE NewRow(v) \in Rows /\ NewTrack(v) \in Mems
  BY TracksAssumption DEF NewRow, NewTrack, Rows, Mems, TracksAssumption

LEMMA ContentType == None \in Content /\ Half \in Content /\ Versions \subseteq Content
  BY DEF Content

LEMMA VersionsType ==
    /\ Ids \subseteq Versions /\ Versions \subseteq 0 .. MaxVersions /\ Tracks \in Versions
    /\ 0 \in 0 .. MaxVersions /\ \A v \in 0 .. MaxVersions : v # 0 => v \in Versions
  BY TracksAssumption DEF Ids, Versions, TracksAssumption

LEMMA PlaceType == \A id \in Ids : Art(id) \in Places /\ Tmp(id) \in Places /\ Art(id) # Tmp(id)
  BY DEF Art, Tmp, Places

LEMMA TracksTypeInit == TracksInit => TracksTypeOK
  <1>. SUFFICES ASSUME TracksInit PROVE TracksTypeOK
    OBVIOUS
  <1>1. row \in [Ids -> Rows] /\ mem \in [Ids -> Mems]
    BY VersionsType, NewTypes DEF TracksInit
  <1>2. file \in [Ids -> 0 .. MaxVersions] /\ clock \in Versions
    <2>1. PICK S \in SUBSET Ids : file = [id \in Ids |-> IF id \in S THEN id ELSE 0]
      BY DEF TracksInit
    <2>. QED
      BY <2>1, VersionsType DEF TracksInit
  <1>. QED
    BY <1>1, <1>2, ContentType DEF TracksInit, TracksTypeOK, Ready

(* Files of pictures. *)
LEMMA PictureTypes ==
    ASSUME pic \in [Places -> Content], fd \in [Writers -> Places \union {Nowhere}],
           \/ \E w \in Writers, q \in Places : Open(w, q)
           \/ \E w \in Writers, v \in Content : Finish(w, v)
           \/ \E q \in Places : Unlink(q)
           \/ \E w \in Writers, q \in Places : Discard(w, q)
           \/ \E id \in Ids : Rename(id)
    PROVE  pic' \in [Places -> Content] /\ fd' \in [Writers -> Places \union {Nowhere}]
  <1>1. ASSUME NEW w \in Writers, NEW q \in Places, Open(w, q)
        PROVE  pic' \in [Places -> Content] /\ fd' \in [Writers -> Places \union {Nowhere}]
    BY <1>1, ContentType DEF Open
  <1>2. ASSUME NEW w \in Writers, NEW v \in Content, Finish(w, v)
        PROVE  pic' \in [Places -> Content] /\ fd' \in [Writers -> Places \union {Nowhere}]
    BY <1>2, ContentType DEF Finish
  <1>3. ASSUME NEW q \in Places, Unlink(q)
        PROVE  pic' \in [Places -> Content] /\ fd' \in [Writers -> Places \union {Nowhere}]
    BY <1>3, ContentType DEF Unlink
  <1>4. ASSUME NEW id \in Ids, Rename(id)
        PROVE  pic' \in [Places -> Content] /\ fd' \in [Writers -> Places \union {Nowhere}]
    BY <1>4, ContentType, PlaceType DEF Rename
  <1>5. ASSUME NEW w \in Writers, NEW q \in Places, Discard(w, q)
        PROVE  pic' \in [Places -> Content] /\ fd' \in [Writers -> Places \union {Nowhere}]
    BY <1>5, ContentType DEF Discard
  <1>. QED
    BY <1>1, <1>2, <1>3, <1>4, <1>5

(* The next step of upsertFile or removeTrack. *)
UpdateSteps == {"idle", "map", "set", "unlyrics", "picture", "saving", "unart", "unmap"}

LEMMA TrackStepTypes ==
    ASSUME TracksTypeOK, NEW id \in Ids, CallerStep(id) PROVE TracksTypeOK'
  <1>0. /\ id \in Writers /\ Art(id) \in Places /\ row[id] \in Rows /\ row[id].song \in Versions
        /\ file[id] \in 0 .. MaxVersions
    BY PlaceType DEF TracksTypeOK, Writers, Rows
  <1>1. ASSUME NEW pc \in UpdateSteps, Goto(id, pc)
        PROVE  upd' \in [Ids -> [pc : UpdateSteps, pic : Content]]
    BY <1>1, ContentType DEF Goto, TracksTypeOK, UpdateSteps
  <1>2. CASE InsertRow(id)
    <2>1. NewRow(file[id]) \in Rows
      BY <1>0, <1>2, VersionsType, NewTypes DEF InsertRow
    <2>. QED
      BY <1>0, <1>1, <1>2, <2>1 DEF InsertRow, TracksTypeOK, UpdateSteps
  <1>3. CASE MapTrack(id)
    BY <1>0, <1>1, <1>3, NewTypes DEF MapTrack, TracksTypeOK, UpdateSteps
  <1>4. CASE UpdateRow(id)
    <2>1. NewRow(file[id]) \in Rows
      BY <1>0, <1>4, VersionsType, NewTypes DEF UpdateRow
    <2>. QED
      BY <1>0, <1>1, <1>4, <2>1 DEF UpdateRow, TracksTypeOK, UpdateSteps
  <1>5. CASE SetFields(id)
    BY <1>0, <1>1, <1>5, NewTypes DEF SetFields, TracksTypeOK, UpdateSteps
  <1>6. CASE RemoveLyrics(id)
    BY <1>0, <1>1, <1>6, ContentType DEF RemoveLyrics, TracksTypeOK, UpdateSteps
  <1>7. CASE OpenPicture(id)
    <2>1. CASE file[id] \in Pictured
      <3>1. file[id] \in Content
        BY <2>1, ContentType, TracksAssumption DEF TracksAssumption
      <3>2. upd' \in [Ids -> [pc : UpdateSteps, pic : Content]]
        BY <1>7, <2>1, <3>1 DEF OpenPicture, TracksTypeOK, UpdateSteps
      <3>. QED
        BY <1>0, <1>7, <2>1, <3>2, PictureTypes DEF OpenPicture, TracksTypeOK, UpdateSteps
    <2>2. CASE file[id] \notin Pictured
      BY <1>1, <1>7, <2>2 DEF OpenPicture, TracksTypeOK, UpdateSteps
    <2>. QED
      BY <2>1, <2>2
  <1>8. CASE SavePicture(id)
    <2>1. upd[id].pic \in Content
      BY DEF TracksTypeOK
    <2>. QED
      BY <1>0, <1>1, <1>8, <2>1, PictureTypes DEF SavePicture, TracksTypeOK, UpdateSteps
  <1>9. CASE RemovePicture(id)
    BY <1>0, <1>1, <1>9, PictureTypes DEF RemovePicture, TracksTypeOK, UpdateSteps
  <1>10. CASE DeleteRow(id)
    BY <1>0, <1>1, <1>10, NewTypes DEF DeleteRow, TracksTypeOK, UpdateSteps
  <1>11. CASE Unmap(id)
    BY <1>0, <1>1, <1>11 DEF Unmap, TracksTypeOK, UpdateSteps
  <1>12. CASE PictureLost(id) \/ PictureStays(id) \/ LyricsRemain(id)
    BY <1>0, <1>1, <1>12 DEF PictureLost, PictureStays, LyricsRemain, TracksTypeOK, UpdateSteps
  <1>13. CASE PictureCut(id)
    BY <1>0, <1>1, <1>13, PictureTypes, ContentType DEF PictureCut, TracksTypeOK, UpdateSteps
  <1>. QED
    BY <1>2, <1>3, <1>4, <1>5, <1>6, <1>7, <1>8, <1>9, <1>10, <1>11, <1>12, <1>13
    DEF CallerStep, TrackStep, Fault

LEMMA ChangeTypes ==
    ASSUME TracksTypeOK,
           (\E id \in Ids : Change(id)) \/ ScanEnds \/ Restart
    PROVE  TracksTypeOK'
  <1>1. ASSUME NEW id \in Ids, Change(id) PROVE TracksTypeOK'
    <2>1. clock' \in Versions /\ clock' \in 0 .. MaxVersions /\ 0 \in 0 .. MaxVersions
      BY <1>1, TracksAssumption DEF Change, TracksTypeOK, Versions, TracksAssumption
    <2>2. file' \in [Ids -> 0 .. MaxVersions]
      BY <1>1, <2>1 DEF Change, TracksTypeOK
    <2>. QED
      BY <1>1, <2>1, <2>2 DEF Change, TracksTypeOK
  <1>2. CASE ScanEnds
    BY <1>2 DEF ScanEnds, TracksTypeOK
  <1>3. CASE Restart
    <2>1. mem' \in [Ids -> Mems]
      BY <1>3 DEF Restart, TracksTypeOK, Rows, Mems
    <2>2. crashes' \in 0 .. MaxCrashes
      BY <1>3, TracksAssumption DEF Restart, TracksTypeOK, TracksAssumption
    <2>3. upd' \in [Ids -> [pc : UpdateSteps, pic : Content]]
      BY <1>3, ContentType DEF Restart, Ready, UpdateSteps
    <2>. QED
      BY <1>3, <2>1, <2>2, <2>3 DEF Restart, TracksTypeOK, UpdateSteps
  <1>. QED
    BY <1>1, <1>2, <1>3

(* Lookups of lyrics. *)
LEMMA LyricsTypeInit == LyricsInit => LyricsTypeOK
  BY ContentType DEF LyricsInit, LyricsTypeOK

Asking == {"probe", "saveDur", "setDur", "tried", "claim"} \union Claimed

LEMMA PlayTypes ==
    ASSUME LyricsTypeOK, NEW p \in Plays, play[p] \in Lookups
    PROVE  /\ \A pc \in Asking : GoOn(p, pc) => play' \in [Plays -> {Stopped} \union Lookups]
           /\ Done(p) => play' \in [Plays -> {Stopped} \union Lookups]
           /\ \A r \in Lookups : play' = [play EXCEPT ![p] = r]
                                  => play' \in [Plays -> {Stopped} \union Lookups]
  <1>1. \A pc \in Asking : [play[p] EXCEPT !.pc = pc] \in Lookups
    BY DEF Lookups, Asking
  <1>. QED
    BY <1>1 DEF GoOn, Done, LyricsTypeOK

(* The row and the entry in memory as a lookup may change them. *)
LEMMA LookupTypes ==
    ASSUME TracksTypeOK, LyricsTypeOK, NEW p \in Plays, play[p] \in Lookups
    PROVE  /\ Track(p) \in Ids /\ RowOf(p) \in Rows /\ mem[Track(p)] \in Mems
           /\ play[p].dur \in 0 .. MaxVersions /\ play[p].body \in Content
           /\ \A r \in Rows : UpdateTo(p, r) \in [Ids -> Rows]
           /\ Mix(p) => mixed' \subseteq Ids
  <1>1. Track(p) \in Ids /\ play[p].dur \in 0 .. MaxVersions /\ play[p].body \in Content
    BY ContentType DEF Lookups, Track, None, Content
  <1>. QED
    BY <1>1 DEF TracksTypeOK, LyricsTypeOK, RowOf, UpdateTo, Mix

LEMMA BeginTypes ==
    ASSUME TracksTypeOK, LyricsTypeOK, NEW p \in Plays, NEW id \in Ids, Begin(p, id)
    PROVE  TracksTypeOK' /\ LyricsTypeOK'
  <1>1. Unsteady(id) \in BOOLEAN /\ 0 \in 0 .. MaxVersions /\ 0 \in 0 .. Questions
    BY TracksAssumption, LyricsAssumption DEF Unsteady, At, TracksAssumption, LyricsAssumption, Questions
  <1>2. play' \in [Plays -> {Stopped} \union Lookups]
    BY <1>1 DEF Begin, LyricsTypeOK, Lookups, None
  <1>. QED
    BY <1>2 DEF Begin, trackVars, TracksTypeOK, LyricsTypeOK

LEMMA PlayStepTypes ==
    ASSUME TracksTypeOK, LyricsTypeOK, NEW p \in Plays, PlayStep(p)
    PROVE  TracksTypeOK' /\ LyricsTypeOK'
  <1>0. play[p] \in Lookups
    <2>1. play[p].pc # "idle"
      BY DEF PlayStep, Probe, SaveDuration, SetDuration, AlreadyTried, Claim, Answered,
             NotAnswered, Mark, OpenTmp, FillTmp, RenameTmp, FlagRow, Flag, Release, Doing
    <2>. QED
      BY <2>1 DEF LyricsTypeOK, Stopped
  <1>1. /\ Track(p) \in Ids /\ RowOf(p) \in Rows /\ mem[Track(p)] \in Mems
        /\ play[p].dur \in 0 .. MaxVersions /\ play[p].body \in Content
        /\ \A r \in Rows : UpdateTo(p, r) \in [Ids -> Rows]
        /\ Mix(p) => mixed' \subseteq Ids
    BY <1>0, LookupTypes
  <1>2. ASSUME \/ \E pc \in Asking : GoOn(p, pc)
               \/ Done(p)
               \/ \E r \in Lookups : play' = [play EXCEPT ![p] = r]
        PROVE  play' \in [Plays -> {Stopped} \union Lookups]
    BY <1>0, <1>2, PlayTypes
  <1>3. CASE Probe(p)
    <2>1. CASE GoOn(p, "tried")
      BY <1>2, <1>3, <2>1 DEF Probe, Asking, TracksTypeOK, LyricsTypeOK, trackVars
    <2>2. CASE ~GoOn(p, "tried")
      <3>1. [play[p] EXCEPT !.pc = "saveDur", !.dur = file[Track(p)]] \in Lookups
        BY <1>0, <1>1 DEF TracksTypeOK, Lookups
      <3>. QED
        BY <1>2, <1>3, <2>2, <3>1 DEF Probe, TracksTypeOK, LyricsTypeOK, trackVars
    <2>. QED
      BY <2>1, <2>2
  <1>4. CASE SaveDuration(p)
    <2>1. [RowOf(p) EXCEPT !.dur = play[p].dur] \in Rows
      BY <1>1 DEF Rows
    <2>. QED
      BY <1>1, <1>2, <1>4, <2>1 DEF SaveDuration, RestOfTracks, Asking, TracksTypeOK, LyricsTypeOK
  <1>5. CASE SetDuration(p)
    <2>1. [play[p] EXCEPT !.pc = "tried", !.dur = 0] \in Lookups
      BY <1>0, VersionsType DEF Lookups
    <2>2. mem' \in [Ids -> Mems]
      BY <1>1, <1>5 DEF SetDuration, TracksTypeOK, Mems
    <2>. QED
      BY <1>1, <1>2, <1>5, <2>1, <2>2 DEF SetDuration, RestOfTracks, TracksTypeOK, LyricsTypeOK
  <1>6. CASE AlreadyTried(p)
    BY <1>2, <1>6 DEF AlreadyTried, Asking, TracksTypeOK, LyricsTypeOK, trackVars
  <1>7. CASE Claim(p)
    <2>1. CASE Busy(p)
      BY <1>2, <1>7, <2>1 DEF Claim, TracksTypeOK, LyricsTypeOK, trackVars
    <2>2. CASE ~Busy(p)
      <3>1. /\ Unsteady(Track(p)) \in BOOLEAN /\ 1 \in 0 .. Questions
            /\ mem[Track(p)].song \in Versions
        BY <1>1, LyricsAssumption DEF Unsteady, At, LyricsAssumption, Questions, Mems
      <3>2. [play[p] EXCEPT !.pc = "ask", !.asked = 1, !.song = mem[Track(p)].song,
                            !.crossed = Unsteady(Track(p))] \in Lookups
        BY <1>0, <3>1 DEF Lookups, Claimed
      <3>. QED
        BY <1>1, <1>2, <1>7, <2>2, <3>2 DEF Claim, TracksTypeOK, LyricsTypeOK, trackVars
    <2>. QED
      BY <2>1, <2>2
  <1>8. CASE Answered(p)
    <2>1. PICK v \in {play[p].song, None, mem[Track(p)].song} :
               play' = [play EXCEPT ![p].pc = "mark", ![p].body = v, ![p].failed = FALSE]
      BY <1>8 DEF Answered
    <2>2. [play[p] EXCEPT !.pc = "mark", !.body = v, !.failed = FALSE] \in Lookups
      BY <1>0, <1>1 DEF Lookups, Claimed, Mems
    <2>. QED
      BY <1>2, <1>8, <2>1, <2>2 DEF Answered, TracksTypeOK, LyricsTypeOK, trackVars
  <1>9. CASE NotAnswered(p)
    <2>1. PICK fails \in BOOLEAN :
             play' = [play EXCEPT ![p].erred = Note(p, fails), ![p].failed = @ \/ fails,
                        ![p].asked = IF play[p].asked = Questions THEN @ ELSE @ + 1,
                        ![p].pc = IF play[p].asked # Questions THEN "ask"
                                  ELSE IF Note(p, fails) THEN "release" ELSE "mark"]
      BY <1>9 DEF NotAnswered
    <2>2. Note(p, fails) \in BOOLEAN /\ (play[p].failed \/ fails) \in BOOLEAN
      BY <1>0 DEF Note, Lookups
    <2>3. (IF play[p].asked = Questions THEN play[p].asked ELSE play[p].asked + 1) \in 0 .. Questions
      BY <1>0, LyricsAssumption DEF Lookups, LyricsAssumption, Questions
    <2>4. [play[p] EXCEPT !.erred = Note(p, fails), !.failed = @ \/ fails,
                        !.asked = IF play[p].asked = Questions THEN @ ELSE @ + 1,
                        !.pc = IF play[p].asked # Questions THEN "ask"
                               ELSE IF Note(p, fails) THEN "release" ELSE "mark"] \in Lookups
      BY <1>0, <2>2, <2>3 DEF Lookups, Claimed
    <2>. QED
      BY <1>2, <1>9, <2>1, <2>4 DEF NotAnswered, TracksTypeOK, LyricsTypeOK, trackVars
  <1>10. CASE Mark(p)
    <2>1. [RowOf(p) EXCEPT !.lyricsTried = TRUE] \in Rows
      BY <1>1 DEF Rows
    <2>2. row' \in [Ids -> Rows]
      BY <1>1, <1>10, <2>1 DEF Mark, TracksTypeOK
    <2>3. play' \in [Plays -> {Stopped} \union Lookups]
      BY <1>2, <1>10 DEF Mark, Asking, Claimed
    <2>4. mixed' \subseteq Ids /\ answered' \subseteq Ids
      BY <1>1, <1>10 DEF Mark, LyricsTypeOK
    <2>. QED
      BY <1>10, <2>2, <2>3, <2>4 DEF Mark, RestOfTracks, TracksTypeOK, LyricsTypeOK
  <1>11. CASE OpenTmp(p) \/ FillTmp(p)
    <2>1. lyrTmp' \in [Ids -> Content]
      BY <1>1, <1>11, ContentType DEF OpenTmp, FillTmp, LyricsTypeOK
    <2>2. play' \in [Plays -> {Stopped} \union Lookups]
      <3>1. {"fill", "rename", "release"} \subseteq Asking
        BY DEF Asking, Claimed
      <3>2. GoOn(p, "fill") \/ GoOn(p, "rename") \/ GoOn(p, "release")
        BY <1>11 DEF OpenTmp, FillTmp
      <3>. QED
        BY <1>2, <3>1, <3>2
    <2>. QED
      BY <1>11, <2>1, <2>2 DEF OpenTmp, FillTmp, TracksTypeOK, LyricsTypeOK, trackVars
  <1>12. CASE RenameTmp(p)
    BY <1>1, <1>2, <1>12, ContentType
    DEF RenameTmp, RestOfTracks, Asking, Claimed, TracksTypeOK, LyricsTypeOK
  <1>13. CASE FlagRow(p)
    <2>1. [RowOf(p) EXCEPT !.hasLyrics = TRUE] \in Rows
      BY <1>1 DEF Rows
    <2>. QED
      BY <1>1, <1>2, <1>13, <2>1
      DEF FlagRow, RestOfTracks, Asking, Claimed, TracksTypeOK, LyricsTypeOK
  <1>14. CASE Flag(p)
    <2>1. mem' \in [Ids -> Mems]
      BY <1>1, <1>14 DEF Flag, TracksTypeOK, Mems
    <2>. QED
      BY <1>1, <1>2, <1>14, <2>1
      DEF Flag, RestOfTracks, Asking, Claimed, TracksTypeOK, LyricsTypeOK
  <1>15. CASE Release(p)
    BY <1>2, <1>15 DEF Release, TracksTypeOK, LyricsTypeOK, trackVars
  <1>. QED
    BY <1>3, <1>4, <1>5, <1>6, <1>7, <1>8, <1>9, <1>10, <1>11, <1>12, <1>13, <1>14, <1>15
    DEF PlayStep

(* Downloads of pictures. *)
LEMMA ArtTypeInit == ArtworkInit => ArtworkTypeOK
  BY DEF ArtworkInit, ArtworkTypeOK

Works == {"throttle", "stamp", "ask", "create", "copy", "rename", "twin", "copying",
          "flagRow", "flag", "tried"}
States == {Waiting, Fetching, Idling} \union Jobs

LEMMA CandidateType ==
    ASSUME NEW id \in Ids, NEW v \in Versions PROVE Candidate(id, v) \in Candidates
  BY DEF Candidate, Candidates, Unsteady, At

LEMMA GroupType ==
    ASSUME NEW pc \in Works, NEW top \in Candidates, NEW S \in SUBSET Candidates
    PROVE  Group(pc, top, S) \in States
  BY DEF Group, Jobs, States, Works

LEMMA JobTypes ==
    ASSUME ArtworkTypeOK, NEW d \in Downloads, dl[d] \in Jobs
    PROVE  /\ Top(d) \in Candidates /\ Top(d).id \in Ids /\ Top(d).song \in Versions
           /\ dl[d].left \subseteq Candidates
           /\ \A pc \in Works : To(d, pc) \/ Loop(d, pc) => dl' \in [Downloads -> States]
           /\ Over(d) \/ Fail(d) => dl' \in [Downloads -> States]
           /\ \A g \in States : dl' = [dl EXCEPT ![d] = g] => dl' \in [Downloads -> States]
           /\ \A c \in Candidates, pc \in Works :
                 (dl' = [dl EXCEPT ![d].pc = pc, ![d].left = @ \ {c}])
                    => dl' \in [Downloads -> States]
  <1>0. dl \in [Downloads -> States]
    BY DEF ArtworkTypeOK, States
  <1>1. Top(d) \in Candidates /\ Top(d).id \in Ids /\ Top(d).song \in Versions
        /\ dl[d].left \subseteq Candidates
    BY DEF Jobs, Top, Candidates
  <1>2. \A pc \in Works : /\ [dl[d] EXCEPT !.pc = pc] \in Jobs
                          /\ [dl[d] EXCEPT !.pc = pc, !.left = dl[d].group] \in Jobs
    BY DEF Jobs, Works
  <1>3. \A c \in Candidates, pc \in Works :
           [dl[d] EXCEPT !.pc = pc, !.left = @ \ {c}] \in Jobs
    BY DEF Jobs, Works
  <1>4. \A pc \in Works : To(d, pc) \/ Loop(d, pc) => dl' \in [Downloads -> States]
    <2>1. \A pc \in Works : To(d, pc) => dl' \in [Downloads -> States]
      BY <1>0, <1>2 DEF To, States
    <2>2. \A pc \in Works : Loop(d, pc) => dl' \in [Downloads -> States]
      BY <1>0, <1>2 DEF Loop, States
    <2>. QED
      BY <2>1, <2>2
  <1>5. Over(d) \/ Fail(d) => dl' \in [Downloads -> States]
    <2>1. "tried" \in Works
      BY DEF Works
    <2>2. Over(d) => dl' \in [Downloads -> States]
      BY <1>0 DEF Over, States
    <2>. QED
      BY <1>4, <2>1, <2>2 DEF Fail
  <1>6. \A c \in Candidates, pc \in Works :
           (dl' = [dl EXCEPT ![d].pc = pc, ![d].left = @ \ {c}]) => dl' \in [Downloads -> States]
    BY <1>0, <1>3 DEF States
  <1>7. \A g \in States : dl' = [dl EXCEPT ![d] = g] => dl' \in [Downloads -> States]
    BY <1>0
  <1>. QED
    BY <1>1, <1>4, <1>5, <1>6, <1>7

LEMMA AfterTypes ==
    ASSUME ArtworkTypeOK, NEW d \in Downloads, dl[d] \in Jobs, NEW c \in dl[d].left,
           \/ After(d, c, "twin", Loop(d, "flagRow"))
           \/ After(d, c, "flagRow", Over(d))
           \/ After(d, c, "tried", Over(d))
    PROVE  dl' \in [Downloads -> States]
  <1>1. {"twin", "flagRow", "tried"} \subseteq Works
    BY DEF Works
  <1>2. c \in Candidates
    BY JobTypes
  <1>3. CASE dl[d].left = {c}
    BY <1>1, <1>3, JobTypes DEF After
  <1>4. CASE dl[d].left # {c}
    BY <1>1, <1>2, <1>4, JobTypes DEF After
  <1>. QED
    BY <1>3, <1>4

(* One step of a download: its place, the pictures and what it writes of a track. *)
LEMMA DownloadStepTypes ==
    ASSUME TracksTypeOK, ArtworkTypeOK, NEW d \in Downloads, dl[d] \in Jobs, DownloadStep(d)
    PROVE  TracksTypeOK' /\ ArtworkTypeOK'
  <1>0. /\ Top(d) \in Candidates /\ Top(d).id \in Ids /\ Top(d).song \in Versions
        /\ dl[d].left \subseteq Candidates /\ d \in Writers
        /\ Art(Top(d).id) \in Places /\ Tmp(Top(d).id) \in Places
        /\ Top(d).song \in Content /\ pic[Art(Top(d).id)] \in Content
    BY JobTypes, ContentType, PlaceType DEF Writers, TracksTypeOK
  <1>1. \A c \in Candidates : c.id \in Ids /\ Art(c.id) \in Places
    BY PlaceType DEF Candidates
  <1>2. \A b : \A c \in Candidates : BlurIf(b, c) \/ Blur({c.id}) => blurred' \subseteq Ids
    BY <1>1 DEF BlurIf, Blur, ArtworkTypeOK
  <1>3. \A pc \in Works : To(d, pc) \/ Loop(d, pc) => dl' \in [Downloads -> States]
    BY JobTypes
  <1>4. Over(d) \/ Fail(d) => dl' \in [Downloads -> States]
    BY JobTypes
  <1>5. \A g \in States : dl' = [dl EXCEPT ![d] = g] => dl' \in [Downloads -> States]
    BY JobTypes
  <1>6. SUFFICES /\ dl' \in [Downloads -> States] /\ pending' \subseteq Candidates
                 /\ recent' \subseteq {Song(v) : v \in Versions} /\ blurred' \subseteq Ids
                 /\ TracksTypeOK'
    BY DEF ArtworkTypeOK, States
  <1>7. CASE Throttle(d)
    BY <1>3, <1>4, <1>7 DEF Throttle, Works, trackVars, TracksTypeOK, ArtworkTypeOK
  <1>8. CASE Stamp(d)
    <2>1. mem[Top(d).id].song \in Versions
      BY <1>0 DEF TracksTypeOK, Mems
    <2>2. Candidate(Top(d).id, mem[Top(d).id].song) \in Candidates
      BY <1>0, <2>1, CandidateType
    <2>3. dl' \in [Downloads -> States]
      BY <1>5, <1>8, <2>2, GroupType DEF Stamp, Works
    <2>. QED
      BY <1>0, <1>8, <2>3 DEF Stamp, trackVars, TracksTypeOK, ArtworkTypeOK
  <1>9. CASE AskITunes(d)
    BY <1>3, <1>4, <1>9 DEF AskITunes, Works, trackVars, TracksTypeOK, ArtworkTypeOK
  <1>10. CASE CreateTmp(d)
    <2>1. dl' \in [Downloads -> States]
      BY <1>3, <1>4, <1>10 DEF CreateTmp, Works
    <2>2. blurred' \subseteq Ids
      BY <1>0, <1>2, <1>10 DEF CreateTmp, ArtworkTypeOK
    <2>3. pic' \in [Places -> Content] /\ fd' \in [Writers -> Places \union {Nowhere}]
      BY <1>0, <1>10, PictureTypes DEF CreateTmp, TracksTypeOK
    <2>. QED
      BY <1>10, <2>1, <2>2, <2>3 DEF CreateTmp, RestOfTracks_, TracksTypeOK, ArtworkTypeOK
  <1>11. CASE CopyBody(d)
    <2>1. dl' \in [Downloads -> States]
      BY <1>3, <1>4, <1>11 DEF CopyBody, Works
    <2>2. blurred' \subseteq Ids
      BY <1>0, <1>2, <1>11 DEF CopyBody
    <2>3. pic' \in [Places -> Content] /\ fd' \in [Writers -> Places \union {Nowhere}]
      BY <1>0, <1>11, ContentType, PictureTypes DEF CopyBody, TracksTypeOK
    <2>. QED
      BY <1>11, <2>1, <2>2, <2>3 DEF CopyBody, RestOfTracks_, TracksTypeOK, ArtworkTypeOK
  <1>12. CASE RenamePicture(d)
    <2>1. dl' \in [Downloads -> States]
      BY <1>3, <1>4, <1>12 DEF RenamePicture, Works
    <2>2. blurred' \subseteq Ids
      BY <1>0, <1>2, <1>12 DEF RenamePicture, ArtworkTypeOK
    <2>3. pic' \in [Places -> Content] /\ fd' \in [Writers -> Places \union {Nowhere}]
      BY <1>0, <1>12, PictureTypes DEF RenamePicture, TracksTypeOK
    <2>. QED
      BY <1>12, <2>1, <2>2, <2>3 DEF RenamePicture, RestOfTracks_, TracksTypeOK, ArtworkTypeOK
  <1>13. ASSUME NEW c \in dl[d].left, CopyToTwin(d, c)
         PROVE  /\ dl' \in [Downloads -> States] /\ blurred' \subseteq Ids
                /\ pic' \in [Places -> Content] /\ fd' \in [Writers -> Places \union {Nowhere}]
    <2>1. dl' \in [Downloads -> States]
      BY <1>3, <1>13, AfterTypes DEF CopyToTwin, Works
    <2>2. blurred' \subseteq Ids
      BY <1>0, <1>2, <1>13 DEF CopyToTwin
    <2>3. pic' \in [Places -> Content] /\ fd' \in [Writers -> Places \union {Nowhere}]
      BY <1>0, <1>1, <1>13, PictureTypes DEF CopyToTwin, TracksTypeOK
    <2>. QED
      BY <2>1, <2>2, <2>3
  <1>14. ASSUME NEW c \in dl[d].left, CopyTwin(d, c)
         PROVE  /\ dl' \in [Downloads -> States] /\ blurred' \subseteq Ids
                /\ pic' \in [Places -> Content] /\ fd' \in [Writers -> Places \union {Nowhere}]
    <2>1. dl' \in [Downloads -> States]
      BY <1>14, AfterTypes DEF CopyTwin
    <2>2. blurred' \subseteq Ids
      BY <1>0, <1>2, <1>14 DEF CopyTwin
    <2>3. pic' \in [Places -> Content] /\ fd' \in [Writers -> Places \union {Nowhere}]
      BY <1>0, <1>14, ContentType, PictureTypes DEF CopyTwin, TracksTypeOK
    <2>. QED
      BY <2>1, <2>2, <2>3
  <1>15. CASE \E c \in dl[d].left : CopyToTwin(d, c) \/ CopyTwin(d, c)
    <2>1. PICK c \in dl[d].left : CopyToTwin(d, c) \/ CopyTwin(d, c)
      BY <1>15
    <2>2. UNCHANGED <<RestOfTracks_, row, mem, pending, recent>>
      BY <2>1 DEF CopyToTwin, CopyTwin
    <2>. QED
      BY <1>13, <1>14, <2>1, <2>2 DEF RestOfTracks_, TracksTypeOK, ArtworkTypeOK
  <1>16. ASSUME NEW c \in dl[d].left, FlagArtRow(d, c)
         PROVE  /\ dl' \in [Downloads -> States] /\ pending' \subseteq Candidates
                /\ recent' \subseteq {Song(v) : v \in Versions} /\ blurred' \subseteq Ids
                /\ TracksTypeOK'
    <2>1. dl' \in [Downloads -> States]
      BY <1>3, <1>16 DEF FlagArtRow, Works
    <2>2. blurred' \subseteq Ids
      BY <1>0, <1>2, <1>16 DEF FlagArtRow
    <2>3. row' \in [Ids -> Rows]
      <3>1. c.id \in Ids /\ row \in [Ids -> Rows]
        BY <1>0, <1>1 DEF TracksTypeOK
      <3>2. row[c.id] \in Rows
        BY <3>1
      <3>3. [row[c.id] EXCEPT !.hasArt = TRUE, !.artTried = TRUE] \in Rows
        BY <3>2 DEF Rows
      <3>4. [row EXCEPT ![c.id].hasArt = TRUE, ![c.id].artTried = TRUE] \in [Ids -> Rows]
        BY <3>1, <3>3
      <3>. QED
        BY <1>16, <3>1, <3>4 DEF FlagArtRow
    <2>. QED
      BY <1>16, <2>1, <2>2, <2>3 DEF FlagArtRow, RestOfTracks_, TracksTypeOK, ArtworkTypeOK
  <1>17. ASSUME NEW c \in dl[d].left, FlagArt(d, c)
         PROVE  /\ dl' \in [Downloads -> States] /\ pending' \subseteq Candidates
                /\ recent' \subseteq {Song(v) : v \in Versions} /\ blurred' \subseteq Ids
                /\ TracksTypeOK'
    <2>1. dl' \in [Downloads -> States]
      BY <1>17, AfterTypes DEF FlagArt
    <2>2. blurred' \subseteq Ids
      BY <1>0, <1>2, <1>17 DEF FlagArt
    <2>3. mem' \in [Ids -> Mems]
      BY <1>0, <1>1, <1>17 DEF FlagArt, TracksTypeOK, Mems
    <2>. QED
      BY <1>17, <2>1, <2>2, <2>3 DEF FlagArt, RestOfTracks_, TracksTypeOK, ArtworkTypeOK
  <1>18. ASSUME NEW c \in dl[d].left, MarkArtTried(d, c)
         PROVE  /\ dl' \in [Downloads -> States] /\ pending' \subseteq Candidates
                /\ recent' \subseteq {Song(v) : v \in Versions} /\ blurred' \subseteq Ids
                /\ TracksTypeOK'
    <2>1. dl' \in [Downloads -> States]
      BY <1>18, AfterTypes DEF MarkArtTried
    <2>2. row' \in [Ids -> Rows]
      <3>1. c.id \in Ids /\ row \in [Ids -> Rows]
        BY <1>0, <1>1 DEF TracksTypeOK
      <3>2. [row[c.id] EXCEPT !.artTried = TRUE] \in Rows
        BY <3>1 DEF Rows
      <3>3. [row EXCEPT ![c.id].artTried = TRUE] \in [Ids -> Rows]
        BY <3>1, <3>2
      <3>. QED
        BY <1>18, <3>1, <3>3 DEF MarkArtTried
    <2>. QED
      BY <1>18, <2>1, <2>2 DEF MarkArtTried, RestOfTracks_, TracksTypeOK, ArtworkTypeOK
  <1>. QED
    BY <1>7, <1>8, <1>9, <1>10, <1>11, <1>12, <1>15, <1>16, <1>17, <1>18 DEF DownloadStep

LEMMA ArtStepTypes ==
    ASSUME TracksTypeOK, ArtworkTypeOK, ArtStep PROVE TracksTypeOK' /\ ArtworkTypeOK'
  <1>1. CASE Query
    <2>1. \A id \in stored : Candidate(id, row[id].song) \in Candidates
      BY CandidateType DEF TracksTypeOK, Rows
    <2>2. pending' \subseteq Candidates
      BY <1>1, <2>1 DEF Query
    <2>3. dl' \in [Downloads -> States]
      BY <1>1, ArtworkAssumption DEF Query, Over, ArtworkTypeOK, States, ArtworkAssumption
    <2>. QED
      BY <1>1, <2>2, <2>3 DEF Query, trackVars, TracksTypeOK, ArtworkTypeOK, States
  <1>2. CASE NextSong
    <2>1. PICK top \in pending, S \in SUBSET pending :
             dl' = [dl EXCEPT ![Batch] = Group("ask", top, S)] /\ pending' = pending \ S
      BY <1>2 DEF NextSong
    <2>2. Group("ask", top, S) \in States /\ pending' \subseteq Candidates
      BY <2>1, GroupType DEF Works, ArtworkTypeOK
    <2>3. dl' \in [Downloads -> States]
      BY <2>1, <2>2 DEF ArtworkTypeOK, States
    <2>. QED
      BY <1>2, <2>2, <2>3 DEF NextSong, trackVars, TracksTypeOK, ArtworkTypeOK, States
  <1>3. ASSUME NEW d \in Downloads, NEW id \in Ids, StartRefresh(d, id)
        PROVE  TracksTypeOK' /\ ArtworkTypeOK'
    <2>1. mem[id].song \in Versions
      BY DEF TracksTypeOK, Mems
    <2>2. Candidate(id, mem[id].song) \in Candidates
      BY <2>1, CandidateType
    <2>3. dl' \in [Downloads -> States]
      BY <1>3, <2>2, GroupType DEF StartRefresh, Works, ArtworkTypeOK, States
    <2>. QED
      BY <1>3, <2>3 DEF StartRefresh, trackVars, TracksTypeOK, ArtworkTypeOK, States
  <1>4. ASSUME NEW d \in Downloads, dl[d].pc \notin {"idle", "query", "next"}, DownloadStep(d)
        PROVE  TracksTypeOK' /\ ArtworkTypeOK'
    <2>1. dl[d] \in Jobs
      BY <1>4 DEF ArtworkTypeOK, Waiting, Fetching, Idling
    <2>. QED
      BY <1>4, <2>1, DownloadStepTypes
  <1>5. ASSUME NEW song \in recent, ThrottleExpires(song) PROVE TracksTypeOK' /\ ArtworkTypeOK'
    BY <1>5 DEF ThrottleExpires, trackVars, TracksTypeOK, ArtworkTypeOK
  <1>. QED
    BY <1>1, <1>2, <1>3, <1>4, <1>5 DEF ArtStep

(* What a step of the library, and a restart, do to lookups and downloads. *)
LEMMA StayTypes ==
    ASSUME TypeOK, NEW S \in SUBSET Ids, NEW T \in SUBSET Ids, LyricsStay(S), ArtStays(T)
    PROVE  LyricsTypeOK' /\ ArtworkTypeOK'
  <1>1. play' \in [Plays -> {Stopped} \union Lookups]
    <2>1. ASSUME NEW p \in Plays, ~Doing(p, "idle")
          PROVE  [play[p] EXCEPT !.crossed = TRUE] \in Lookups
      <3>1. play[p] \in Lookups
        BY <2>1 DEF TypeOK, LyricsTypeOK, Doing, Stopped
      <3>. QED
        BY <3>1 DEF Lookups
    <2>. QED
      BY <2>1 DEF TypeOK, LyricsTypeOK, LyricsStay
  <1>2. \A c \in Candidates : Crosses(c) \in Candidates
    BY DEF Crosses, Candidates
  <1>3. pending' \subseteq Candidates
    BY <1>2 DEF TypeOK, ArtworkTypeOK, ArtStays
  <1>4. dl' \in [Downloads -> States]
    <2>1. SUFFICES ASSUME NEW d \in Downloads PROVE dl'[d] \in States
      BY DEF ArtStays
    <2>2. CASE dl[d].pc \in {"idle", "query", "next"}
      BY <2>2 DEF ArtStays, TypeOK, ArtworkTypeOK, States
    <2>3. CASE dl[d].pc \notin {"idle", "query", "next"}
      <3>1. dl[d] \in Jobs
        BY <2>3 DEF TypeOK, ArtworkTypeOK, Waiting, Fetching, Idling
      <3>2. /\ dl[d].pc \in Works /\ Crosses(dl[d].top) \in Candidates
            /\ {Crosses(c) : c \in dl[d].group} \subseteq Candidates
            /\ {Crosses(c) : c \in dl[d].left} \subseteq Candidates
        BY <1>2, <3>1 DEF Jobs, Works
      <3>. QED
        BY <2>3, <3>2 DEF ArtStays, States, Jobs, Works
    <2>. QED
      BY <2>2, <2>3
  <1>. QED
    BY <1>1, <1>3, <1>4 DEF TypeOK, LyricsTypeOK, LyricsStay, ArtworkTypeOK, ArtStays, States

LEMMA RestartTypes ==
    ASSUME TypeOK, LyricsRestart, ArtRestart PROVE LyricsTypeOK' /\ ArtworkTypeOK'
  <1>1. LyricsTypeOK'
    BY DEF TypeOK, LyricsTypeOK, LyricsRestart
  <1>2. blurred' \subseteq Ids
    BY DEF TypeOK, ArtworkTypeOK, ArtRestart, Blur
  <1>. QED
    BY <1>1, <1>2 DEF ArtRestart, ArtworkTypeOK

(* Everything a track is known by is well formed, whatever happens to it   *)
(* at once: a file that is replaced under lookups and downloads of its     *)
(* tags, plays that overlap, deaths of the process.                        *)
THEOREM TypeCorrect == Spec => []TypeOK
  <1>1. Init => TypeOK
    BY TracksTypeInit, LyricsTypeInit, ArtTypeInit DEF Init, TypeOK
  <1>2. TypeOK /\ [Next]_vars => TypeOK'
    <2>1. SUFFICES ASSUME TypeOK, [Next]_vars PROVE TypeOK'
      OBVIOUS
    <2>2. CASE LibraryStep
      <3>1. TracksTypeOK'
        BY <2>1, <2>2, LibraryCases, TrackStepTypes, ChangeTypes DEF TypeOK
      <3>2. PICK S, T \in SUBSET Ids : LyricsStay(S) /\ ArtStays(T)
        BY <2>2, LibraryCases
      <3>. QED
        BY <2>1, <3>1, <3>2, StayTypes DEF TypeOK
    <2>3. CASE ScanEnds /\ UNCHANGED <<lyricsVars, artVars>>
      BY <2>1, <2>3, ChangeTypes
      DEF TypeOK, lyricsVars, artVars, LyricsTypeOK, ArtworkTypeOK
    <2>4. CASE LyricsStep /\ UNCHANGED artVars
      <3>1. TracksTypeOK' /\ LyricsTypeOK'
        BY <2>1, <2>4, BeginTypes, PlayStepTypes DEF LyricsStep, TypeOK
      <3>. QED
        BY <2>1, <2>4, <3>1 DEF TypeOK, artVars, ArtworkTypeOK
    <2>5. CASE ArtStep /\ UNCHANGED lyricsVars
      <3>1. TracksTypeOK' /\ ArtworkTypeOK'
        BY <2>1, <2>5, ArtStepTypes DEF TypeOK
      <3>. QED
        BY <2>1, <2>5, <3>1 DEF TypeOK, lyricsVars, LyricsTypeOK
    <2>6. CASE Restart /\ LyricsRestart /\ ArtRestart
      BY <2>1, <2>6, ChangeTypes, RestartTypes DEF TypeOK
    <2>7. CASE UNCHANGED vars
      BY <2>1, <2>7 DEF vars, trackVars, lyricsVars, artVars, TypeOK, TracksTypeOK,
                        LyricsTypeOK, ArtworkTypeOK
    <2>. QED
      BY <2>1, <2>2, <2>3, <2>4, <2>5, <2>6, <2>7 DEF Next
  <1>. QED
    BY <1>1, <1>2, PTL DEF Spec

-----------------------------------------------------------------------------
(* Claims: at most one lookup of a track is past LoadOrStore, which is why *)
(* its temporary file, once filled, is whole until it is renamed.          *)
Holders == {p \in Plays : play[p].pc \in Claimed}
OneLookup == \A p, q \in Holders : Track(p) = Track(q) => p = q
FilledIsWhole == \A p \in Plays : Doing(p, "rename") => lyrTmp[Track(p)] # Half
ClaimInv == TypeOK /\ OneLookup /\ ClaimIsHeld /\ FilledIsWhole /\ LyricsWhole

LEMMA HeldTracks == ClaimIsHeld <=> inflight = {Track(p) : p \in Holders}
  BY DEF ClaimIsHeld, Holders

(* A step that leaves lookups their claims and their tracks. *)
LEMMA ClaimsStay ==
    ASSUME OneLookup, ClaimIsHeld, inflight' = inflight, Holders' = Holders,
           \A p \in Holders : play'[p].id = play[p].id
    PROVE  OneLookup' /\ ClaimIsHeld'
  <1>1. \A p \in Holders : Track(p)' = Track(p)
    BY DEF Track
  <1>2. OneLookup'
    BY <1>1 DEF OneLookup
  <1>3. inflight' = {Track(p)' : p \in Holders'}
    BY <1>1, HeldTracks
  <1>. QED
    BY <1>2, <1>3 DEF ClaimIsHeld, Holders

(* A lookup that moves on within its claim, or outside of one. *)
LEMMA MovesOn ==
    ASSUME OneLookup, ClaimIsHeld, inflight' = inflight,
           NEW p \in Plays, \A q \in Plays \ {p} : play'[q] = play[q],
           play'[p].pc \in Claimed <=> play[p].pc \in Claimed,
           play'[p].pc \in Claimed => play'[p].id = play[p].id
    PROVE  OneLookup' /\ ClaimIsHeld'
  <1>1. Holders' = Holders
    BY DEF Holders
  <1>2. \A q \in Holders : play'[q].id = play[q].id
    BY DEF Holders
  <1>. QED
    BY <1>1, <1>2, ClaimsStay

LEMMA TakesClaim ==
    ASSUME TypeOK, OneLookup, ClaimIsHeld, NEW p \in Plays, Claim(p)
    PROVE  OneLookup' /\ ClaimIsHeld'
  <1>1. DOMAIN play = Plays /\ play[p].pc = "claim" /\ play[p] \in Lookups
        /\ "claim" \notin Claimed /\ "idle" \notin Claimed /\ "ask" \in Claimed
    BY DEF Claim, Doing, TypeOK, LyricsTypeOK, Stopped, Claimed
  <1>2. CASE Busy(p)
    <2>1. play' = [play EXCEPT ![p] = Stopped] /\ inflight' = inflight /\ Stopped.pc = "idle"
      BY <1>2 DEF Claim, Done, Stopped
    <2>2. play'[p].pc = "idle" /\ \A q \in Plays \ {p} : play'[q] = play[q]
      BY <1>1, <2>1
    <2>. QED
      BY <1>1, <2>1, <2>2, MovesOn
  <1>3. CASE ~Busy(p)
    <2>1. \A q \in Plays \ {p} : play'[q] = play[q]
      BY <1>1, <1>3 DEF Claim
    <2>2. play'[p].pc = "ask" /\ play'[p].id = play[p].id
      BY <1>1, <1>3 DEF Claim, Lookups
    <2>3. inflight' = inflight \union {Track(p)} /\ Track(p) \notin inflight
      BY <1>3 DEF Claim, Busy
    <2>4. Holders' = Holders \union {p} /\ p \notin Holders
      BY <1>1, <2>1, <2>2 DEF Holders
    <2>5. \A q \in Holders' : play'[q].id = play[q].id
      BY <2>1, <2>2, <2>4 DEF Holders
    <2>6. \A q \in Holders : Track(q) # Track(p)
      BY <2>3, HeldTracks
    <2>7. OneLookup'
      BY <2>4, <2>5, <2>6 DEF OneLookup, Track
    <2>8. inflight' = {Track(q)' : q \in Holders'}
      BY <2>3, <2>4, <2>5, HeldTracks DEF Track
    <2>. QED
      BY <2>7, <2>8 DEF ClaimIsHeld, Holders
  <1>. QED
    BY <1>2, <1>3

LEMMA GivesClaimBack ==
    ASSUME TypeOK, OneLookup, ClaimIsHeld, NEW p \in Plays, Release(p)
    PROVE  OneLookup' /\ ClaimIsHeld'
  <1>1. DOMAIN play = Plays /\ p \in Holders /\ Stopped.pc \notin Claimed
    BY DEF Release, Doing, TypeOK, LyricsTypeOK, Holders, Stopped, Claimed
  <1>2. \A q \in Plays : play'[q] = IF q = p THEN Stopped ELSE play[q]
    BY <1>1 DEF Release, Done
  <1>3. Holders' = Holders \ {p} /\ \A q \in Holders' : play'[q].id = play[q].id
    BY <1>1, <1>2 DEF Holders
  <1>4. inflight' = inflight \ {Track(p)} /\ \A q \in Holders' : Track(q) # Track(p)
    BY <1>1, <1>3 DEF Release, OneLookup
  <1>5. OneLookup'
    BY <1>3 DEF OneLookup, Track
  <1>6. inflight' = {Track(q)' : q \in Holders'}
    BY <1>1, <1>3, <1>4, HeldTracks DEF Track
  <1>. QED
    BY <1>5, <1>6 DEF ClaimIsHeld, Holders

(* A lookup that is not idle is of a track. *)
LEMMA TrackOf ==
    ASSUME TypeOK, NEW p \in Plays, ~Doing(p, "idle") PROVE play[p] \in Lookups /\ Track(p) \in Ids
  <1>1. play[p] \in Lookups
    BY DEF TypeOK, LyricsTypeOK, Doing, Stopped
  <1>. QED
    BY <1>1 DEF Track, Lookups

(* What a question may lead to. *)
LEMMA AskingGoesOn ==
    ASSUME TypeOK, NEW p \in Plays, play[p] \in Lookups, Answered(p) \/ NotAnswered(p)
    PROVE  play'[p].id = play[p].id /\ play'[p].pc \in {"ask", "mark", "release"}
  <1>0. DOMAIN play = Plays
    BY DEF TypeOK, LyricsTypeOK
  <1>1. CASE Answered(p)
    BY <1>0, <1>1 DEF Answered, Lookups
  <1>2. CASE NotAnswered(p)
    <2>1. PICK fails \in BOOLEAN :
             play' = [play EXCEPT ![p].erred = Note(p, fails), ![p].failed = @ \/ fails,
                        ![p].asked = IF play[p].asked = Questions THEN @ ELSE @ + 1,
                        ![p].pc = IF play[p].asked # Questions THEN "ask"
                                  ELSE IF Note(p, fails) THEN "release" ELSE "mark"]
      BY <1>2 DEF NotAnswered
    <2>. QED
      BY <1>0, <2>1 DEF Lookups
  <1>. QED
    BY <1>1, <1>2

LEMMA ClaimPlayStep ==
    ASSUME ClaimInv, NEW p \in Plays, PlayStep(p), TypeOK'
    PROVE  ClaimInv'
  <1>0. /\ TypeOK /\ OneLookup /\ ClaimIsHeld /\ FilledIsWhole /\ LyricsWhole
        /\ DOMAIN play = Plays /\ Track(p) \in Ids /\ play[p] \in Lookups
        /\ DOMAIN lyrTmp = Ids /\ DOMAIN lyr = Ids
    <2>1. play[p].pc # "idle"
      BY DEF PlayStep, Probe, SaveDuration, SetDuration, AlreadyTried, Claim, Answered,
             NotAnswered, Mark, OpenTmp, FillTmp, RenameTmp, FlagRow, Flag, Release, Doing
    <2>2. play[p] \in Lookups
      BY <2>1 DEF ClaimInv, TypeOK, LyricsTypeOK, Stopped
    <2>. QED
      BY <2>2 DEF ClaimInv, TypeOK, TracksTypeOK, LyricsTypeOK, Track, Lookups
  <1>1. \A q \in Plays \ {p} : play'[q] = play[q]
    BY <1>0 DEF PlayStep, Probe, SaveDuration, SetDuration, AlreadyTried, Claim, Answered,
           NotAnswered, Mark, OpenTmp, FillTmp, RenameTmp, FlagRow, Flag, Release, GoOn, Done
  <1>2. OneLookup' /\ ClaimIsHeld'
    <2>1. CASE Claim(p)
      BY <1>0, <2>1, TakesClaim
    <2>2. CASE Release(p)
      BY <1>0, <2>2, GivesClaimBack
    <2>3. CASE ~Claim(p) /\ ~Release(p)
      <3>1. inflight' = inflight
        BY <2>3 DEF PlayStep, Probe, SaveDuration, SetDuration, AlreadyTried, Answered,
               NotAnswered, Mark, OpenTmp, FillTmp, RenameTmp, FlagRow, Flag
      <3>2. /\ play'[p].pc \in Claimed <=> play[p].pc \in Claimed
            /\ play'[p].pc \in Claimed => play'[p].id = play[p].id
        <4>1. CASE Probe(p) \/ SaveDuration(p) \/ SetDuration(p) \/ AlreadyTried(p)
          BY <1>0, <4>1 DEF Probe, SaveDuration, SetDuration, AlreadyTried, Doing, GoOn, Done,
                            Stopped, Claimed, Lookups
        <4>2. CASE Answered(p) \/ NotAnswered(p)
          BY <1>0, <4>2, AskingGoesOn DEF Answered, NotAnswered, Doing, Claimed
        <4>3. CASE Mark(p) \/ OpenTmp(p) \/ FillTmp(p) \/ RenameTmp(p) \/ FlagRow(p) \/ Flag(p)
          BY <1>0, <4>3 DEF Mark, OpenTmp, FillTmp, RenameTmp, FlagRow, Flag, Doing, GoOn,
                            Claimed, Lookups
        <4>. QED
          BY <2>3, <4>1, <4>2, <4>3 DEF PlayStep
      <3>. QED
        BY <1>0, <1>1, <3>1, <3>2, MovesOn
    <2>. QED
      BY <2>1, <2>2, <2>3
  <1>3. ASSUME p \in Holders, NEW q \in Plays, q # p, Doing(q, "rename")
        PROVE  Track(q) # Track(p)
    BY <1>0, <1>3 DEF OneLookup, Holders, Doing, Claimed
  <1>4. FilledIsWhole' /\ LyricsWhole'
    <2>1. CASE OpenTmp(p)
      <3>1. p \in Holders /\ lyr' = lyr /\ ~Doing(p, "rename")'
        BY <1>0, <2>1 DEF OpenTmp, Doing, Holders, Claimed, GoOn, trackVars, Lookups
      <3>2. \A id \in Ids : id # Track(p) => lyrTmp'[id] = lyrTmp[id]
        BY <1>0, <2>1 DEF OpenTmp
      <3>. QED
        BY <1>0, <1>1, <1>3, <3>1, <3>2, TrackOf DEF FilledIsWhole, LyricsWhole, Doing, Track
    <2>2. CASE FillTmp(p)
      <3>1. p \in Holders /\ lyr' = lyr /\ play[p].body # Half
        BY <1>0, <2>2 DEF FillTmp, Doing, Holders, Claimed, trackVars, Lookups, None, Half, Versions
      <3>2. \A id \in Ids : id # Track(p) => lyrTmp'[id] = lyrTmp[id]
        BY <1>0, <2>2 DEF FillTmp
      <3>3. Doing(p, "rename")' => lyrTmp'[Track(p)] = play[p].body /\ play'[p].id = play[p].id
        BY <1>0, <2>2 DEF FillTmp, Doing, GoOn, Lookups
      <3>. QED
        BY <1>0, <1>1, <1>3, <3>1, <3>2, <3>3, TrackOf DEF FilledIsWhole, LyricsWhole, Doing, Track
    <2>3. CASE RenameTmp(p)
      <3>1. p \in Holders /\ Doing(p, "rename") /\ ~Doing(p, "rename")'
        BY <1>0, <2>3 DEF RenameTmp, Doing, Holders, Claimed, GoOn, Lookups
      <3>2. lyrTmp' = [lyrTmp EXCEPT ![Track(p)] = None]
        BY <2>3 DEF RenameTmp
      <3>3. lyr' = lyr \/ lyr' = [lyr EXCEPT ![Track(p)] = lyrTmp[Track(p)]]
        BY <2>3 DEF RenameTmp
      <3>4. LyricsWhole'
        BY <1>0, <3>1, <3>3 DEF LyricsWhole, FilledIsWhole
      <3>5. FilledIsWhole'
        BY <1>0, <1>1, <1>3, <3>1, <3>2, TrackOf DEF FilledIsWhole, Doing, Track
      <3>. QED
        BY <3>4, <3>5
    <2>4. CASE ~OpenTmp(p) /\ ~FillTmp(p) /\ ~RenameTmp(p)
      <3>1. lyr' = lyr /\ lyrTmp' = lyrTmp
        BY <2>4 DEF PlayStep, Probe, SaveDuration, SetDuration, AlreadyTried, Claim, Answered,
                    NotAnswered, Mark, FlagRow, Flag, Release, RestOfTracks, trackVars
      <3>2. ~Doing(p, "rename")'
        <4>1. CASE Answered(p) \/ NotAnswered(p)
          BY <1>0, <4>1, AskingGoesOn DEF Answered, NotAnswered, Doing
        <4>2. CASE ~Answered(p) /\ ~NotAnswered(p)
          BY <1>0, <2>4, <4>2 DEF PlayStep, Probe, SaveDuration, SetDuration, AlreadyTried, Claim,
             Mark, FlagRow, Flag, Release, Doing, GoOn, Done, Stopped, Lookups
        <4>. QED
          BY <4>1, <4>2
      <3>. QED
        BY <1>0, <1>1, <3>1, <3>2 DEF FilledIsWhole, LyricsWhole, Doing, Track
    <2>. QED
      BY <2>1, <2>2, <2>3, <2>4
  <1>. QED
    BY <1>2, <1>4 DEF ClaimInv

(* Steps of the library, of downloads and of starting plays. *)
Undisturbed(p) ==
    /\ Doing(p, "idle") => play'[p].pc \in {"idle", "probe", "tried"}
    /\ ~Doing(p, "idle") => play'[p].pc = play[p].pc /\ play'[p].id = play[p].id

LEMMA ClaimOtherStep ==
    ASSUME ClaimInv, inflight' = inflight, lyrTmp' = lyrTmp,
           \A p \in Plays : Undisturbed(p),
           \A id \in Ids : lyr'[id] \in {lyr[id], None},
           TypeOK'
    PROVE  ClaimInv'
  <1>0. {"idle", "probe", "tried", "rename"} \intersect Claimed = {"rename"} /\ None # Half
    BY DEF Claimed, None, Half
  <1>1. Holders' = Holders /\ \A p \in Holders : play'[p].id = play[p].id
    BY <1>0 DEF Holders, Doing, Undisturbed
  <1>2. OneLookup' /\ ClaimIsHeld'
    BY <1>1, ClaimsStay DEF ClaimInv
  <1>3. \A p \in Plays : Doing(p, "rename")' => Doing(p, "rename") /\ Track(p)' = Track(p)
    BY DEF Doing, Track, Undisturbed
  <1>4. FilledIsWhole' /\ LyricsWhole'
    BY <1>0, <1>3 DEF ClaimInv, FilledIsWhole, LyricsWhole
  <1>. QED
    BY <1>2, <1>4 DEF ClaimInv

LEMMA ClaimInductive ==
    /\ Init /\ TypeOK => ClaimInv
    /\ ClaimInv /\ TypeOK' /\ [Next]_vars => ClaimInv'
  <1>1. Init /\ TypeOK => ClaimInv
    <2>. SUFFICES ASSUME Init, TypeOK PROVE ClaimInv
      OBVIOUS
    <2>2. Holders = {} /\ \A p \in Plays : ~Doing(p, "rename")
      BY DEF Init, LyricsInit, Stopped, Holders, Claimed, Doing
    <2>3. OneLookup /\ FilledIsWhole
      BY <2>2 DEF OneLookup, FilledIsWhole
    <2>4. ClaimIsHeld
      BY <2>2, HeldTracks DEF Init, LyricsInit
    <2>5. LyricsWhole
      BY DEF Init, TracksInit, LyricsWhole, None, Half
    <2>. QED
      BY <2>3, <2>4, <2>5 DEF ClaimInv
  <1>2. ASSUME ClaimInv, TypeOK', [Next]_vars PROVE ClaimInv'
    <2>0. DOMAIN play = Plays /\ DOMAIN lyr = Ids
      BY <1>2 DEF ClaimInv, TypeOK, TracksTypeOK, LyricsTypeOK
    <2>1. CASE LibraryStep
      <3>0. PICK id \in Ids : \E S, T \in SUBSET {id} :
               LyricsStay(S) /\ ArtStays(T) /\ (CallerStep(id) \/ Change(id))
        BY <2>1, LibraryCases
      <3>1. \A i \in Ids : lyr'[i] \in {lyr[i], None}
        BY <2>0, <3>0 DEF CallerStep, TrackStep, InsertRow, MapTrack, UpdateRow, SetFields,
           RemoveLyrics, OpenPicture, SavePicture, RemovePicture, DeleteRow, Unmap, Change,
           Fault, PictureLost, PictureCut, PictureStays, LyricsRemain
      <3>2. ASSUME NEW p \in Plays, ~Doing(p, "idle")
            PROVE  play'[p].pc = play[p].pc /\ play'[p].id = play[p].id
        <4>1. play[p] \in Lookups
          BY <1>2, <3>2, TrackOf DEF ClaimInv
        <4>. QED
          BY <3>0, <4>1 DEF LyricsStay, Lookups
      <3>3. ASSUME NEW p \in Plays, Doing(p, "idle") PROVE play'[p].pc = play[p].pc
        BY <3>0, <3>3 DEF LyricsStay
      <3>4. inflight' = inflight /\ lyrTmp' = lyrTmp
        BY <3>0 DEF LyricsStay
      <3>. QED
        BY <1>2, <3>1, <3>2, <3>3, <3>4, ClaimOtherStep DEF Undisturbed, Doing
    <2>2. CASE ScanEnds /\ UNCHANGED <<lyricsVars, artVars>>
      BY <1>2, <2>2, ClaimOtherStep DEF ScanEnds, lyricsVars, Undisturbed, Doing
    <2>3. ASSUME NEW p \in Plays, NEW id \in Ids, Begin(p, id) PROVE ClaimInv'
      <3>1. /\ lyr' = lyr /\ inflight' = inflight /\ lyrTmp' = lyrTmp
            /\ \A q \in Plays : q # p => play'[q] = play[q]
            /\ Doing(p, "idle") /\ play'[p].pc \in {"probe", "tried"}
        BY <2>0, <2>3 DEF Begin, trackVars
      <3>. QED
        BY <1>2, <3>1, ClaimOtherStep DEF Undisturbed, Doing
    <2>4. CASE ArtStep /\ UNCHANGED lyricsVars
      <3>1. lyr' = lyr
        BY <2>4 DEF ArtStep, Query, NextSong, StartRefresh, ThrottleExpires, DownloadStep, Throttle,
           Stamp, AskITunes, CreateTmp, CopyBody, RenamePicture, CopyToTwin, CopyTwin, FlagArtRow,
           FlagArt, MarkArtTried, trackVars, RestOfTracks_
      <3>. QED
        BY <1>2, <2>4, <3>1, ClaimOtherStep DEF lyricsVars, Undisturbed, Doing
    <2>5. CASE Restart /\ LyricsRestart /\ ArtRestart
      <3>1. lyr' = lyr /\ \A p \in Plays : play'[p].pc = "idle"
        BY <2>5 DEF Restart, LyricsRestart, Stopped
      <3>2. Holders' = {} /\ \A p \in Plays : ~Doing(p, "rename")'
        BY <3>1 DEF Holders, Claimed, Doing
      <3>3. OneLookup' /\ FilledIsWhole'
        BY <3>2 DEF OneLookup, FilledIsWhole
      <3>4. ClaimIsHeld'
        BY <2>5, <3>2 DEF ClaimIsHeld, Holders, LyricsRestart
      <3>. QED
        BY <1>2, <3>1, <3>3, <3>4 DEF ClaimInv, LyricsWhole
    <2>6. CASE UNCHANGED vars
      BY <1>2, <2>6, ClaimOtherStep DEF vars, trackVars, lyricsVars, Undisturbed, Doing
    <2>. QED
      BY <1>2, <2>1, <2>2, <2>3, <2>4, <2>5, <2>6, ClaimPlayStep DEF Next, LyricsStep
  <1>. QED
    BY <1>1, <1>2

LEMMA AlwaysClaimInv == Spec => []ClaimInv
  <1>1. Init => TypeOK
    BY TracksTypeInit, LyricsTypeInit, ArtTypeInit DEF Init, TypeOK
  <1>. QED
    BY <1>1, TypeCorrect, ClaimInductive, PTL DEF Spec

(* "Write and rename so a reader never sees a half-written file": whatever *)
(* number of plays look up a track at once, and wherever the process dies, *)
(* handleLyrics never reads half a file, though all lookups of a track     *)
(* share one temporary file.                                               *)
THEOREM AlwaysLyricsWhole == Spec => []LyricsWhole
  <1>1. ClaimInv => LyricsWhole
    BY DEF ClaimInv
  <1>. QED
    BY <1>1, AlwaysClaimInv, PTL

(* lyricsInflight holds exactly the tracks whose lookup runs: no way out   *)
(* of FetchLyrics leaves a track closed, or lets a second lookup in.       *)
THEOREM AlwaysClaimIsHeld == Spec => []ClaimIsHeld
  <1>1. ClaimInv => ClaimIsHeld
    BY DEF ClaimInv
  <1>. QED
    BY <1>1, AlwaysClaimInv, PTL

-----------------------------------------------------------------------------
(* What a track is written off for. *)
Searching == {"probe", "saveDur", "setDur", "tried", "claim", "ask"}
Kept(r) == /\ r.pc \in Searching => (r.failed => r.erred)
           /\ r.pc = "mark" => ~r.failed
FailureIsKept == \A p \in Plays : ~Doing(p, "idle") => Kept(play[p])
TriedIsAnswered == \A id \in Ids : row[id].lyricsTried => id \in answered
OffInv == TypeOK /\ FailureIsKept /\ TriedIsAnswered

LEMMA FailureStep ==
    ASSUME OffInv, NEW p \in Plays, PlayStep(p) PROVE FailureIsKept'
  <1>0. DOMAIN play = Plays /\ play[p] \in Lookups /\ Kept(play[p]) /\ Stopped.pc = "idle"
    <2>1. ~Doing(p, "idle")
      BY DEF PlayStep, Probe, SaveDuration, SetDuration, AlreadyTried, Claim, Answered,
             NotAnswered, Mark, OpenTmp, FillTmp, RenameTmp, FlagRow, Flag, Release, Doing
    <2>. QED
      BY <2>1, TrackOf DEF OffInv, FailureIsKept, TypeOK, LyricsTypeOK, Stopped
  <1>1. SUFFICES ~Doing(p, "idle")' => Kept(play'[p])
    <2>1. \A q \in Plays \ {p} : play'[q] = play[q]
      BY <1>0 DEF PlayStep, Probe, SaveDuration, SetDuration, AlreadyTried, Claim, Answered,
             NotAnswered, Mark, OpenTmp, FillTmp, RenameTmp, FlagRow, Flag, Release, GoOn, Done
    <2>. QED
      BY <1>1, <2>1 DEF OffInv, FailureIsKept, Doing
  <1>2. CASE Probe(p) \/ SaveDuration(p) \/ SetDuration(p) \/ AlreadyTried(p) \/ Claim(p)
    BY <1>0, <1>2 DEF Probe, SaveDuration, SetDuration, AlreadyTried, Claim, Doing, GoOn, Done,
                      Lookups, Kept, Searching
  <1>3. CASE Answered(p)
    BY <1>0, <1>3 DEF Answered, Lookups, Kept, Searching
  <1>4. CASE NotAnswered(p)
    <2>1. PICK fails \in BOOLEAN :
             play' = [play EXCEPT ![p].erred = Note(p, fails), ![p].failed = @ \/ fails,
                        ![p].asked = IF play[p].asked = Questions THEN @ ELSE @ + 1,
                        ![p].pc = IF play[p].asked # Questions THEN "ask"
                                  ELSE IF Note(p, fails) THEN "release" ELSE "mark"]
      BY <1>4 DEF NotAnswered
    <2>2. play[p].failed => play[p].erred
      BY <1>0, <1>4 DEF NotAnswered, Doing, Kept, Searching
    <2>3. /\ play'[p].failed = (play[p].failed \/ fails) /\ play'[p].erred = Note(p, fails)
          /\ play'[p].pc = IF play[p].asked # Questions THEN "ask"
                           ELSE IF Note(p, fails) THEN "release" ELSE "mark"
      BY <1>0, <2>1 DEF Lookups
    <2>. QED
      BY <2>2, <2>3 DEF Note, Kept
  <1>5. CASE Mark(p) \/ OpenTmp(p) \/ FillTmp(p) \/ RenameTmp(p) \/ FlagRow(p) \/ Flag(p)
    BY <1>0, <1>5 DEF Mark, OpenTmp, FillTmp, RenameTmp, FlagRow, Flag, GoOn, Lookups, Kept,
                      Searching
  <1>6. CASE Release(p)
    BY <1>0, <1>6 DEF Release, Done, Doing
  <1>. QED
    BY <1>2, <1>3, <1>4, <1>5, <1>6 DEF PlayStep

(* Only markLyricsTried sets the mark. *)
LEMMA MarkStep ==
    ASSUME OffInv, NEW p \in Plays, PlayStep(p) PROVE TriedIsAnswered'
  <1>0. /\ Track(p) \in Ids /\ DOMAIN row = Ids /\ \A id \in Ids : row[id] \in Rows
        /\ Kept(play[p])
    <2>1. ~Doing(p, "idle")
      BY DEF PlayStep, Probe, SaveDuration, SetDuration, AlreadyTried, Claim, Answered,
             NotAnswered, Mark, OpenTmp, FillTmp, RenameTmp, FlagRow, Flag, Release, Doing
    <2>. QED
      BY <2>1, TrackOf DEF OffInv, FailureIsKept, TypeOK, TracksTypeOK
  <1>1. CASE Mark(p)
    <2>1. answered' = answered \union {Track(p)}
      BY <1>0, <1>1 DEF Mark, Doing, Kept
    <2>2. \A id \in Ids : id # Track(p) => row'[id] = row[id]
      BY <1>0, <1>1 DEF Mark, UpdateTo
    <2>. QED
      BY <2>1, <2>2 DEF OffInv, TriedIsAnswered
  <1>2. CASE ~Mark(p)
    <2>1. answered' = answered
      BY <1>2 DEF PlayStep, Probe, SaveDuration, SetDuration, AlreadyTried, Claim, Answered,
             NotAnswered, OpenTmp, FillTmp, RenameTmp, FlagRow, Flag, Release
    <2>2. \A id \in Ids : row'[id].lyricsTried = row[id].lyricsTried
      <3>1. CASE SaveDuration(p)
        BY <1>0, <3>1 DEF SaveDuration, UpdateTo, RowOf, Rows
      <3>2. CASE FlagRow(p)
        BY <1>0, <3>2 DEF FlagRow, UpdateTo, RowOf, Rows
      <3>3. CASE ~SaveDuration(p) /\ ~FlagRow(p)
        BY <1>2, <3>3 DEF PlayStep, Probe, SetDuration, AlreadyTried, Claim, Answered,
             NotAnswered, OpenTmp, FillTmp, RenameTmp, Flag, Release, trackVars, RestOfTracks
      <3>. QED
        BY <3>1, <3>2, <3>3
    <2>. QED
      BY <2>1, <2>2 DEF OffInv, TriedIsAnswered
  <1>. QED
    BY <1>1, <1>2

(* The library resets it with everything else that is of the former song. *)
LEMMA RenewalStep ==
    ASSUME OffInv, LibraryStep PROVE TriedIsAnswered'
  <1>0. DOMAIN row = Ids
    BY DEF OffInv, TypeOK, TracksTypeOK
  <1>3. PICK id \in Ids : \E S, T \in SUBSET {id} :
           LyricsStay(S) /\ ArtStays(T) /\ (CallerStep(id) \/ Change(id))
    BY LibraryCases
  <1>1. \A i \in Ids : row'[i] = row[i] \/ ~row'[i].lyricsTried
    BY <1>0, <1>3 DEF CallerStep, TrackStep, InsertRow, MapTrack, UpdateRow, SetFields,
       RemoveLyrics, OpenPicture, SavePicture, RemovePicture, DeleteRow, Unmap, Change, NewRow,
       Fault, PictureLost, PictureCut, PictureStays, LyricsRemain
  <1>2. ASSUME NEW i \in Ids, row'[i].lyricsTried PROVE i \notin Renewed
    <2>1. row'[i] = row[i]
      BY <1>1, <1>2
    <2>2. CASE (i \in stored) # (i \in stored')
      BY <1>0, <1>2, <1>3, <2>2 DEF CallerStep, TrackStep, InsertRow, MapTrack, UpdateRow,
         SetFields, RemoveLyrics, OpenPicture, SavePicture, RemovePicture, DeleteRow, Unmap, Change,
         NewRow, Fault, PictureLost, PictureCut, PictureStays, LyricsRemain
    <2>. QED
      BY <2>1, <2>2 DEF Renewed
  <1>. QED
    BY <1>1, <1>2, <1>3 DEF OffInv, TriedIsAnswered, LyricsStay, Renewed

LEMMA ArtKeepsMark ==
    ASSUME TypeOK, ArtStep PROVE \A id \in Ids : row'[id].lyricsTried = row[id].lyricsTried
  <1>0. DOMAIN row = Ids /\ \A id \in Ids : row[id] \in Rows
    BY DEF TypeOK, TracksTypeOK
  <1>1. ASSUME NEW d \in Downloads, NEW c \in dl[d].left, FlagArtRow(d, c) \/ MarkArtTried(d, c)
        PROVE  \A id \in Ids : row'[id].lyricsTried = row[id].lyricsTried
    BY <1>0, <1>1 DEF FlagArtRow, MarkArtTried, Rows
  <1>. QED
    BY <1>1 DEF ArtStep, Query, NextSong, StartRefresh, ThrottleExpires, DownloadStep, Throttle,
       Stamp, AskITunes, CreateTmp, CopyBody, RenamePicture, CopyToTwin, CopyTwin, FlagArt,
       trackVars, RestOfTracks_

LEMMA OffInductive ==
    /\ Init /\ TypeOK => OffInv
    /\ OffInv /\ TypeOK' /\ [Next]_vars => OffInv'
  <1>1. Init /\ TypeOK => OffInv
    BY DEF Init, TracksInit, NewRow, LyricsInit, Stopped, Doing, OffInv, FailureIsKept,
           TriedIsAnswered
  <1>2. ASSUME OffInv, TypeOK', [Next]_vars PROVE OffInv'
    <2>0. DOMAIN play = Plays /\ DOMAIN row = Ids
      BY <1>2 DEF OffInv, TypeOK, TracksTypeOK, LyricsTypeOK
    <2>1. CASE LibraryStep
      <3>0. \E S : LyricsStay(S)
        BY <2>1, LibraryCases
      <3>1. ASSUME NEW p \in Plays, ~Doing(p, "idle")' PROVE Kept(play'[p])
        <4>1. CASE Doing(p, "idle")
          BY <3>0, <3>1, <4>1 DEF LyricsStay, Doing
        <4>2. CASE ~Doing(p, "idle")
          <5>1. play[p] \in Lookups /\ Kept(play[p])
            BY <1>2, <4>2, TrackOf DEF OffInv, FailureIsKept
          <5>. QED
            BY <3>0, <5>1 DEF LyricsStay, Kept, Lookups
        <4>. QED
          BY <4>1, <4>2
      <3>. QED
        BY <1>2, <2>1, <3>1, RenewalStep DEF OffInv, FailureIsKept
    <2>2. CASE ScanEnds /\ UNCHANGED <<lyricsVars, artVars>>
      BY <1>2, <2>2 DEF ScanEnds, lyricsVars, OffInv, FailureIsKept, TriedIsAnswered, Doing
    <2>3. ASSUME NEW p \in Plays, NEW id \in Ids, Begin(p, id) PROVE OffInv'
      <3>1. row' = row /\ answered' = answered
        BY <2>3 DEF Begin, trackVars
      <3>2. Kept(play'[p]) /\ \A q \in Plays : q # p => play'[q] = play[q]
        BY <2>0, <2>3 DEF Begin, Kept
      <3>. QED
        BY <1>2, <3>1, <3>2 DEF OffInv, FailureIsKept, TriedIsAnswered, Doing
    <2>4. ASSUME NEW p \in Plays, PlayStep(p) PROVE OffInv'
      BY <1>2, <2>4, FailureStep, MarkStep DEF OffInv
    <2>5. CASE ArtStep /\ UNCHANGED lyricsVars
      BY <1>2, <2>5, ArtKeepsMark DEF lyricsVars, OffInv, FailureIsKept, TriedIsAnswered, Doing
    <2>6. CASE Restart /\ LyricsRestart /\ ArtRestart
      BY <1>2, <2>6 DEF Restart, LyricsRestart, Stopped, OffInv, FailureIsKept, TriedIsAnswered,
                        Doing
    <2>7. CASE UNCHANGED vars
      BY <1>2, <2>7 DEF vars, trackVars, lyricsVars, OffInv, FailureIsKept, TriedIsAnswered, Doing
    <2>. QED
      BY <1>2, <2>1, <2>2, <2>3, <2>4, <2>5, <2>6, <2>7 DEF Next, LyricsStep
  <1>. QED
    BY <1>1, <1>2

(* "Only a definitive miss is recorded": a track is closed to further      *)
(* lookups only when its present file got an answer, or a no from every    *)
(* provider; one that failed keeps it open, however lookups, replacements, *)
(* failed writes of the mark and restarts follow each other.               *)
THEOREM AlwaysWrittenOffRightly == Spec => []WrittenOffRightly
  <1>1. Init => TypeOK
    BY TracksTypeInit, LyricsTypeInit, ArtTypeInit DEF Init, TypeOK
  <1>2. OffInv => WrittenOffRightly
    BY DEF OffInv, TypeOK, TracksTypeOK, TriedIsAnswered, WrittenOffRightly
  <1>. QED
    BY <1>1, <1>2, TypeCorrect, OffInductive, PTL DEF Spec

-----------------------------------------------------------------------------
(***************************************************************************)
(* What is cached of a track is of its present file.  The argument: row    *)
(* and entry agree whenever nobody is in upsertFile or removeTrack         *)
(* (Shape); what they claim of the cache is true (Right); and a lookup     *)
(* behind whose back nothing has changed has in hand only what is of the   *)
(* row's song (RightPlays), so that writing it keeps Right, while a lookup *)
(* that has been crossed excuses its track when it writes.                 *)
(***************************************************************************)

(* Where the track stands in upsertFile or removeTrack, and what it is     *)
(* then known by.                                                          *)
ShapeOf(id) ==
    /\ row[id].song <= clock /\ file[id] <= clock
    /\ id \in fresh => id \notin stored
    /\ At(id, "idle") => (id \in known <=> id \in stored)
    /\ upd[id].pc \in {"map", "set", "picture", "saving"} => id \in stored
    /\ At(id, "unmap") => id \notin stored
    /\ upd[id].pc \in {"set", "picture", "saving"} => id \in known
    /\ upd[id].pc \in {"unlyrics", "unart"} => (id \in known <=> id \in stored)
    /\ upd[id].pc \notin {"map", "set"} /\ id \in stored => mem[id].song = row[id].song
Shape == \A id \in Ids : ShapeOf(id)

(* A duration of another file is that of a file noticed soon.              *)
RightDuration(id, dur) == dur \notin {0, row[id].song} => file[id] # row[id].song

(* What the row, or the entry in memory, says of the cache.                *)
RightEntry(id, r) ==
    /\ r.hasLyrics => lyr[id] = row[id].song
    /\ RightDuration(id, r.dur)
    /\ ~At(id, "idle") => ~r.hasLyrics /\ r.dur = 0
RightOf(id) ==
    /\ RightEntry(id, row[id])
    /\ id \in stored /\ upd[id].pc \notin {"map", "set"} => RightEntry(id, mem[id])
Right == \A id \in Ids \ mixed : RightOf(id)

(* What a lookup has in hand. *)
RightPlay(p) ==
    LET id == Track(p) IN
    /\ At(id, "idle") /\ id \in stored
    /\ play[p].pc \in {"saveDur", "setDur"} => RightDuration(id, play[p].dur)
    /\ play[p].pc \in Claimed => play[p].song = row[id].song /\ play[p].body \in {None, row[id].song}
    /\ play[p].pc \in {"write", "fill", "rename"} => play[p].body = row[id].song
    /\ play[p].pc = "rename" => lyrTmp[id] = row[id].song
    /\ play[p].pc \in {"flagRow", "flag"} => lyr[id] = row[id].song
RightPlays ==
    \A p \in Plays : ~Doing(p, "idle") =>
        /\ play[p].pc \notin Claimed => play[p].body = None
        /\ ~Crossed(p) => RightPlay(p)

LEMMA Domains ==
    ASSUME TypeOK
    PROVE  /\ DOMAIN row = Ids /\ DOMAIN mem = Ids /\ DOMAIN upd = Ids /\ DOMAIN lyr = Ids
           /\ DOMAIN file = Ids /\ DOMAIN lyrTmp = Ids /\ DOMAIN play = Plays
           /\ clock \in Int /\ \A id \in Ids : /\ row[id] \in Rows /\ mem[id] \in Mems
                                               /\ row[id].song \in Int /\ row[id].song > 0
                                               /\ file[id] \in Int
  BY TracksAssumption DEF TypeOK, TracksTypeOK, LyricsTypeOK, Rows, Versions, TracksAssumption

-----------------------------------------------------------------------------
(* Steps of upsertFile and removeTrack. *)
LEMMA OtherTrack ==
    ASSUME TypeOK, NEW id \in Ids, CallerStep(id), NEW i \in Ids, i # id
    PROVE  /\ row'[i] = row[i] /\ mem'[i] = mem[i] /\ upd'[i] = upd[i] /\ lyr'[i] = lyr[i]
           /\ file' = file /\ clock' = clock /\ (i \in stored' <=> i \in stored)
           /\ (i \in known' <=> i \in known) /\ (i \in fresh' <=> i \in fresh)
  BY Domains DEF CallerStep, TrackStep, InsertRow, MapTrack, UpdateRow, SetFields, RemoveLyrics,
     OpenPicture, SavePicture, RemovePicture, DeleteRow, Unmap, Goto, Fault, PictureLost,
     PictureCut, PictureStays, LyricsRemain

LEMMA ShapeTrackStep ==
    ASSUME TypeOK, Shape, NEW id \in Ids, CallerStep(id) PROVE Shape'
  <1>. SUFFICES ASSUME NEW i \in Ids PROVE ShapeOf(i)'
    BY DEF Shape
  <1>0. ShapeOf(i)
    BY DEF Shape
  <1>1. CASE i # id
    BY <1>0, <1>1, OtherTrack DEF ShapeOf, At
  <1>2. CASE i = id
    <2>0. ShapeOf(id) /\ DOMAIN row = Ids /\ DOMAIN mem = Ids /\ DOMAIN upd = Ids
      BY <1>0, <1>2, Domains
    <2>1. CASE InsertRow(id)
      BY <1>2, <2>0, <2>1 DEF InsertRow, ShapeOf, At, Goto, NewRow
    <2>2. CASE MapTrack(id)
      BY <1>2, <2>0, <2>2 DEF MapTrack, ShapeOf, At, Goto, NewTrack
    <2>3. CASE UpdateRow(id)
      BY <1>2, <2>0, <2>3 DEF UpdateRow, ShapeOf, At, Goto, NewRow
    <2>4. CASE SetFields(id)
      BY <1>2, <2>0, <2>4 DEF SetFields, ShapeOf, At, Goto, NewTrack
    <2>5. CASE RemoveLyrics(id)
      BY <1>2, <2>0, <2>5 DEF RemoveLyrics, ShapeOf, At, Goto
    <2>6. CASE OpenPicture(id)
      BY <1>2, <2>0, <2>6 DEF OpenPicture, ShapeOf, At, Goto
    <2>7. CASE SavePicture(id)
      BY <1>2, <2>0, <2>7 DEF SavePicture, ShapeOf, At, Goto
    <2>8. CASE RemovePicture(id)
      BY <1>2, <2>0, <2>8 DEF RemovePicture, ShapeOf, At, Goto
    <2>9. CASE DeleteRow(id)
      BY <1>2, <2>0, <2>9 DEF DeleteRow, ShapeOf, At, Goto, NewRow
    <2>10. CASE Unmap(id)
      BY <1>2, <2>0, <2>10 DEF Unmap, ShapeOf, At, Goto
    <2>11. CASE Fault(id)
      BY <1>2, <2>0, <2>11
      DEF Fault, PictureLost, PictureCut, PictureStays, LyricsRemain, ShapeOf, At, Goto
    <2>. QED
      BY <2>1, <2>2, <2>3, <2>4, <2>5, <2>6, <2>7, <2>8, <2>9, <2>10, <2>11
      DEF CallerStep, TrackStep
  <1>. QED
    BY <1>1, <1>2

(* An insertion, an update and a removal are seen by those under way. *)
LEMMA LeavingIdleRenews ==
    ASSUME TypeOK, NEW id \in Ids, ShapeOf(id), CallerStep(id), At(id, "idle") PROVE id \in Renewed
  <1>0. DOMAIN row = Ids
    BY Domains
  <1>1. CASE InsertRow(id)
    BY <1>1 DEF InsertRow, ShapeOf, Renewed
  <1>2. CASE UpdateRow(id)
    BY <1>0, <1>2 DEF UpdateRow, ShapeOf, Renewed, NewRow, At
  <1>3. CASE DeleteRow(id)
    BY <1>3 DEF DeleteRow, ShapeOf, Renewed, At
  <1>. QED
    BY <1>1, <1>2, <1>3 DEF CallerStep, TrackStep, MapTrack, SetFields, RemoveLyrics, OpenPicture,
       SavePicture, RemovePicture, Unmap, Fault, PictureLost, PictureCut, PictureStays,
       LyricsRemain, At

LEMMA RightTrackStep ==
    ASSUME TypeOK, Shape, Right, NEW id \in Ids, CallerStep(id), mixed \ Renewed \subseteq mixed'
    PROVE  Right'
  <1>. SUFFICES ASSUME NEW i \in Ids, i \notin mixed' PROVE RightOf(i)'
    BY DEF Right
  <1>1. CASE i # id
    <2>1. i \notin Renewed
      BY <1>1, OtherTrack DEF Renewed
    <2>2. RightOf(i)
      BY <2>1 DEF Right
    <2>. QED
      BY <1>1, <2>2, OtherTrack DEF RightOf, RightEntry, RightDuration, At
  <1>2. CASE i = id
    <2>0. /\ ShapeOf(id) /\ DOMAIN row = Ids /\ DOMAIN mem = Ids /\ DOMAIN upd = Ids /\ DOMAIN lyr = Ids
          /\ id \in Renewed \/ RightOf(id)
      BY <1>2, Domains DEF Right, Shape
    <2>1. CASE InsertRow(id)
      BY <1>2, <2>0, <2>1 DEF InsertRow, RightOf, RightEntry, RightDuration, At, Goto, NewRow
    <2>2. CASE MapTrack(id)
      <3>1. RightOf(id)
        BY <2>0, <2>2 DEF MapTrack, Renewed
      <3>. QED
        BY <1>2, <2>0, <2>2, <3>1
        DEF MapTrack, RightOf, RightEntry, RightDuration, At, Goto, NewTrack
    <2>3. CASE UpdateRow(id)
      BY <1>2, <2>0, <2>3 DEF UpdateRow, RightOf, RightEntry, RightDuration, At, Goto, NewRow
    <2>4. CASE SetFields(id)
      <3>1. RightOf(id)
        BY <2>0, <2>4 DEF SetFields, Renewed
      <3>. QED
        BY <1>2, <2>0, <2>4, <3>1
        DEF SetFields, RightOf, RightEntry, RightDuration, At, Goto, NewTrack
    <2>5. CASE RemoveLyrics(id)
      <3>1. RightOf(id)
        BY <2>0, <2>5 DEF RemoveLyrics, Renewed
      <3>. QED
        BY <1>2, <2>0, <2>5, <3>1 DEF RemoveLyrics, RightOf, RightEntry, RightDuration, At, Goto
    <2>6. CASE OpenPicture(id) \/ SavePicture(id) \/ RemovePicture(id) \/ Unmap(id)
      <3>1. /\ row' = row /\ mem' = mem /\ lyr' = lyr /\ file' = file /\ stored' = stored
            /\ ~At(id, "idle") /\ upd[id].pc \notin {"map", "set"}
        BY <2>6 DEF OpenPicture, SavePicture, RemovePicture, Unmap, At
      <3>2. RightOf(id)
        BY <2>0, <3>1 DEF Renewed
      <3>. QED
        BY <1>2, <3>1, <3>2 DEF RightOf, RightEntry, RightDuration, At
    <2>7. CASE DeleteRow(id)
      BY <1>2, <2>0, <2>7 DEF DeleteRow, RightOf, RightEntry, RightDuration, At, Goto, NewRow
    <2>8. CASE Fault(id)
      <3>1. /\ row' = row /\ mem' = mem /\ lyr' = lyr /\ file' = file /\ stored' = stored
            /\ ~At(id, "idle") /\ upd[id].pc \notin {"map", "set"}
        BY <2>8 DEF Fault, PictureLost, PictureCut, PictureStays, LyricsRemain, At
      <3>2. RightOf(id)
        BY <2>0, <3>1 DEF Renewed
      <3>. QED
        BY <1>2, <3>1, <3>2 DEF RightOf, RightEntry, RightDuration, At
    <2>. QED
      BY <2>1, <2>2, <2>3, <2>4, <2>5, <2>6, <2>7, <2>8 DEF CallerStep, TrackStep
  <1>. QED
    BY <1>1, <1>2

(* The lookups of a step of the library that it does not cross. *)
LEMMA Uncrossed ==
    ASSUME TypeOK, NEW S, LyricsStay(S), NEW p \in Plays, ~Doing(p, "idle")'
    PROVE  /\ ~Doing(p, "idle") /\ play'[p].pc = play[p].pc /\ play'[p].body = play[p].body
           /\ ~Crossed(p)' => play'[p] = play[p] /\ Track(p) \notin Renewed
  <1>1. ~Doing(p, "idle")
    BY DEF LyricsStay, Doing
  <1>2. play[p] \in Lookups
    BY <1>1, TrackOf
  <1>. QED
    BY <1>1, <1>2 DEF LyricsStay, Doing, Crossed, Lookups, Track

LEMMA RightPlaysTrackStep ==
    ASSUME TypeOK, Shape, RightPlays, NEW id \in Ids, CallerStep(id), NEW S, LyricsStay(S)
    PROVE  RightPlays'
  <1>. SUFFICES ASSUME NEW p \in Plays, ~Doing(p, "idle")'
                PROVE  /\ play'[p].pc \notin Claimed => play'[p].body = None
                       /\ ~Crossed(p)' => RightPlay(p)'
    BY DEF RightPlays
  <1>1. play'[p].pc \notin Claimed => play'[p].body = None
    BY Uncrossed DEF RightPlays
  <1>2. ASSUME ~Crossed(p)' PROVE RightPlay(p)'
    <2>1. play'[p] = play[p] /\ Track(p) \notin Renewed /\ ~Doing(p, "idle")
      BY <1>2, Uncrossed
    <2>2. Track(p) \in Ids /\ RightPlay(p)
      BY <1>2, <2>1, TrackOf DEF RightPlays, Crossed
    <2>3. Track(p) # id
      BY <2>1, <2>2, LeavingIdleRenews DEF RightPlay, Shape
    <2>4. LET i == Track(p) IN
          /\ row'[i] = row[i] /\ upd'[i] = upd[i] /\ lyr'[i] = lyr[i] /\ file' = file
          /\ i \in stored'
      BY <2>2, <2>3, OtherTrack DEF RightPlay
    <2>5. lyrTmp' = lyrTmp /\ Track(p)' = Track(p)
      BY <2>1 DEF LyricsStay, Track
    <2>. QED
      BY <2>1, <2>2, <2>4, <2>5 DEF RightPlay, RightDuration, At
  <1>. QED
    BY <1>1, <1>2

LEMMA ChangeStep ==
    ASSUME TypeOK, Shape, Right, RightPlays, NEW id \in Ids, Change(id), NEW S, LyricsStay(S)
    PROVE  Shape' /\ Right' /\ RightPlays'
  <1>1. /\ row' = row /\ mem' = mem /\ upd' = upd /\ lyr' = lyr /\ lyrTmp' = lyrTmp
        /\ stored' = stored /\ known' = known /\ fresh' = fresh
        /\ clock' = clock + 1 /\ Renewed = {}
    BY DEF Change, LyricsStay, Renewed
  <1>2. \A i \in Ids : /\ row[i].song <= clock' /\ file'[i] <= clock'
                       /\ file'[i] = file[i] \/ file'[i] # row[i].song
    <2>1. \A i \in Ids : file'[i] \in {file[i], 0, clock'}
      BY Domains DEF Change
    <2>. QED
      BY <1>1, <2>1, Domains DEF Shape, ShapeOf
  <1>3. Shape'
    BY <1>1, <1>2 DEF Shape, ShapeOf, At
  <1>4. Right'
    <2>1. mixed \subseteq mixed'
      BY <1>1 DEF LyricsStay
    <2>. QED
      BY <1>1, <1>2, <2>1 DEF Right, RightOf, RightEntry, RightDuration, At
  <1>5. RightPlays'
    <2>1. play' = play
      BY <1>1, Domains DEF LyricsStay, TypeOK, LyricsTypeOK
    <2>2. \A p \in Plays : ~Doing(p, "idle") => Track(p) \in Ids
      BY TrackOf
    <2>. QED
      BY <1>1, <1>2, <2>1, <2>2 DEF RightPlays, RightPlay, RightDuration, At, Doing, Crossed, Track
  <1>. QED
    BY <1>3, <1>4, <1>5

-----------------------------------------------------------------------------
(* Downloads touch other fields of a track, and plays that start nothing.  *)
SameTracks ==
    /\ clock' = clock /\ file' = file /\ fresh' = fresh /\ stored' = stored /\ known' = known
    /\ upd' = upd
    /\ \A id \in Ids : row'[id].song = row[id].song /\ mem'[id].song = mem[id].song

LEMMA ShapeStays == ASSUME Shape, SameTracks PROVE Shape'
  BY DEF Shape, ShapeOf, SameTracks, At

LEMMA ArtKeepsFields ==
    ASSUME TypeOK, ArtStep
    PROVE  /\ SameTracks /\ lyr' = lyr
           /\ \A id \in Ids : /\ row'[id].hasLyrics = row[id].hasLyrics
                              /\ row'[id].dur = row[id].dur
                              /\ mem'[id].hasLyrics = mem[id].hasLyrics
                              /\ mem'[id].dur = mem[id].dur
  <1>0. DOMAIN row = Ids /\ DOMAIN mem = Ids /\ \A id \in Ids : row[id] \in Rows /\ mem[id] \in Mems
    BY Domains
  <1>1. ASSUME NEW d \in Downloads, NEW c \in dl[d].left, FlagArtRow(d, c) \/ MarkArtTried(d, c)
        PROVE  \A id \in Ids : /\ row'[id].hasLyrics = row[id].hasLyrics
                               /\ row'[id].dur = row[id].dur /\ row'[id].song = row[id].song
    BY <1>0, <1>1 DEF FlagArtRow, MarkArtTried, Rows
  <1>2. ASSUME NEW d \in Downloads, NEW c \in dl[d].left, FlagArt(d, c)
        PROVE  \A id \in Ids : /\ mem'[id].hasLyrics = mem[id].hasLyrics
                               /\ mem'[id].dur = mem[id].dur /\ mem'[id].song = mem[id].song
    BY <1>0, <1>2 DEF FlagArt, Mems
  <1>3. /\ clock' = clock /\ file' = file /\ fresh' = fresh /\ stored' = stored /\ known' = known
        /\ upd' = upd /\ lyr' = lyr
    BY DEF ArtStep, Query, NextSong, StartRefresh, ThrottleExpires, DownloadStep, Throttle,
       Stamp, AskITunes, CreateTmp, CopyBody, RenamePicture, CopyToTwin, CopyTwin, FlagArt,
       FlagArtRow, MarkArtTried, trackVars, RestOfTracks_
  <1>4. \/ row' = row
        \/ \E d \in Downloads : \E c \in dl[d].left : FlagArtRow(d, c) \/ MarkArtTried(d, c)
    BY DEF ArtStep, Query, NextSong, StartRefresh, ThrottleExpires, DownloadStep, Throttle,
       Stamp, AskITunes, CreateTmp, CopyBody, RenamePicture, CopyToTwin, CopyTwin, FlagArt,
       trackVars, RestOfTracks_
  <1>5. mem' = mem \/ \E d \in Downloads : \E c \in dl[d].left : FlagArt(d, c)
    BY DEF ArtStep, Query, NextSong, StartRefresh, ThrottleExpires, DownloadStep, Throttle,
       Stamp, AskITunes, CreateTmp, CopyBody, RenamePicture, CopyToTwin, CopyTwin, FlagArtRow,
       MarkArtTried, trackVars, RestOfTracks_
  <1>. QED
    BY <1>1, <1>2, <1>3, <1>4, <1>5 DEF SameTracks

LEMMA CachedArtStep ==
    ASSUME TypeOK, Shape, Right, RightPlays, ArtStep, UNCHANGED lyricsVars
    PROVE  Shape' /\ Right' /\ RightPlays'
  <1>1. Shape'
    BY ArtKeepsFields, ShapeStays
  <1>2. Right'
    BY ArtKeepsFields DEF Right, RightOf, RightEntry, RightDuration, At, SameTracks, lyricsVars
  <1>3. \A p \in Plays : ~Doing(p, "idle") => Track(p) \in Ids
    BY TrackOf
  <1>4. RightPlays'
    BY <1>3, ArtKeepsFields DEF RightPlays, RightPlay, RightDuration, At, Doing, Crossed, Track,
       SameTracks, lyricsVars
  <1>. QED
    BY <1>1, <1>2, <1>4

LEMMA CachedRestart ==
    ASSUME TypeOK, Shape, Right, Restart, LyricsRestart PROVE Shape' /\ Right' /\ RightPlays'
  <1>1. /\ row' = row /\ file' = file /\ lyr' = lyr /\ clock' = clock /\ fresh' = fresh
        /\ stored' = stored /\ known' = stored
        /\ \A id \in Ids : /\ upd'[id].pc = "idle" /\ mem'[id].song = row[id].song
                           /\ mem'[id].dur = row[id].dur /\ mem'[id].hasLyrics = row[id].hasLyrics
    BY DEF Restart, Ready
  <1>2. Shape'
    BY <1>1 DEF Shape, ShapeOf, At
  <1>3. Right'
    BY <1>1 DEF Right, RightOf, RightEntry, RightDuration, At, LyricsRestart
  <1>4. RightPlays'
    BY DEF LyricsRestart, RightPlays, Doing, Stopped
  <1>. QED
    BY <1>2, <1>3, <1>4

LEMMA CachedBegin ==
    ASSUME TypeOK, Shape, Right, RightPlays, NEW p \in Plays, NEW id \in Ids, Begin(p, id)
    PROVE  Shape' /\ Right' /\ RightPlays'
  <1>1. /\ UNCHANGED <<trackVars, lyrTmp, mixed>> /\ DOMAIN play = Plays
        /\ \A q \in Plays : q # p => play'[q] = play[q]
    BY Domains DEF Begin
  <1>2. Shape' /\ Right'
    BY <1>1 DEF Shape, ShapeOf, Right, RightOf, RightEntry, RightDuration, At, trackVars
  <1>3. /\ play'[p].id = id /\ play'[p].pc \in {"probe", "tried"} /\ play'[p].body = None
        /\ play'[p].crossed = Unsteady(id)
    BY <1>1 DEF Begin
  <1>4. ~Crossed(p)' => RightPlay(p)'
    BY <1>1, <1>3 DEF Crossed, Unsteady, RightPlay, Track, At, trackVars, Claimed
  <1>5. ASSUME NEW q \in Plays, q # p, ~Doing(q, "idle")'
        PROVE  /\ play'[q].pc \notin Claimed => play'[q].body = None
               /\ ~Crossed(q)' => RightPlay(q)'
    BY <1>1, <1>5 DEF RightPlays, RightPlay, RightDuration, Crossed, Track, At, Doing, trackVars
  <1>6. RightPlays'
    BY <1>3, <1>4, <1>5 DEF RightPlays
  <1>. QED
    BY <1>2, <1>6

-----------------------------------------------------------------------------
(* Steps of a lookup. *)
LEMMA PlayKeepsTracks ==
    ASSUME TypeOK, NEW p \in Plays, PlayStep(p)
    PROVE  /\ SameTracks /\ Track(p) \in Ids /\ play[p] \in Lookups /\ ~Doing(p, "idle")
           /\ \A q \in Plays \ {p} : play'[q] = play[q]
           /\ \A id \in Ids : id # Track(p) => /\ row'[id] = row[id] /\ mem'[id] = mem[id]
                                               /\ lyr'[id] = lyr[id] /\ lyrTmp'[id] = lyrTmp[id]
           /\ mixed \subseteq mixed'
  <1>0. ~Doing(p, "idle")
    BY DEF PlayStep, Probe, SaveDuration, SetDuration, AlreadyTried, Claim, Answered,
           NotAnswered, Mark, OpenTmp, FillTmp, RenameTmp, FlagRow, Flag, Release, Doing
  <1>1. play[p] \in Lookups /\ Track(p) \in Ids
    BY <1>0, TrackOf
  <1>2. \A q \in Plays \ {p} : play'[q] = play[q]
    BY Domains DEF PlayStep, Probe, SaveDuration, SetDuration, AlreadyTried, Claim, Answered,
           NotAnswered, Mark, OpenTmp, FillTmp, RenameTmp, FlagRow, Flag, Release, GoOn, Done
  <1>3. /\ clock' = clock /\ file' = file /\ fresh' = fresh /\ stored' = stored
        /\ known' = known /\ upd' = upd /\ mixed \subseteq mixed'
    BY DEF PlayStep, Probe, SaveDuration, SetDuration, AlreadyTried, Claim, Answered, Mix,
           NotAnswered, Mark, OpenTmp, FillTmp, RenameTmp, FlagRow, Flag, Release, trackVars,
           RestOfTracks
  <1>4. /\ \A id \in Ids : id # Track(p) => /\ row'[id] = row[id] /\ mem'[id] = mem[id]
                                            /\ lyr'[id] = lyr[id] /\ lyrTmp'[id] = lyrTmp[id]
    BY <1>1, Domains DEF PlayStep, Probe, SaveDuration, SetDuration, AlreadyTried, Claim, Answered,
           NotAnswered, Mark, OpenTmp, FillTmp, RenameTmp, FlagRow, Flag, Release, trackVars,
           RestOfTracks, UpdateTo
  <1>5. row'[Track(p)].song = row[Track(p)].song /\ mem'[Track(p)].song = mem[Track(p)].song
    <2>0. row[Track(p)] \in Rows /\ mem[Track(p)] \in Mems /\ DOMAIN row = Ids /\ DOMAIN mem = Ids
      BY <1>1, Domains
    <2>1. CASE SaveDuration(p) \/ Mark(p) \/ FlagRow(p)
      BY <1>1, <2>0, <2>1 DEF SaveDuration, Mark, FlagRow, UpdateTo, RowOf, Rows
    <2>2. CASE SetDuration(p) \/ Flag(p)
      BY <1>1, <2>0, <2>2 DEF SetDuration, Flag, Mems, RestOfTracks
    <2>3. CASE ~(SaveDuration(p) \/ Mark(p) \/ FlagRow(p) \/ SetDuration(p) \/ Flag(p))
      BY <2>3 DEF PlayStep, Probe, AlreadyTried, Claim, Answered, NotAnswered, OpenTmp, FillTmp,
                  RenameTmp, Release, trackVars, RestOfTracks
    <2>. QED
      BY <2>1, <2>2, <2>3
  <1>6. SameTracks
    BY <1>3, <1>4, <1>5 DEF SameTracks
  <1>. QED
    BY <1>0, <1>1, <1>2, <1>3, <1>4, <1>6

(* What it writes of its track is of the row's song, or excused. *)
LEMMA RightPlayStep ==
    ASSUME TypeOK, Shape, Right, RightPlays, NEW p \in Plays, PlayStep(p) PROVE Right'
  <1>0. /\ SameTracks /\ Track(p) \in Ids /\ play[p] \in Lookups /\ ~Doing(p, "idle")
        /\ mixed \subseteq mixed' /\ DOMAIN lyr = Ids /\ DOMAIN row = Ids /\ DOMAIN mem = Ids
        /\ row[Track(p)] \in Rows /\ mem[Track(p)] \in Mems
    BY PlayKeepsTracks, Domains
  <1>. SUFFICES ASSUME NEW i \in Ids, i \notin mixed' PROVE RightOf(i)'
    BY DEF Right
  <1>1. RightOf(i)
    BY <1>0 DEF Right
  <1>2. CASE i # Track(p)
    BY <1>0, <1>1, <1>2, PlayKeepsTracks DEF RightOf, RightEntry, RightDuration, At, SameTracks
  <1>3. CASE i = Track(p)
    <2>1. Mix(p) => ~Crossed(p) /\ RightPlay(p)
      BY <1>0, <1>3 DEF Mix, RightPlays
    <2>3. CASE SaveDuration(p)
      <3>1. /\ At(i, "idle") /\ RightDuration(i, play[p].dur) /\ lyr' = lyr /\ mem' = mem
            /\ row'[i].hasLyrics = row[i].hasLyrics /\ row'[i].dur \in {row[i].dur, play[p].dur}
        BY <1>0, <1>3, <2>1, <2>3
        DEF SaveDuration, RestOfTracks, Doing, RightPlay, UpdateTo, RowOf, Rows
      <3>. QED
        BY <1>0, <1>1, <3>1 DEF RightOf, RightEntry, RightDuration, At, SameTracks
    <2>4. CASE SetDuration(p)
      <3>1. /\ At(i, "idle") /\ RightDuration(i, play[p].dur) /\ lyr' = lyr /\ row' = row
            /\ mem'[i].hasLyrics = mem[i].hasLyrics /\ mem'[i].dur \in {mem[i].dur, play[p].dur}
        BY <1>0, <1>3, <2>1, <2>4 DEF SetDuration, RestOfTracks, Doing, RightPlay, Mems
      <3>. QED
        BY <1>0, <1>1, <3>1 DEF RightOf, RightEntry, RightDuration, At, SameTracks
    <2>5. CASE Mark(p)
      <3>1. /\ lyr' = lyr /\ mem' = mem
            /\ row'[i].hasLyrics = row[i].hasLyrics /\ row'[i].dur = row[i].dur
        BY <1>0, <1>3, <2>5 DEF Mark, RestOfTracks, UpdateTo, RowOf, Rows
      <3>. QED
        BY <1>0, <1>1, <3>1 DEF RightOf, RightEntry, RightDuration, At, SameTracks
    <2>6. CASE RenameTmp(p)
      <3>1. row' = row /\ mem' = mem /\ (lyr'[i] = lyr[i] \/ lyr'[i] = row[i].song)
        BY <1>0, <1>3, <2>1, <2>6 DEF RenameTmp, RestOfTracks, Doing, RightPlay
      <3>. QED
        BY <1>0, <1>1, <3>1 DEF RightOf, RightEntry, RightDuration, At, SameTracks
    <2>7. CASE FlagRow(p)
      <3>1. /\ lyr' = lyr /\ mem' = mem /\ row'[i].dur = row[i].dur
            /\ row'[i].hasLyrics = row[i].hasLyrics \/ (At(i, "idle") /\ lyr[i] = row[i].song)
        <4>1. row' = row \/ (Mix(p) /\ row' = UpdateTo(p, [RowOf(p) EXCEPT !.hasLyrics = TRUE]))
          BY <2>7 DEF FlagRow
        <4>2. Mix(p) => At(i, "idle") /\ lyr[i] = row[i].song
          BY <1>3, <2>1, <2>7 DEF FlagRow, Doing, RightPlay
        <4>3. lyr' = lyr /\ mem' = mem /\ row'[i].dur = row[i].dur
          BY <1>0, <1>3, <2>7, <4>1 DEF FlagRow, RestOfTracks, UpdateTo, RowOf, Rows
        <4>. QED
          BY <4>1, <4>2, <4>3
      <3>. QED
        BY <1>0, <1>1, <3>1 DEF RightOf, RightEntry, RightDuration, At, SameTracks
    <2>8. CASE Flag(p)
      <3>1. /\ lyr' = lyr /\ row' = row /\ mem'[i].dur = mem[i].dur
            /\ mem'[i].hasLyrics = mem[i].hasLyrics \/ (At(i, "idle") /\ lyr[i] = row[i].song)
        BY <1>0, <1>3, <2>1, <2>8 DEF Flag, RestOfTracks, Doing, RightPlay, Mems
      <3>. QED
        BY <1>0, <1>1, <3>1 DEF RightOf, RightEntry, RightDuration, At, SameTracks
    <2>9. CASE ~(SaveDuration(p) \/ SetDuration(p) \/ Mark(p) \/ RenameTmp(p) \/ FlagRow(p) \/ Flag(p))
      <3>1. lyr' = lyr /\ row' = row /\ mem' = mem
        BY <2>9 DEF PlayStep, Probe, AlreadyTried, Claim, Answered, NotAnswered, OpenTmp, FillTmp,
                    Release, trackVars
      <3>. QED
        BY <1>0, <1>1, <3>1 DEF RightOf, RightEntry, RightDuration, At, SameTracks
    <2>. QED
      BY <2>3, <2>4, <2>5, <2>6, <2>7, <2>8, <2>9
  <1>. QED
    BY <1>2, <1>3

(* What others have in hand stays right: they are of another track, or     *)
(* not far enough to have written.                                         *)
LEMMA OthersStayRight ==
    ASSUME ClaimInv, RightPlays, NEW p \in Plays, PlayStep(p), NEW q \in Plays, q # p,
           ~Doing(q, "idle")'
    PROVE  /\ play'[q].pc \notin Claimed => play'[q].body = None
           /\ ~Crossed(q)' => RightPlay(q)'
  <1>0. /\ SameTracks /\ play'[q] = play[q] /\ ~Doing(q, "idle") /\ Track(q)' = Track(q)
        /\ TypeOK /\ OneLookup
    BY PlayKeepsTracks DEF Doing, Track, ClaimInv
  <1>1. Track(q) \in Ids
    BY <1>0, TrackOf
  <1>2. play'[q].pc \notin Claimed => play'[q].body = None
    BY <1>0 DEF RightPlays
  <1>3. ASSUME ~Crossed(q)' PROVE RightPlay(q)'
    <2>1. RightPlay(q)
      BY <1>0, <1>3 DEF RightPlays, Crossed
    <2>2. play[q].pc \in {"rename", "flagRow", "flag"} =>
             lyrTmp'[Track(q)] = lyrTmp[Track(q)] /\ lyr'[Track(q)] = lyr[Track(q)]
      <3>1. CASE Track(q) # Track(p)
        BY <1>0, <1>1, <3>1, PlayKeepsTracks
      <3>2. CASE ~(OpenTmp(p) \/ FillTmp(p) \/ RenameTmp(p))
        BY <3>2 DEF PlayStep, Probe, SaveDuration, SetDuration, AlreadyTried, Claim, Answered,
                    NotAnswered, Mark, FlagRow, Flag, Release, trackVars, RestOfTracks
      <3>3. CASE OpenTmp(p) \/ FillTmp(p) \/ RenameTmp(p)
        <4>1. p \in Holders
          BY <3>3 DEF OpenTmp, FillTmp, RenameTmp, Doing, Holders, Claimed
        <4>2. play[q].pc \in {"rename", "flagRow", "flag"} => Track(q) # Track(p)
          BY <1>0, <4>1 DEF OneLookup, Holders, Claimed
        <4>. QED
          BY <1>0, <1>1, <4>2, PlayKeepsTracks
      <3>. QED
        BY <3>1, <3>2, <3>3
    <2>. QED
      BY <1>0, <1>1, <2>1, <2>2 DEF RightPlay, RightDuration, At, SameTracks
  <1>. QED
    BY <1>2, <1>3

LEMMA ItselfStaysRight ==
    ASSUME TypeOK, Shape, RightPlays, NEW p \in Plays, PlayStep(p), ~Doing(p, "idle")'
    PROVE  /\ play'[p].pc \notin Claimed => play'[p].body = None
           /\ ~Crossed(p)' => RightPlay(p)'
  <1>0. /\ SameTracks /\ Track(p) \in Ids /\ play[p] \in Lookups /\ ~Doing(p, "idle")
        /\ DOMAIN play = Plays /\ DOMAIN lyrTmp = Ids /\ DOMAIN lyr = Ids
        /\ play[p].pc \notin Claimed => play[p].body = None
        /\ ~Crossed(p) => RightPlay(p)
        /\ Stopped.pc = "idle"
    BY PlayKeepsTracks, Domains DEF RightPlays, Stopped
  <1>1. \A id \in Ids : row'[id].song = row[id].song /\ file'[id] = file[id]
                        /\ (At(id, "idle")' <=> At(id, "idle")) /\ stored' = stored
    BY <1>0 DEF SameTracks, At
  <1>2. CASE Probe(p) \/ SaveDuration(p) \/ SetDuration(p) \/ AlreadyTried(p)
    <2>1. /\ play'[p].id = play[p].id /\ play'[p].crossed = play[p].crossed
          /\ play'[p].body = play[p].body /\ play[p].pc \notin Claimed
          /\ play'[p].pc \in {"saveDur", "setDur", "tried", "claim"}
      BY <1>0, <1>2 DEF Probe, SaveDuration, SetDuration, AlreadyTried, GoOn, Done, Doing, Lookups,
                        Claimed
    <2>2. play'[p].pc \in {"saveDur", "setDur"} =>
             \/ play'[p].dur = file[Track(p)]
             \/ play'[p].dur = play[p].dur /\ play[p].pc = "saveDur"
      BY <1>0, <1>2 DEF Probe, SaveDuration, SetDuration, AlreadyTried, GoOn, Done, Doing, Lookups
    <2>. QED
      BY <1>0, <1>1, <2>1, <2>2 DEF Crossed, Track, RightPlay, RightDuration, Claimed
  <1>3. CASE Claim(p)
    <2>1. ~Busy(p)
      BY <1>0, <1>3 DEF Claim, Done, Doing
    <2>2. /\ play'[p].pc = "ask" /\ play'[p].id = play[p].id /\ play'[p].body = play[p].body
          /\ play'[p].song = mem[Track(p)].song /\ play'[p].crossed = Unsteady(Track(p))
      BY <1>0, <1>3, <2>1 DEF Claim, Lookups
    <2>3. play[p].body = None
      BY <1>0, <1>3 DEF Claim, Doing, Claimed
    <2>4. ~Unsteady(Track(p)) => /\ At(Track(p), "idle") /\ Track(p) \in stored
                                 /\ mem[Track(p)].song = row[Track(p)].song
      BY <1>0 DEF Unsteady, At, Shape, ShapeOf
    <2>. QED
      BY <1>0, <1>1, <2>2, <2>3, <2>4 DEF Crossed, Track, RightPlay, Claimed
  <1>4. CASE Answered(p)
    <2>1. PICK v \in {play[p].song, None, mem[Track(p)].song} :
               play' = [play EXCEPT ![p].pc = "mark", ![p].body = v, ![p].failed = FALSE]
      BY <1>4 DEF Answered
    <2>2. /\ play'[p].pc = "mark" /\ play'[p].id = play[p].id /\ play'[p].body = v
          /\ play'[p].song = play[p].song /\ play'[p].crossed = play[p].crossed
      BY <1>0, <2>1 DEF Lookups
    <2>3. ~Crossed(p) => mem[Track(p)].song = row[Track(p)].song /\ play[p].pc \in Claimed
      BY <1>0, <1>4 DEF RightPlay, Shape, ShapeOf, At, Answered, Doing, Claimed
    <2>. QED
      BY <1>0, <1>1, <2>1, <2>2, <2>3 DEF Crossed, Track, RightPlay, Claimed
  <1>5. CASE NotAnswered(p)
    <2>1. PICK fails \in BOOLEAN :
             play' = [play EXCEPT ![p].erred = Note(p, fails), ![p].failed = @ \/ fails,
                        ![p].asked = IF play[p].asked = Questions THEN @ ELSE @ + 1,
                        ![p].pc = IF play[p].asked # Questions THEN "ask"
                                  ELSE IF Note(p, fails) THEN "release" ELSE "mark"]
      BY <1>5 DEF NotAnswered
    <2>2. /\ play'[p].pc \in {"ask", "mark", "release"} /\ play'[p].id = play[p].id
          /\ play'[p].body = play[p].body
          /\ play'[p].song = play[p].song /\ play'[p].crossed = play[p].crossed
      BY <1>0, <2>1 DEF Lookups
    <2>3. play[p].pc \in Claimed
      BY <1>5 DEF NotAnswered, Doing, Claimed
    <2>. QED
      BY <1>0, <1>1, <2>2, <2>3 DEF Crossed, Track, RightPlay, Claimed
  <1>6. CASE Mark(p) \/ OpenTmp(p) \/ FillTmp(p) \/ RenameTmp(p) \/ FlagRow(p) \/ Flag(p)
    <2>1. /\ play'[p].id = play[p].id /\ play'[p].body = play[p].body
          /\ play'[p].song = play[p].song /\ play'[p].crossed = play[p].crossed
          /\ play[p].pc \in Claimed /\ play'[p].pc \in Claimed
      BY <1>0, <1>6 DEF Mark, OpenTmp, FillTmp, RenameTmp, FlagRow, Flag, GoOn, Doing, Lookups,
                        Claimed
    <2>2. /\ play'[p].pc \in {"release", "write", "fill", "rename", "flagRow", "flag"}
          /\ play'[p].pc = "write" => play[p].pc = "mark" /\ play[p].body # None
          /\ play'[p].pc = "fill" => play[p].pc = "write"
          /\ play'[p].pc = "rename" => play[p].pc = "fill" /\ lyrTmp'[Track(p)] = play[p].body
          /\ play'[p].pc = "flagRow" => play[p].pc = "rename" /\ lyr'[Track(p)] = lyrTmp[Track(p)]
          /\ play'[p].pc = "flag" => play[p].pc = "flagRow" /\ lyr' = lyr
      BY <1>0, <1>6 DEF Mark, OpenTmp, FillTmp, RenameTmp, FlagRow, Flag, GoOn, Doing, Lookups
    <2>. QED
      BY <1>0, <1>1, <2>1, <2>2 DEF Crossed, Track, RightPlay
  <1>7. CASE Release(p)
    BY <1>0, <1>7 DEF Release, Done, Doing
  <1>. QED
    BY <1>2, <1>3, <1>4, <1>5, <1>6, <1>7 DEF PlayStep

-----------------------------------------------------------------------------
LEMMA CachedInductive ==
    /\ Init => Shape /\ Right /\ RightPlays
    /\ ClaimInv /\ Shape /\ Right /\ RightPlays /\ [Next]_vars => Shape' /\ Right' /\ RightPlays'
  <1>1. ASSUME Init PROVE Shape /\ Right /\ RightPlays
    <2>1. \A id \in Ids : /\ row[id].song = id /\ row[id].dur = 0 /\ ~row[id].hasLyrics
                          /\ upd[id].pc = "idle"
                          /\ file[id] \in {0, id} /\ id <= clock /\ 0 <= clock
      <3>1. PICK S \in SUBSET Ids : file = [id \in Ids |-> IF id \in S THEN id ELSE 0]
        BY <1>1 DEF Init, TracksInit
      <3>2. \A id \in Ids : id <= clock /\ 0 <= clock
        BY <1>1, TracksAssumption DEF Init, TracksInit, Ids, TracksAssumption
      <3>3. \A id \in Ids : NewRow(id).song = id /\ NewRow(id).dur = 0 /\ ~NewRow(id).hasLyrics
        BY DEF NewRow
      <3>. QED
        BY <1>1, <3>1, <3>2, <3>3 DEF Init, TracksInit, Ready
    <2>2. stored = {} /\ known = {}
      BY <1>1 DEF Init, TracksInit
    <2>3. Shape
      BY <2>1, <2>2 DEF Shape, ShapeOf, At
    <2>4. Right
      BY <2>1, <2>2 DEF Right, RightOf, RightEntry, RightDuration, At
    <2>5. RightPlays
      BY <1>1 DEF Init, LyricsInit, RightPlays, Doing, Stopped
    <2>. QED
      BY <2>3, <2>4, <2>5
  <1>2. ASSUME ClaimInv, Shape, Right, RightPlays, [Next]_vars
        PROVE  Shape' /\ Right' /\ RightPlays'
    <2>0. TypeOK
      BY <1>2 DEF ClaimInv
    <2>1. CASE LibraryStep
      <3>1. ASSUME NEW id \in Ids, CallerStep(id), NEW S, LyricsStay(S)
            PROVE  Shape' /\ Right' /\ RightPlays'
        <4>1. mixed \ Renewed \subseteq mixed'
          BY <3>1 DEF LyricsStay
        <4>. QED
          BY <1>2, <2>0, <3>1, <4>1, ShapeTrackStep, RightTrackStep, RightPlaysTrackStep
      <3>2. ASSUME NEW id \in Ids, Change(id), NEW S, LyricsStay(S)
            PROVE  Shape' /\ Right' /\ RightPlays'
        BY <1>2, <2>0, <3>2, ChangeStep
      <3>. QED
        BY <2>1, <3>1, <3>2, LibraryCases
    <2>2. ASSUME UNCHANGED <<cfg, file, clock, stored, row, known, mem, upd, lyr, fresh>>,
                 UNCHANGED lyricsVars
          PROVE  Shape' /\ Right' /\ RightPlays'
      BY <1>2, <2>2 DEF Shape, ShapeOf, Right, RightOf, RightEntry, RightDuration, At, lyricsVars,
         RightPlays, RightPlay, Doing, Crossed, Track
    <2>3. CASE ScanEnds /\ UNCHANGED <<lyricsVars, artVars>>
      BY <2>2, <2>3 DEF ScanEnds
    <2>4. ASSUME NEW p \in Plays, NEW id \in Ids, Begin(p, id)
          PROVE  Shape' /\ Right' /\ RightPlays'
      BY <1>2, <2>0, <2>4, CachedBegin
    <2>5. ASSUME NEW p \in Plays, PlayStep(p) PROVE Shape' /\ Right' /\ RightPlays'
      <3>1. Shape'
        BY <1>2, <2>0, <2>5, PlayKeepsTracks, ShapeStays
      <3>2. Right'
        BY <1>2, <2>0, <2>5, RightPlayStep
      <3>3. ASSUME NEW q \in Plays, ~Doing(q, "idle")'
            PROVE  /\ play'[q].pc \notin Claimed => play'[q].body = None
                   /\ ~Crossed(q)' => RightPlay(q)'
        <4>1. CASE q = p
          BY <1>2, <2>0, <2>5, <3>3, <4>1, ItselfStaysRight
        <4>2. CASE q # p
          BY <1>2, <2>5, <3>3, <4>2, OthersStayRight
        <4>. QED
          BY <4>1, <4>2
      <3>4. RightPlays'
        BY <3>3 DEF RightPlays
      <3>. QED
        BY <3>1, <3>2, <3>4
    <2>6. CASE ArtStep /\ UNCHANGED lyricsVars
      BY <1>2, <2>0, <2>6, CachedArtStep
    <2>7. CASE Restart /\ LyricsRestart /\ ArtRestart
      BY <1>2, <2>0, <2>7, CachedRestart
    <2>8. CASE UNCHANGED vars
      BY <2>2, <2>8 DEF vars, trackVars
    <2>. QED
      BY <1>2, <2>1, <2>3, <2>4, <2>5, <2>6, <2>7, <2>8 DEF Next, LyricsStep
  <1>. QED
    BY <1>1, <1>2

(* Unless the file was changed behind a lookup, the lyrics offered of a    *)
(* track and its measured duration are of the file in the library: over    *)
(* any replacements, removals, restarts and lookups at once.               *)
THEOREM AlwaysCachedIsOfTheFile == Spec => []CachedIsOfTheFile
  <1>1. TypeOK /\ Shape /\ Right => CachedIsOfTheFile
    <2>. SUFFICES ASSUME TypeOK, Shape, Right, NEW id \in known \ mixed, Settled(id)
                  PROVE  /\ Offered(id) => lyr[id] = mem[id].song
                         /\ mem[id].dur \in {0, mem[id].song}
      BY DEF CachedIsOfTheFile
    <2>1. id \in Ids /\ ShapeOf(id) /\ RightOf(id) /\ At(id, "idle") /\ file[id] = mem[id].song
      BY DEF TypeOK, TracksTypeOK, Shape, Right, Settled
    <2>2. id \in stored /\ mem[id].song = row[id].song /\ RightEntry(id, mem[id])
      BY <2>1 DEF ShapeOf, RightOf, At
    <2>. QED
      BY <2>1, <2>2 DEF RightEntry, RightDuration, Offered
  <1>2. ClaimInv => TypeOK
    BY DEF ClaimInv
  <1>. QED
    BY <1>1, <1>2, AlwaysClaimInv, CachedInductive, PTL DEF Spec

-----------------------------------------------------------------------------
(***************************************************************************)
(* The cached picture of a track is of its song.  The argument: a download *)
(* that was not crossed knows the song of the row (Steady); unless its     *)
(* track is blurred it has the temporary file to itself (Apart), so what   *)
(* it renames and copies is of that song (InHand), also when it writes to  *)
(* a file it has open (Handles); and so a track that claims a picture has  *)
(* one, or has one being written (Shows).                                  *)
(***************************************************************************)
Depicts(id) == pic[Art(id)] \in Versions /\ Song(pic[Art(id)]) = Song(row[id].song)
Written(id) == \E w \in Writers : fd[w] = Art(id)
Shown(id) == Depicts(id) \/ Written(id)

(* A track as a goroutine knows it. *)
Clean(c) == ~c.crossed /\ c.id \notin blurred
Fine(c) == Clean(c) => Shown(c.id)
Steady(c) == ~c.crossed => At(c.id, "idle") /\ c.id \in stored /\ row[c.id].song = c.song

Working(d) == dl[d].pc \notin {"idle", "query", "next"}
Saving(d) == dl[d].pc \in {"copy", "rename"}
Before == {"throttle", "stamp", "ask", "create", "copy", "rename"}
Flagging == {"flagRow", "flag"}

KnownTo(d) == dl[d].group \union dl[d].left \union {Top(d)}
Candid ==
    /\ \A c \in pending : Steady(c)
    /\ \A d \in Downloads : Working(d) => \A c \in KnownTo(d) : Steady(c)

Apart == \A d, e \in Downloads :
    d # e /\ Saving(d) /\ Saving(e) /\ Top(d).id = Top(e).id => ~Clean(Top(d))

HandleOf(d) == fd[d] # Nowhere =>
    \/ Is(d, "copy") /\ fd[d] \in {Art(Top(d).id), Tmp(Top(d).id)}
    \/ Is(d, "copying") /\ \A c \in dl[d].left : First(d, c) => fd[d] = Art(c.id)
Handles ==
    /\ \A id \in Ids : fd[id] # Nowhere => fd[id] = Art(id) /\ At(id, "saving")
    /\ \A d \in Downloads : HandleOf(d)

(* The copy to a twin that is under way. *)
Copying(d, c) ==
    \/ fd[d] = Art(c.id) /\ pic[Art(c.id)] = Half
    \/ fd[d] = Nowhere /\ Shown(c.id)

InHand(d) ==
    /\ d # Batch => ~Is(d, "twin") /\ ~Is(d, "copying") /\ (dl[d].pc \in Before => dl[d].left = {})
    /\ dl[d].left \subseteq dl[d].group
    /\ dl[d].pc \in Before => dl[d].group \subseteq dl[d].left \union {Top(d)}
    /\ Is(d, "copy") /\ Clean(Top(d)) => fd[d] = Tmp(Top(d).id) /\ pic[Tmp(Top(d).id)] = Half
    /\ Is(d, "rename") /\ Clean(Top(d)) => pic[Tmp(Top(d).id)] = Top(d).song
    /\ dl[d].pc \in {"twin", "copying"} => \A c \in dl[d].group \ dl[d].left : Fine(c)
    /\ Is(d, "copying") => \A c \in dl[d].left : First(d, c) /\ Clean(c) => Copying(d, c)
    /\ dl[d].pc \in Flagging => \A c \in dl[d].group : Fine(c)
Hands == \A d \in Downloads : Working(d) => InHand(d)

Downloading == TypeOK /\ Candid /\ Apart /\ Handles /\ Hands

LEMMA SongOf ==
    ASSUME NEW v \in Content, NEW s \in Versions, Song(v) = Song(s) PROVE v \in Versions
  BY TracksAssumption DEF Song, Content, None, Half, Versions, TracksAssumption

LEMMA Paths ==
    /\ \A i, j : (Art(i) = Art(j) <=> i = j) /\ (Tmp(i) = Tmp(j) <=> i = j)
    /\ \A i, j : Art(i) # Tmp(j) /\ Art(i) # Nowhere /\ Tmp(i) # Nowhere
    /\ Nowhere \notin Places
  BY DEF Art, Tmp, Nowhere, Places

LEMMA JobOf ==
    ASSUME TypeOK, NEW d \in Downloads, Working(d)
    PROVE  /\ dl[d] \in Jobs /\ Top(d) \in Candidates /\ Top(d).id \in Ids
           /\ Top(d).song \in Versions /\ dl[d].left \subseteq Candidates
           /\ dl[d].group \subseteq Candidates /\ d \in Writers
           /\ DOMAIN dl[d] = {"pc", "top", "group", "left"}
  <1>1. dl[d] \in Jobs
    BY DEF TypeOK, ArtworkTypeOK, Working, Waiting, Fetching, Idling
  <1>. QED
    BY <1>1, JobTypes DEF TypeOK, Jobs, Writers

LEMMA Pictures ==
    ASSUME TypeOK
    PROVE  /\ DOMAIN pic = Places /\ DOMAIN fd = Writers /\ DOMAIN dl = Downloads
           /\ Downloads \subseteq Writers /\ Ids \subseteq Writers
           /\ \A id \in Ids : id \notin Downloads /\ pic[Art(id)] \in Content /\ pic[Tmp(id)] \in Content
           /\ \A w \in Writers : fd[w] \in Places \union {Nowhere}
           /\ \A id \in Ids : Art(id) \in Places /\ Tmp(id) \in Places
  BY PlaceType, TracksAssumption DEF TypeOK, TracksTypeOK, ArtworkTypeOK, Writers, TracksAssumption

-----------------------------------------------------------------------------
(* What a step of a download does to the files of others. *)
Unharmed(e) ==
    /\ Saving(e) /\ Clean(Top(e)) /\ Top(e).id \notin blurred' =>
         fd'[e] = fd[e] /\ pic'[Tmp(Top(e).id)] = pic[Tmp(Top(e).id)]
    /\ Is(e, "copying") => \A c \in dl[e].left : First(e, c) /\ Clean(c) /\ c.id \notin blurred' =>
         \/ fd[e] = Nowhere /\ fd'[e] = Nowhere
         \/ fd'[e] = fd[e] /\ pic'[Art(c.id)] = pic[Art(c.id)]
         \/ fd'[e] = Nowhere /\ Shown(c.id)'

Considerate(d) ==
    /\ \A id \in Ids \ blurred' : Shown(id) => Shown(id)'
    /\ \A e \in Downloads \ {d} : Working(e) => Unharmed(e)
    /\ \A w \in Writers \ {d} : \/ fd'[w] \in {fd[w], Nowhere}
                                \/ \E i \in Ids : fd[w] = Tmp(i) /\ fd'[w] = Art(i)

SameSongs == \A id \in Ids : row'[id].song = row[id].song

LEMMA NoFiles ==
    ASSUME SameSongs, NEW d, UNCHANGED <<pic, fd>> PROVE Considerate(d)
  <1>1. \A id \in Ids : Shown(id) => Shown(id)'
    BY DEF Shown, Depicts, Written, SameSongs
  <1>2. \A e \in Downloads : Unharmed(e)
    BY DEF Unharmed
  <1>. QED
    BY <1>1, <1>2 DEF Considerate

LEMMA NewTmp ==
    ASSUME Downloading, SameSongs, NEW d \in Downloads, Is(d, "create"),
           blurred \subseteq blurred', Open(d, Tmp(Top(d).id)),
           Shared(d) => Top(d).id \in blurred'
    PROVE  Considerate(d)
  <1>. DEFINE t == Top(d).id
  <1>0. t \in Ids /\ fd[d] = Nowhere
    BY JobOf DEF Working, Is, Downloading, Handles, HandleOf
  <1>1. /\ \A w \in Writers \ {d} : fd'[w] = fd[w]
        /\ \A q \in Places : q # Tmp(t) => pic'[q] = pic[q]
    BY Pictures DEF Open, Downloading
  <1>. HIDE DEF t
  <1>2. ASSUME NEW id \in Ids, Shown(id) PROVE Shown(id)'
    <2>1. pic'[Art(id)] = pic[Art(id)]
      BY <1>1, Paths, Pictures DEF Downloading
    <2>2. Written(id) => Written(id)'
      BY <1>0, <1>1, Paths DEF Written
    <2>. QED
      BY <1>2, <2>1, <2>2 DEF Shown, Depicts, SameSongs
  <1>3. ASSUME NEW e \in Downloads \ {d}, Working(e) PROVE Unharmed(e)
    <2>1. fd'[e] = fd[e]
      BY <1>1, Pictures DEF Downloading
    <2>2. ASSUME Saving(e), Top(e).id \notin blurred' PROVE Top(e).id # t
      BY <2>2 DEF Shared, Saving, t
    <2>3. Top(e).id \in Ids /\ \A c \in dl[e].left : c.id \in Ids
      BY <1>3, JobOf DEF Downloading, Candidates
    <2>. QED
      BY <1>1, <2>1, <2>2, <2>3, Paths, Pictures DEF Unharmed, Downloading
  <1>. QED
    BY <1>1, <1>2, <1>3 DEF Considerate

(* A download has its track's temporary file to itself, unless the track   *)
(* is not promised anything.                                               *)
LEMMA Alone ==
    ASSUME Downloading, NEW d \in Downloads, Saving(d), blurred \subseteq blurred',
           NEW e \in Downloads \ {d}, Saving(e), Clean(Top(e)), Top(e).id \notin blurred'
    PROVE  Top(e).id # Top(d).id
  BY DEF Downloading, Apart

LEMMA OwnFile ==
    ASSUME Downloading, NEW d \in Downloads, Working(d), ~Is(d, "copying")
    PROVE  fd[d] \in {Nowhere, Art(Top(d).id), Tmp(Top(d).id)}
  BY DEF Downloading, Handles, HandleOf

LEMMA CopyFile ==
    ASSUME Downloading, NEW e \in Downloads, Is(e, "copying"),
           NEW c \in dl[e].left, First(e, c)
    PROVE  fd[e] \in {Nowhere, Art(c.id)} /\ c.id \in Ids
  <1>1. Working(e)
    BY DEF Working, Is
  <1>. QED
    BY <1>1, JobOf, Zenon DEF Downloading, Handles, HandleOf, Is, Candidates

LEMMA Closed ==
    ASSUME Downloading, SameSongs, NEW d \in Downloads, Saving(d), blurred \subseteq blurred',
           \A q \in Places \ {Art(Top(d).id), Tmp(Top(d).id)} : pic'[q] = pic[q],
           pic'[Art(Top(d).id)] = pic[Art(Top(d).id)] \/ Top(d).id \in blurred',
           \A w \in Writers \ {d} : fd'[w] = fd[w] \/ (fd'[w] = Nowhere /\ fd[w] = Tmp(Top(d).id)),
           fd[d] = Art(Top(d).id) => Top(d).id \in blurred'
    PROVE  Considerate(d)
  <1>. DEFINE t == Top(d).id
  <1>0. t \in Ids /\ fd[d] \in {Nowhere, Art(t), Tmp(t)}
    BY JobOf, OwnFile DEF Working, Saving, Is, Downloading
  <1>2. ASSUME NEW id \in Ids \ blurred', Shown(id) PROVE Shown(id)'
    <2>1. pic'[Art(id)] = pic[Art(id)]
      BY Paths, Pictures DEF Downloading
    <2>2. Written(id) => Written(id)'
      BY <1>0, Paths DEF Written
    <2>. QED
      BY <1>2, <2>1, <2>2 DEF Shown, Depicts, SameSongs
  <1>3. ASSUME NEW e \in Downloads \ {d}, Working(e) PROVE Unharmed(e)
    <2>0. e \in Writers
      BY Pictures DEF Downloading
    <2>1. ASSUME Saving(e), Clean(Top(e)), Top(e).id \notin blurred'
          PROVE  fd'[e] = fd[e] /\ pic'[Tmp(Top(e).id)] = pic[Tmp(Top(e).id)]
      <3>1. Top(e).id # t /\ Top(e).id \in Ids
        BY <1>3, <2>1, Alone, JobOf DEF Downloading
      <3>2. fd[e] \in {Nowhere, Art(Top(e).id), Tmp(Top(e).id)}
        BY <1>3, <2>1, OwnFile DEF Saving, Is
      <3>3. pic'[Tmp(Top(e).id)] = pic[Tmp(Top(e).id)]
        BY <3>1, Paths, Pictures DEF Downloading
      <3>4. fd'[e] = fd[e]
        BY <2>0, <3>1, <3>2, Paths
      <3>. QED
        BY <3>3, <3>4
    <2>2. ASSUME Is(e, "copying"), NEW c \in dl[e].left, First(e, c), c.id \notin blurred'
          PROVE  fd'[e] = fd[e] /\ pic'[Art(c.id)] = pic[Art(c.id)]
      <3>1. fd[e] \in {Nowhere, Art(c.id)} /\ c.id \in Ids
        BY <2>2, CopyFile
      <3>2. fd'[e] = fd[e]
        BY <2>0, <3>1, Paths
      <3>3. pic'[Art(c.id)] = pic[Art(c.id)]
        BY <2>2, <3>1, Paths, Pictures DEF Downloading
      <3>. QED
        BY <3>2, <3>3
    <2>. QED
      BY <2>1, <2>2 DEF Unharmed
  <1>. QED
    BY <1>2, <1>3 DEF Considerate

(* The temporary file becomes the picture. *)
LEMMA Renamed ==
    ASSUME Downloading, SameSongs, NEW d \in Downloads, Is(d, "rename"),
           NEW t, t = Top(d).id,
           blurred \subseteq blurred', Rename(t),
           Depicts(t)' \/ t \in blurred'
    PROVE  Considerate(d)
  <1>0. t \in Ids /\ fd[d] = Nowhere /\ Saving(d) /\ Art(t) \in Places /\ Tmp(t) \in Places
    BY JobOf, Pictures DEF Working, Saving, Is, Downloading, Handles, HandleOf
  <1>1. /\ \A q \in Places \ {Art(t), Tmp(t)} : pic'[q] = pic[q]
        /\ \A w \in Writers : fd'[w] = CASE fd[w] = Tmp(t) -> Art(t)
                                         [] fd[w] = Art(t) -> Nowhere
                                         [] OTHER -> fd[w]
    BY Pictures DEF Rename, Downloading
  <1>2. ASSUME NEW id \in Ids \ blurred', Shown(id) PROVE Shown(id)'
    <2>1. CASE id = t
      BY <2>1, <1>2 DEF Shown
    <2>2. CASE id # t
      <3>1. pic'[Art(id)] = pic[Art(id)]
        BY <1>1, <2>2, Paths, Pictures DEF Downloading
      <3>2. Written(id) => Written(id)'
        BY <1>0, <1>1, <2>2, Paths DEF Written
      <3>. QED
        BY <1>2, <3>1, <3>2 DEF Shown, Depicts, SameSongs
    <2>. QED
      BY <2>1, <2>2
  <1>3. ASSUME NEW e \in Downloads \ {d}, Working(e) PROVE Unharmed(e)
    <2>0. e \in Writers
      BY Pictures DEF Downloading
    <2>1. ASSUME Saving(e), Clean(Top(e)), Top(e).id \notin blurred'
          PROVE  fd'[e] = fd[e] /\ pic'[Tmp(Top(e).id)] = pic[Tmp(Top(e).id)]
      <3>1. Top(e).id # t /\ Top(e).id \in Ids
        BY <1>0, <1>3, <2>1, Alone, JobOf DEF Downloading
      <3>2. fd[e] \in {Nowhere, Art(Top(e).id), Tmp(Top(e).id)}
        BY <1>3, <2>1, OwnFile DEF Saving, Is
      <3>3. pic'[Tmp(Top(e).id)] = pic[Tmp(Top(e).id)]
        BY <1>1, <3>1, Paths, Pictures DEF Downloading
      <3>4. fd'[e] = fd[e]
        BY <1>1, <2>0, <3>1, <3>2, Paths
      <3>. QED
        BY <3>3, <3>4
    <2>2. ASSUME Is(e, "copying"), NEW c \in dl[e].left, First(e, c), c.id \notin blurred'
          PROVE  \/ fd[e] = Nowhere /\ fd'[e] = Nowhere
                 \/ fd'[e] = fd[e] /\ pic'[Art(c.id)] = pic[Art(c.id)]
                 \/ fd'[e] = Nowhere /\ Shown(c.id)'
      <3>1. fd[e] \in {Nowhere, Art(c.id)} /\ c.id \in Ids
        BY <2>2, CopyFile
      <3>2. CASE c.id = t
        <4>1. fd'[e] = Nowhere
          BY <1>1, <2>0, <3>1, <3>2, Paths
        <4>. QED
          BY <2>2, <3>2, <4>1 DEF Shown
      <3>3. CASE c.id # t
        <4>1. fd'[e] = fd[e]
          BY <1>1, <2>0, <3>1, <3>3, Paths
        <4>2. pic'[Art(c.id)] = pic[Art(c.id)]
          BY <1>1, <3>1, <3>3, Paths, Pictures DEF Downloading
        <4>. QED
          BY <4>1, <4>2
      <3>. QED
        BY <3>2, <3>3
    <2>. QED
      BY <2>1, <2>2 DEF Unharmed
  <1>4. \A w \in Writers \ {d} : \/ fd'[w] \in {fd[w], Nowhere}
                                 \/ \E i \in Ids : fd[w] = Tmp(i) /\ fd'[w] = Art(i)
    BY <1>0, <1>1
  <1>. QED
    BY <1>2, <1>3, <1>4 DEF Considerate

(* A picture that is copied to a twin. *)
LEMMA TwinOpened ==
    ASSUME Downloading, SameSongs, NEW c, c.id \in Ids, Is(Batch, "twin"),
           blurred \subseteq blurred', Open(Batch, Art(c.id))
    PROVE  Considerate(Batch)
  <1>. DEFINE t == c.id
  <1>0. /\ Batch \in Downloads /\ fd[Batch] = Nowhere /\ Batch \in Writers
        /\ Art(t) \in Places
    BY ArtworkAssumption, Pictures DEF ArtworkAssumption, Is, Downloading, Handles, HandleOf
  <1>1. /\ \A w \in Writers \ {Batch} : fd'[w] = fd[w]
        /\ fd'[Batch] = Art(t)
        /\ \A q \in Places : q # Art(t) => pic'[q] = pic[q]
    BY <1>0, Pictures DEF Open, Downloading
  <1>. HIDE DEF t
  <1>2. ASSUME NEW id \in Ids, Shown(id) PROVE Shown(id)'
    <2>1. CASE id = t
      BY <1>0, <1>1, <2>1 DEF Shown, Written
    <2>2. CASE id # t
      <3>1. pic'[Art(id)] = pic[Art(id)]
        BY <1>1, <2>2, Paths, Pictures DEF Downloading
      <3>2. Written(id) => Written(id)'
        BY <1>0, <1>1, Paths DEF Written
      <3>. QED
        BY <1>2, <3>1, <3>2 DEF Shown, Depicts, SameSongs
    <2>. QED
      BY <2>1, <2>2
  <1>3. ASSUME NEW e \in Downloads \ {Batch}, Working(e) PROVE Unharmed(e)
    <2>1. ~Is(e, "copying") /\ fd'[e] = fd[e] /\ Top(e).id \in Ids
      BY <1>1, <1>3, JobOf, Pictures DEF Downloading, Hands, InHand
    <2>2. pic'[Tmp(Top(e).id)] = pic[Tmp(Top(e).id)]
      BY <1>1, <2>1, Paths, Pictures DEF Downloading
    <2>. QED
      BY <2>1, <2>2 DEF Unharmed
  <1>. QED
    BY <1>1, <1>2, <1>3 DEF Considerate

LEMMA TwinClosed ==
    ASSUME Downloading, SameSongs, NEW c \in dl[Batch].left, Is(Batch, "copying"), First(Batch, c),
           blurred \subseteq blurred', NEW v, Finish(Batch, v),
           Clean(c) /\ c.id \notin blurred' => v \in Versions /\ Song(v) = Song(c.song),
           c.crossed => c.id \in blurred'
    PROVE  Considerate(Batch) /\ (c.id \notin blurred' => Shown(c.id)')
  <1>. DEFINE t == c.id
  <1>0. /\ Batch \in Downloads /\ Batch \in Writers /\ Working(Batch)
    BY ArtworkAssumption, Pictures DEF ArtworkAssumption, Working, Is, Downloading
  <1>1. /\ fd[Batch] \in {Nowhere, Art(t)} /\ t \in Ids /\ Art(t) \in Places
    BY <1>0, CopyFile, Pictures DEF Downloading
  <1>2. /\ \A w \in Writers \ {Batch} : fd'[w] = fd[w]
        /\ \A q \in Places \ {Art(t)} : pic'[q] = pic[q]
        /\ fd[Batch] = Nowhere => pic' = pic
        /\ fd[Batch] = Art(t) /\ pic[Art(t)] = Half => pic'[Art(t)] = v
    BY <1>0, <1>1, Paths, Pictures DEF Finish, Downloading
  <1>3. c.id \notin blurred' => Clean(c) /\ Copying(Batch, c) /\ row[t].song = c.song
    BY <1>0, JobOf DEF Downloading, Clean, Hands, InHand, Candid, Steady, KnownTo
  <1>. HIDE DEF t
  <1>4. ASSUME NEW id \in Ids \ blurred', Shown(id), id # t PROVE Shown(id)'
    <2>1. pic'[Art(id)] = pic[Art(id)]
      BY <1>2, <1>4, Paths, Pictures DEF Downloading
    <2>2. Written(id) => Written(id)'
      BY <1>1, <1>2, <1>4, Paths DEF Written
    <2>. QED
      BY <1>4, <2>1, <2>2 DEF Shown, Depicts, SameSongs
  <1>5. ASSUME t \notin blurred' PROVE Shown(t)'
    <2>1. CASE fd[Batch] = Nowhere
      <3>1. Shown(t)
        BY <1>3, <1>5, <2>1, Paths DEF Copying, t
      <3>2. Written(t) => Written(t)'
        BY <1>2, <2>1, Paths DEF Written
      <3>. QED
        BY <1>1, <1>2, <2>1, <3>1, <3>2 DEF Shown, Depicts, SameSongs
    <2>2. CASE fd[Batch] = Art(t)
      <3>1. pic'[Art(t)] = v /\ v \in Versions /\ Song(v) = Song(row[t].song)
        BY <1>2, <1>3, <1>5, <2>2, Paths DEF Copying, t
      <3>. QED
        BY <1>1, <3>1 DEF Shown, Depicts, SameSongs
    <2>. QED
      BY <1>1, <2>1, <2>2
  <1>6. ASSUME NEW e \in Downloads \ {Batch}, Working(e) PROVE Unharmed(e)
    <2>1. ~Is(e, "copying") /\ fd'[e] = fd[e] /\ Top(e).id \in Ids
      BY <1>2, <1>6, JobOf, Pictures DEF Downloading, Hands, InHand
    <2>2. pic'[Tmp(Top(e).id)] = pic[Tmp(Top(e).id)]
      BY <1>2, <2>1, Paths, Pictures DEF Downloading
    <2>. QED
      BY <2>1, <2>2 DEF Unharmed
  <1>7. Considerate(Batch)
    BY <1>2, <1>4, <1>5, <1>6 DEF Considerate
  <1>. QED
    BY <1>5, <1>7 DEF t

-----------------------------------------------------------------------------
(* The steps of a download. *)
LEMMA OtherHands ==
    ASSUME TypeOK, SameSongs, blurred \subseteq blurred',
           NEW d \in Downloads, Considerate(d), NEW e \in Downloads \ {d}, dl'[e] = dl[e]
    PROVE  /\ Working(e) /\ InHand(e) => InHand(e)'
           /\ Working(e) /\ HandleOf(e) => HandleOf(e)'
  <1>. SUFFICES ASSUME Working(e)
                PROVE  (InHand(e) => InHand(e)') /\ (HandleOf(e) => HandleOf(e)')
    OBVIOUS
  <1>0. /\ \A c \in dl[e].group \union dl[e].left : c.id \in Ids
        /\ e \in Writers
    BY JobOf DEF Candidates
  <1>1. ASSUME NEW c \in dl[e].group, Fine(c) PROVE Fine(c)'
    <2>1. Clean(c)' => Clean(c) /\ c.id \notin blurred' /\ c.id \in Ids
      BY <1>0 DEF Clean
    <2>. QED
      BY <1>1, <2>1 DEF Fine, Considerate
  <1>2. ASSUME NEW c \in dl[e].left, Clean(c)', First(e, c), Is(e, "copying"), Copying(e, c)
        PROVE  Copying(e, c)'
    <2>1. Clean(c) /\ c.id \notin blurred' /\ c.id \in Ids
      BY <1>0, <1>2 DEF Clean
    <2>2. \/ fd[e] = Nowhere /\ fd'[e] = Nowhere
          \/ fd'[e] = fd[e] /\ pic'[Art(c.id)] = pic[Art(c.id)]
          \/ fd'[e] = Nowhere /\ Shown(c.id)'
      BY <1>2, <2>1 DEF Considerate, Unharmed
    <2>3. Shown(c.id) => Shown(c.id)'
      BY <2>1 DEF Considerate
    <2>4. CASE fd[e] = Art(c.id) /\ pic[Art(c.id)] = Half
      BY <2>2, <2>4, Paths DEF Copying
    <2>5. CASE fd[e] = Nowhere /\ Shown(c.id)
      BY <2>2, <2>3, <2>5 DEF Copying
    <2>. QED
      BY <1>2, <2>4, <2>5 DEF Copying
  <1>3. ASSUME InHand(e) PROVE InHand(e)'
    <2>1. /\ Is(e, "copy") /\ Clean(Top(e))' => fd'[e] = Tmp(Top(e).id) /\ pic'[Tmp(Top(e).id)] = Half
          /\ Is(e, "rename") /\ Clean(Top(e))' => pic'[Tmp(Top(e).id)] = Top(e).song
      BY <1>3 DEF InHand, Considerate, Unharmed, Saving, Is, Clean, Top
    <2>2. \A c \in dl[e].group : Fine(c) => Fine(c)'
      BY <1>1
    <2>3. Is(e, "copying") => \A c \in dl[e].left : First(e, c) /\ Clean(c)' => Copying(e, c)'
      BY <1>2, <1>3 DEF InHand, Clean
    <2>. QED
      BY <1>3, <2>1, <2>2, <2>3 DEF InHand, Is, Top, First
  <1>4. ASSUME HandleOf(e) PROVE HandleOf(e)'
    <2>1. fd'[e] \in {fd[e], Nowhere} \/ \E i \in Ids : fd[e] = Tmp(i) /\ fd'[e] = Art(i)
      BY <1>0 DEF Considerate
    <2>2. CASE fd'[e] \in {fd[e], Nowhere}
      BY <1>4, <2>2 DEF HandleOf, Is, Top, First
    <2>3. CASE \E i \in Ids : fd[e] = Tmp(i) /\ fd'[e] = Art(i)
      <3>1. PICK i \in Ids : fd[e] = Tmp(i) /\ fd'[e] = Art(i)
        BY <2>3
      <3>2. CASE Is(e, "copy")
        BY <1>4, <3>1, <3>2, Paths DEF HandleOf, Is, Top
      <3>3. CASE Is(e, "copying")
        BY <1>4, <3>1, <3>3, Paths DEF HandleOf, Is, First
      <3>. QED
        BY <1>4, <3>1, <3>2, <3>3, Paths DEF HandleOf
    <2>. QED
      BY <2>1, <2>2, <2>3
  <1>. QED
    BY <1>3, <1>4

(* Where a download goes. *)
Goes(d, pc, left) ==
    /\ dl'[d].pc = pc /\ dl'[d].left = left
    /\ dl'[d].top = dl[d].top /\ dl'[d].group = dl[d].group

LEMMA WhereTo ==
    ASSUME TypeOK, NEW d \in Downloads, Working(d)
    PROVE  /\ \A pc : To(d, pc) => Goes(d, pc, dl[d].left)
           /\ \A pc : Loop(d, pc) => Goes(d, pc, dl[d].group)
           /\ Over(d) => ~Working(d)'
           /\ Fail(d) => ~Working(d)' \/ Goes(d, "tried", dl[d].group)
           /\ \A pc, c : dl' = [dl EXCEPT ![d].pc = pc, ![d].left = @ \ {c}]
                           => Goes(d, pc, dl[d].left \ {c})
  <1>0. DOMAIN dl = Downloads /\ dl[d] \in Jobs
    BY JobOf, Pictures
  <1>3. \A pc : Loop(d, pc) => Goes(d, pc, dl[d].group)
    BY <1>0 DEF Loop, Goes, Jobs
  <1>4. Over(d) => ~Working(d)'
    BY <1>0 DEF Over, Working, Idling, Waiting
  <1>5. \A pc : To(d, pc) => Goes(d, pc, dl[d].left)
    BY <1>0 DEF To, Goes, Jobs
  <1>6. \A pc, c : dl' = [dl EXCEPT ![d].pc = pc, ![d].left = @ \ {c}]
                     => Goes(d, pc, dl[d].left \ {c})
    BY <1>0 DEF Goes, Jobs
  <1>. QED
    BY <1>3, <1>4, <1>5, <1>6 DEF Fail

LEMMA AfterTwin ==
    ASSUME TypeOK, NEW d \in Downloads, Working(d), NEW c, After(d, c, "twin", Loop(d, "flagRow"))
    PROVE  \/ dl[d].left = {c} /\ Goes(d, "flagRow", dl[d].group)
           \/ dl[d].left # {c} /\ Goes(d, "twin", dl[d].left \ {c})
  <1>1. CASE dl[d].left = {c}
    BY <1>1, WhereTo DEF After
  <1>2. CASE dl[d].left # {c}
    BY <1>2, WhereTo DEF After
  <1>. QED
    BY <1>1, <1>2

LEMMA AfterFlag ==
    ASSUME TypeOK, NEW d \in Downloads, Working(d), NEW c,
           NEW pc \in {"flagRow", "tried"}, After(d, c, pc, Over(d))
    PROVE  ~Working(d)' \/ Goes(d, pc, dl[d].left \ {c})
  <1>1. CASE dl[d].left = {c}
    BY <1>1, WhereTo DEF After
  <1>2. CASE dl[d].left # {c}
    BY <1>2, WhereTo DEF After
  <1>. QED
    BY <1>1, <1>2

LEMMA OthersGoOn ==
    ASSUME TypeOK, NEW d \in Downloads, DownloadStep(d), NEW e \in Downloads \ {d}
    PROVE  dl'[e] = dl[e]
  <1>0. DOMAIN dl = Downloads
    BY Pictures
  <1>1. /\ \A pc : To(d, pc) \/ Loop(d, pc) => dl'[e] = dl[e]
        /\ Over(d) => dl'[e] = dl[e]
        /\ \A pc, c : dl' = [dl EXCEPT ![d].pc = pc, ![d].left = @ \ {c}] => dl'[e] = dl[e]
        /\ \A g : dl' = [dl EXCEPT ![d] = g] => dl'[e] = dl[e]
    BY <1>0 DEF To, Loop, Over
  <1>. QED
    BY <1>1, Zenon DEF DownloadStep, Throttle, Stamp, AskITunes, CreateTmp, CopyBody, RenamePicture,
       CopyToTwin, CopyTwin, FlagArtRow, FlagArt, MarkArtTried, Fail, After

(* Who a download is at work for changes in one way only. *)
LEMMA GoesWhere ==
    ASSUME TypeOK, NEW d \in Downloads, Working(d), DownloadStep(d), Working(d)'
    PROVE  \/ Stamp(d)
           \/ /\ dl'[d].top = dl[d].top /\ dl'[d].group = dl[d].group
              /\ dl'[d].left \subseteq dl[d].left \union dl[d].group
              /\ ~CreateTmp(d) /\ Saving(d)' => Saving(d)
  <1>1. \A pc, l : Goes(d, pc, l) => /\ dl'[d].top = dl[d].top /\ dl'[d].group = dl[d].group
                                     /\ dl'[d].left = l /\ dl'[d].pc = pc
    BY DEF Goes
  <1>2. CASE Throttle(d) \/ AskITunes(d)
    BY <1>1, <1>2, WhereTo DEF Throttle, AskITunes, Saving
  <1>3. CASE CreateTmp(d)
    BY <1>1, <1>3, WhereTo DEF CreateTmp
  <1>4. CASE CopyBody(d)
    BY <1>1, <1>4, WhereTo DEF CopyBody, Saving, Is
  <1>5. CASE RenamePicture(d)
    BY <1>1, <1>5, WhereTo DEF RenamePicture, Saving, Is
  <1>6. ASSUME NEW c \in dl[d].left,
               \/ CopyToTwin(d, c) \/ CopyTwin(d, c) \/ FlagArtRow(d, c)
               \/ FlagArt(d, c) \/ MarkArtTried(d, c)
        PROVE  /\ dl'[d].top = dl[d].top /\ dl'[d].group = dl[d].group
               /\ dl'[d].left \subseteq dl[d].left \union dl[d].group
               /\ dl'[d].pc \notin {"copy", "rename"}
    <2>1. CASE CopyToTwin(d, c)
      <3>1. After(d, c, "twin", Loop(d, "flagRow")) \/ To(d, "copying")
        BY <2>1 DEF CopyToTwin
      <3>2. \/ Goes(d, "flagRow", dl[d].group) \/ Goes(d, "twin", dl[d].left \ {c})
            \/ Goes(d, "copying", dl[d].left)
        BY <3>1, AfterTwin, WhereTo
      <3>. QED
        BY <1>1, <3>2
    <2>2. CASE CopyTwin(d, c)
      <3>1. After(d, c, "twin", Loop(d, "flagRow"))
        BY <2>2 DEF CopyTwin
      <3>2. \/ Goes(d, "flagRow", dl[d].group) \/ Goes(d, "twin", dl[d].left \ {c})
            \/ Goes(d, "copying", dl[d].left)
        BY <3>1, AfterTwin
      <3>. QED
        BY <1>1, <3>2
    <2>3. CASE FlagArtRow(d, c)
      BY <1>1, <2>3, WhereTo DEF FlagArtRow
    <2>4. CASE FlagArt(d, c)
      <3>1. After(d, c, "flagRow", Over(d))
        BY <2>4 DEF FlagArt
      <3>2. Goes(d, "flagRow", dl[d].left \ {c})
        BY <3>1, AfterFlag
      <3>. QED
        BY <1>1, <3>2
    <2>5. CASE MarkArtTried(d, c)
      <3>1. After(d, c, "tried", Over(d))
        BY <2>5 DEF MarkArtTried
      <3>2. Goes(d, "tried", dl[d].left \ {c})
        BY <3>1, AfterFlag
      <3>. QED
        BY <1>1, <3>2
    <2>. QED
      BY <1>6, <2>1, <2>2, <2>3, <2>4, <2>5
  <1>. QED
    BY <1>2, <1>3, <1>4, <1>5, <1>6 DEF DownloadStep, Saving

(* What a step of a download has to show. *)
Proper(d) == /\ blurred \subseteq blurred' /\ Considerate(d)
             /\ Working(d)' => InHand(d)'
             /\ HandleOf(d)'

LEMMA StepSongs ==
    ASSUME TypeOK, NEW d \in Downloads, Working(d), DownloadStep(d)
    PROVE  SameTracks /\ SameSongs /\ pending' = pending /\ ArtStep
  <1>1. ArtStep
    BY DEF ArtStep, Working
  <1>2. SameTracks
    BY <1>1, ArtKeepsFields
  <1>. QED
    BY <1>1, <1>2 DEF SameTracks, SameSongs, DownloadStep, Throttle, Stamp, AskITunes, CreateTmp,
       CopyBody, RenamePicture, CopyToTwin, CopyTwin, FlagArtRow, FlagArt, MarkArtTried

(* A download that only moves on. *)
LEMMA NoFile ==
    ASSUME Downloading, SameSongs, NEW d \in Downloads, UNCHANGED <<pic, fd>>,
           blurred \subseteq blurred', dl[d].pc \notin {"copy", "copying"},
           Working(d)' => InHand(d)'
    PROVE  Proper(d)
  <1>1. fd'[d] = Nowhere
    BY DEF Downloading, Handles, HandleOf, Is
  <1>. QED
    BY <1>1, NoFiles DEF Proper, HandleOf

LEMMA FineStays ==
    ASSUME NEW d, Considerate(d), blurred \subseteq blurred', NEW c, c.id \in Ids, Fine(c)
    PROVE  Fine(c)'
  BY DEF Considerate, Fine, Clean

LEMMA AskProper ==
    ASSUME Downloading, NEW d \in Downloads, Working(d), Throttle(d) \/ Stamp(d) \/ AskITunes(d),
           SameSongs
    PROVE  Proper(d)
  <1>0. /\ TypeOK /\ InHand(d) /\ UNCHANGED <<pic, fd, blurred>> /\ DOMAIN dl = Downloads
        /\ dl[d].pc \in {"throttle", "stamp", "ask"}
    BY Pictures DEF Downloading, Hands, Throttle, Stamp, AskITunes, Is, trackVars
  <1>1. ASSUME NEW pc \in {"stamp", "create"}, Goes(d, pc, dl[d].left) PROVE InHand(d)'
    BY <1>0, <1>1 DEF InHand, Goes, Is, Before, Flagging, Top
  <1>2. ASSUME Goes(d, "tried", dl[d].group) PROVE InHand(d)'
    BY <1>2 DEF InHand, Goes, Is, Before, Flagging
  <1>3. ASSUME NEW c, dl'[d] = Group("ask", c, {c}) PROVE InHand(d)'
    BY <1>3 DEF Group, InHand, Is, Before, Flagging, Top
  <1>4. Working(d)' => InHand(d)'
    <2>1. CASE Throttle(d)
      BY <1>0, <1>1, <2>1, WhereTo DEF Throttle
    <2>2. CASE Stamp(d)
      BY <1>0, <1>3, <2>2 DEF Stamp
    <2>3. CASE AskITunes(d)
      BY <1>0, <1>1, <1>2, <2>3, WhereTo DEF AskITunes
    <2>. QED
      BY <2>1, <2>2, <2>3
  <1>. QED
    BY <1>0, <1>4, NoFile

LEMMA CreateProper ==
    ASSUME Downloading, NEW d \in Downloads, Working(d), CreateTmp(d), SameSongs PROVE Proper(d)
  <1>0. /\ TypeOK /\ InHand(d) /\ Is(d, "create") /\ Top(d).id \in Ids /\ d \in Writers
        /\ blurred \subseteq blurred' /\ Tmp(Top(d).id) \in Places
    BY JobOf, Pictures DEF Downloading, Hands, CreateTmp, BlurIf, Blur
  <1>1. CASE Fail(d) /\ UNCHANGED <<pic, fd, blurred>>
    <2>1. Working(d)' => InHand(d)'
      BY <1>0, <1>1, WhereTo DEF InHand, Goes, Is, Before, Flagging
    <2>. QED
      BY <1>0, <1>1, <2>1, NoFile DEF Is
  <1>2. CASE /\ Open(d, Tmp(Top(d).id)) /\ To(d, "copy") /\ BlurIf(Shared(d), Top(d))
    <2>1. Considerate(d)
      BY <1>0, <1>2, NewTmp DEF BlurIf, Blur
    <2>2. fd'[d] = Tmp(Top(d).id) /\ pic'[Tmp(Top(d).id)] = Half
      BY <1>0, <1>2, Pictures DEF Open
    <2>3. Goes(d, "copy", dl[d].left)
      BY <1>0, <1>2, WhereTo
    <2>4. InHand(d)'
      BY <1>0, <2>2, <2>3 DEF InHand, Goes, Is, Before, Flagging, Top
    <2>5. HandleOf(d)'
      BY <2>2, <2>3 DEF HandleOf, Goes, Is, Top
    <2>. QED
      BY <1>0, <2>1, <2>4, <2>5 DEF Proper
  <1>. QED
    BY <1>1, <1>2 DEF CreateTmp

LEMMA CopyProper ==
    ASSUME Downloading, NEW d \in Downloads, Working(d), CopyBody(d), SameSongs PROVE Proper(d)
  <1>. DEFINE t == Top(d).id
  <1>0. /\ TypeOK /\ InHand(d) /\ Is(d, "copy") /\ Saving(d) /\ t \in Ids /\ d \in Writers
        /\ blurred \subseteq blurred' /\ Tmp(t) \in Places /\ Art(t) \in Places
        /\ fd[d] \in {Nowhere, Art(t), Tmp(t)}
    BY JobOf, OwnFile, Pictures DEF Downloading, Hands, CopyBody, BlurIf, Blur, Saving, Is
  <1>1. t \notin blurred' =>
           Clean(Top(d)) /\ fd[d] = Tmp(t) /\ pic[Tmp(t)] = Half
    BY <1>0 DEF CopyBody, BlurIf, Blur, Changed, Clean, InHand
  <1>2. CASE Discard(d, Tmp(t)) /\ Fail(d)
    <2>1. /\ \A q \in Places \ {Tmp(t)} : pic'[q] = pic[q]
          /\ \A w \in Writers \ {d} : fd'[w] = fd[w] \/ (fd'[w] = Nowhere /\ fd[w] = Tmp(t))
          /\ fd'[d] = Nowhere
      BY <1>0, <1>2, Pictures DEF Discard
    <2>2. Considerate(d)
      BY <1>0, <1>1, <2>1, Paths, Closed
    <2>3. Working(d)' => InHand(d)'
      BY <1>0, <1>2, WhereTo DEF InHand, Goes, Is, Before, Flagging
    <2>. QED
      BY <1>0, <2>1, <2>2, <2>3 DEF Proper, HandleOf
  <1>3. ASSUME NEW v \in Content, Finish(d, v)
        PROVE  /\ fd'[d] = Nowhere /\ Considerate(d)
               /\ t \notin blurred' => pic'[Tmp(t)] = v
    <2>1. /\ \A w \in Writers \ {d} : fd'[w] = fd[w]
          /\ fd'[d] = Nowhere
          /\ \A q \in Places \ {fd[d]} : pic'[q] = pic[q]
      BY <1>0, <1>3, Pictures DEF Finish
    <2>2. Considerate(d)
      BY <1>0, <1>1, <2>1, Paths, Closed
    <2>3. t \notin blurred' => pic'[Tmp(t)] = v
      BY <1>0, <1>1, <1>3, Paths, Pictures DEF Finish
    <2>. QED
      BY <2>1, <2>2, <2>3
  <1>4. CASE Finish(d, Half) /\ Fail(d)
    <2>1. fd'[d] = Nowhere /\ Considerate(d)
      BY <1>3, <1>4, ContentType
    <2>2. Working(d)' => InHand(d)'
      BY <1>0, <1>4, WhereTo DEF InHand, Goes, Is, Before, Flagging
    <2>. QED
      BY <1>0, <2>1, <2>2 DEF Proper, HandleOf
  <1>5. CASE Finish(d, Top(d).song) /\ To(d, "rename")
    <2>0. Top(d).song \in Content
      BY <1>0, JobOf, ContentType
    <2>1. fd'[d] = Nowhere /\ Considerate(d) /\ (t \notin blurred' => pic'[Tmp(t)] = Top(d).song)
      BY <1>3, <1>5, <2>0
    <2>2. Goes(d, "rename", dl[d].left)
      BY <1>0, <1>5, WhereTo
    <2>3. InHand(d)'
      BY <1>0, <2>1, <2>2 DEF InHand, Goes, Is, Before, Flagging, Top, Clean
    <2>. QED
      BY <1>0, <2>1, <2>3 DEF Proper, HandleOf
  <1>. QED
    BY <1>2, <1>4, <1>5 DEF CopyBody

LEMMA RenameProper ==
    ASSUME Downloading, NEW d \in Downloads, Working(d), RenamePicture(d), SameSongs PROVE Proper(d)
  <1>0. /\ TypeOK /\ InHand(d) /\ Is(d, "rename") /\ Top(d).id \in Ids /\ d \in Writers
        /\ blurred \subseteq blurred'
    BY JobOf DEF Downloading, Hands, RenamePicture, BlurIf, Blur
  <1>1. CASE Fail(d) /\ UNCHANGED <<pic, fd, blurred>>
    <2>1. Working(d)' => InHand(d)'
      BY <1>0, <1>1, WhereTo DEF InHand, Goes, Is, Before, Flagging
    <2>. QED
      BY <1>0, <1>1, <2>1, NoFile DEF Is
  <1>2. CASE /\ Rename(Top(d).id) /\ BlurIf(Changed(Top(d)), Top(d))
             /\ IF dl[d].left = {} THEN Loop(d, "flagRow") ELSE To(d, "twin")
    <2>t. PICK t : t = Top(d).id
      OBVIOUS
    <2>0. /\ fd[d] = Nowhere /\ Art(t) \in Places /\ Tmp(t) \in Places /\ t \in Ids
      BY <1>0, <2>t, Pictures DEF Downloading, Handles, HandleOf, Is
    <2>1. fd'[d] = Nowhere /\ pic'[Art(t)] = pic[Tmp(t)]
      BY <1>0, <1>2, <2>t, <2>0, Paths, Pictures DEF Rename, Downloading
    <2>2. t \notin blurred' => /\ Clean(Top(d)) /\ pic[Tmp(t)] = Top(d).song
                               /\ row[t].song = Top(d).song /\ Top(d).song \in Versions
      BY <1>0, <1>2, <2>t, JobOf DEF BlurIf, Blur, Changed, Clean, InHand, Downloading, Candid, Steady, KnownTo
    <2>3. Depicts(t)' \/ t \in blurred'
      BY <2>0, <2>1, <2>2 DEF Depicts, SameSongs
    <2>4. Considerate(d)
      BY <1>0, <1>2, <2>t, <2>3, Renamed
    <2>5. ASSUME NEW c, c = Top(d) PROVE Fine(c)'
      BY <2>t, <2>3, <2>5 DEF Fine, Clean, Shown
    <2>6. CASE dl[d].left = {}
      <3>1. Goes(d, "flagRow", dl[d].group)
        BY <1>0, <1>2, <2>6, WhereTo
      <3>2. \A c \in dl[d].group : c = Top(d)
        BY <1>0, <2>6 DEF InHand, Before, Is
      <3>. QED
        BY <1>0, <2>1, <2>4, <2>5, <3>1, <3>2
        DEF Proper, HandleOf, InHand, Goes, Is, Before, Flagging
    <2>7. CASE dl[d].left # {}
      <3>1. Goes(d, "twin", dl[d].left)
        BY <1>0, <1>2, <2>7, WhereTo
      <3>2. d = Batch /\ \A c \in dl[d].group \ dl[d].left : c = Top(d)
        BY <1>0, <2>7 DEF InHand, Before, Is
      <3>. QED
        BY <1>0, <2>1, <2>4, <2>5, <3>1, <3>2
        DEF Proper, HandleOf, InHand, Goes, Is, Before, Flagging
    <2>. QED
      BY <2>6, <2>7
  <1>. QED
    BY <1>1, <1>2 DEF RenamePicture

LEMMA TwinDone ==
    ASSUME Downloading, NEW d \in Downloads, dl[d].pc \in {"twin", "copying"}, NEW c \in dl[d].left,
           After(d, c, "twin", Loop(d, "flagRow")), blurred \subseteq blurred', Considerate(d),
           fd'[d] = Nowhere, c.id \notin blurred' => Shown(c.id)'
    PROVE  Proper(d)
  <1>0. TypeOK /\ Working(d) /\ InHand(d) /\ d = Batch
    BY DEF Downloading, Hands, InHand, Is, Working
  <1>1. \A e \in dl[d].group : e.id \in Ids
    BY <1>0, JobOf DEF Candidates
  <1>2. \A e \in dl[d].group : e \notin dl[d].left \/ e = c => Fine(e)'
    <2>1. Fine(c)'
      BY DEF Fine, Clean
    <2>2. \A e \in dl[d].group \ dl[d].left : Fine(e)
      BY <1>0 DEF InHand
    <2>. QED
      BY <1>1, <2>1, <2>2, FineStays
  <1>3. \/ dl[d].left = {c} /\ Goes(d, "flagRow", dl[d].group)
        \/ dl[d].left # {c} /\ Goes(d, "twin", dl[d].left \ {c})
    BY <1>0, AfterTwin
  <1>4. InHand(d)'
    <2>1. CASE dl[d].left = {c} /\ Goes(d, "flagRow", dl[d].group)
      BY <1>0, <1>2, <2>1 DEF InHand, Goes, Is, Before, Flagging
    <2>2. CASE dl[d].left # {c} /\ Goes(d, "twin", dl[d].left \ {c})
      BY <1>0, <1>2, <2>2 DEF InHand, Goes, Is, Before, Flagging
    <2>. QED
      BY <1>3, <2>1, <2>2
  <1>. QED
    BY <1>4 DEF Proper, HandleOf

LEMMA OneFirst ==
    ASSUME Downloading, NEW d \in Downloads, Working(d), NEW c, First(d, c), NEW e, First(d, e)
    PROVE  c.id = e.id
  <1>1. c.id \in Int /\ e.id \in Int /\ c.id <= e.id /\ e.id <= c.id
    BY JobOf DEF First, Candidates, Ids, Downloading
  <1>. QED
    BY <1>1

LEMMA TwinProper ==
    ASSUME Downloading, NEW d \in Downloads, Working(d), NEW c \in dl[d].left,
           CopyToTwin(d, c) \/ CopyTwin(d, c), SameSongs
    PROVE  Proper(d)
  <1>0. /\ TypeOK /\ InHand(d) /\ d \in Writers /\ c.id \in Ids /\ c.song \in Versions
        /\ dl[d].pc \in {"twin", "copying"} /\ d = Batch /\ First(d, c)
        /\ blurred \subseteq blurred' /\ Art(c.id) \in Places
    BY JobOf, Pictures DEF Downloading, Hands, InHand, CopyToTwin, CopyTwin, Is, BlurIf, Blur, Candidates
  <1>1. CASE /\ Is(d, "twin") /\ Open(d, Art(c.id)) /\ To(d, "copying") /\ BlurIf(Changed(c), c)
    <2>1. Considerate(d)
      BY <1>0, <1>1, TwinOpened
    <2>2. fd'[d] = Art(c.id) /\ pic'[Art(c.id)] = Half
      BY <1>0, <1>1, Pictures DEF Open
    <2>3. Goes(d, "copying", dl[d].left)
      BY <1>0, <1>1, WhereTo
    <2>4. \A e \in dl[d].left : First(d, e) => e.id = c.id
      BY <1>0, OneFirst
    <2>5. \A e \in dl[d].group \ dl[d].left : Fine(e)'
      <3>1. \A e \in dl[d].group \ dl[d].left : Fine(e) /\ e.id \in Ids
        BY <1>0, <1>1, JobOf DEF InHand, Is, Candidates
      <3>. QED
        BY <1>0, <2>1, <3>1, FineStays
    <2>6. InHand(d)'
      BY <1>0, <2>2, <2>3, <2>4, <2>5
      DEF InHand, Goes, Is, Before, Flagging, Copying, First
    <2>7. HandleOf(d)'
      BY <2>2, <2>3, <2>4 DEF HandleOf, Goes, Is, First
    <2>. QED
      BY <1>0, <2>1, <2>6, <2>7 DEF Proper
  <1>2. CASE /\ Is(d, "twin") /\ After(d, c, "twin", Loop(d, "flagRow"))
             /\ Blur({c.id}) /\ UNCHANGED <<pic, fd>>
    <2>1. fd'[d] = Nowhere
      BY <1>2 DEF Downloading, Handles, HandleOf, Is
    <2>. QED
      BY <1>0, <1>2, <2>1, NoFiles, TwinDone DEF Blur
  <1>3. CASE CopyTwin(d, c)
    <2>1. PICK v : v = pic[Art(Top(d).id)]
      OBVIOUS
    <2>2. v \in Content
      BY <1>0, <2>1, JobOf, Pictures
    <2>3. PICK w : w \in {v, Half} /\ Finish(d, w)
                   /\ (c.id \notin blurred' => ~c.crossed /\ w = v /\ Song(v) = Song(c.song))
      BY <1>0, <1>3, <2>1 DEF CopyTwin, BlurIf, Blur, Changed
    <2>4. fd'[d] = Nowhere
      BY <1>0, <2>3, Pictures DEF Finish
    <2>5. c.id \notin blurred' => w \in Versions /\ Song(w) = Song(c.song)
      BY <1>0, <2>2, <2>3, SongOf
    <2>6. Considerate(Batch) /\ (c.id \notin blurred' => Shown(c.id)')
      BY <1>0, <1>3, <2>3, <2>5, TwinClosed DEF CopyTwin, Is
    <2>. QED
      BY <1>0, <1>3, <2>4, <2>6, TwinDone DEF CopyTwin
  <1>. QED
    BY <1>1, <1>2, <1>3 DEF CopyToTwin

LEMMA FlagProper ==
    ASSUME Downloading, NEW d \in Downloads, Working(d), NEW c \in dl[d].left,
           FlagArtRow(d, c) \/ FlagArt(d, c) \/ MarkArtTried(d, c), SameSongs
    PROVE  Proper(d)
  <1>0. /\ TypeOK /\ InHand(d) /\ dl[d].pc \in {"flagRow", "flag", "tried"}
        /\ UNCHANGED <<pic, fd>> /\ blurred \subseteq blurred' /\ Considerate(d)
    BY NoFiles DEF Downloading, Hands, FlagArtRow, FlagArt, MarkArtTried, BlurIf, Blur, Is
  <1>1. dl[d].pc \in Flagging => \A e \in dl[d].group : Fine(e)'
    <2>1. dl[d].pc \in Flagging => \A e \in dl[d].group : Fine(e)
      BY <1>0 DEF InHand
    <2>2. \A e \in dl[d].group : e.id \in Ids
      BY <1>0, JobOf DEF Candidates
    <2>. QED
      BY <1>0, <2>1, <2>2, FineStays
  <1>2. ASSUME NEW pc \in Flagging, dl[d].pc \in Flagging,
               NEW left \in SUBSET dl[d].group, Goes(d, pc, left)
        PROVE  InHand(d)'
    BY <1>1, <1>2 DEF InHand, Goes, Is, Before, Flagging
  <1>3. dl[d].left \subseteq dl[d].group
    BY <1>0 DEF InHand
  <1>4. CASE FlagArtRow(d, c)
    <2>1. Goes(d, "flag", dl[d].left) /\ dl[d].pc \in Flagging
      BY <1>0, <1>4, WhereTo DEF FlagArtRow, Is, Flagging
    <2>2. InHand(d)'
      BY <1>2, <1>3, <2>1 DEF Flagging
    <2>. QED
      BY <1>0, <2>2, NoFile
  <1>5. CASE FlagArt(d, c)
    <2>1. After(d, c, "flagRow", Over(d)) /\ dl[d].pc \in Flagging
      BY <1>5 DEF FlagArt, Is, Flagging
    <2>2. ~Working(d)' \/ Goes(d, "flagRow", dl[d].left \ {c})
      BY <1>0, <2>1, AfterFlag
    <2>3. Working(d)' => InHand(d)'
      BY <1>2, <1>3, <2>1, <2>2 DEF Flagging
    <2>. QED
      BY <1>0, <2>3, NoFile
  <1>6. CASE MarkArtTried(d, c)
    <2>1. After(d, c, "tried", Over(d))
      BY <1>6 DEF MarkArtTried
    <2>2. ~Working(d)' \/ Goes(d, "tried", dl[d].left \ {c})
      BY <1>0, <2>1, AfterFlag
    <2>3. Working(d)' => InHand(d)'
      BY <1>3, <2>2 DEF InHand, Goes, Is, Before, Flagging
    <2>. QED
      BY <1>0, <2>3, NoFile
  <1>. QED
    BY <1>4, <1>5, <1>6

LEMMA StepProper ==
    ASSUME Downloading, NEW d \in Downloads, Working(d), DownloadStep(d) PROVE Proper(d)
  <1>1. SameSongs
    BY StepSongs DEF Downloading
  <1>. QED
    BY <1>1, AskProper, CreateProper, CopyProper, RenameProper, TwinProper, FlagProper
    DEF DownloadStep

LEMMA CandidStep ==
    ASSUME Downloading, Shape, NEW d \in Downloads, Working(d), DownloadStep(d) PROVE Candid'
  <1>0. TypeOK /\ SameTracks /\ SameSongs /\ pending' = pending /\ Candid
    BY StepSongs DEF Downloading
  <1>1. \A c : c.id \in Ids /\ Steady(c) => Steady(c)'
    BY <1>0 DEF Steady, SameTracks, SameSongs, At
  <1>2. \A e \in Downloads : Working(e) => \A c \in KnownTo(e) : Steady(c) /\ c.id \in Ids
    BY <1>0, JobOf DEF Candid, KnownTo, Candidates
  <1>3. ASSUME Working(d)', NEW c \in KnownTo(d)' PROVE Steady(c)'
    <2>1. CASE Stamp(d)
      <3>. DEFINE n == Candidate(Top(d).id, mem[Top(d).id].song)
      <3>1. dl'[d] = Group("ask", n, {n})
        BY <1>0, <2>1, Pictures DEF Stamp
      <3>2. c = n
        BY <1>3, <3>1 DEF KnownTo, Group, Top
      <3>3. Top(d).id \in Ids /\ Steady(n)
        BY <1>0, JobOf DEF Candidate, Steady, Unsteady, Shape, ShapeOf, At
      <3>4. c.id = Top(d).id
        BY <3>2 DEF Candidate
      <3>5. Steady(c)
        BY <3>2, <3>3
      <3>. QED
        BY <1>1, <3>3, <3>4, <3>5
    <2>2. CASE KnownTo(d)' \subseteq KnownTo(d)
      BY <1>1, <1>2, <1>3, <2>2
    <2>. QED
      BY <1>0, <1>3, <2>1, <2>2, GoesWhere DEF KnownTo, Top
  <1>4. ASSUME NEW e \in Downloads, Working(e)', NEW c \in KnownTo(e)', e # d PROVE Steady(c)'
    <2>1. dl'[e] = dl[e]
      BY <1>0, <1>4, OthersGoOn
    <2>. QED
      BY <1>1, <1>2, <1>4, <2>1 DEF Working, KnownTo, Top
  <1>5. \A c \in pending : c.id \in Ids
    BY <1>0 DEF TypeOK, ArtworkTypeOK, Candidates
  <1>. QED
    BY <1>0, <1>1, <1>3, <1>4, <1>5 DEF Candid

LEMMA ApartStep ==
    ASSUME Downloading, NEW d \in Downloads, Working(d), DownloadStep(d) PROVE Apart'
  <1>0. /\ TypeOK /\ blurred \subseteq blurred'
        /\ \A e \in Downloads \ {d} : dl'[e] = dl[e]
    BY StepProper, OthersGoOn DEF Downloading, Proper
  <1>1. \A e \in Downloads \ {d} : /\ Saving(e)' <=> Saving(e)
                                   /\ Top(e)' = Top(e)
                                   /\ Clean(Top(e))' => Clean(Top(e))
    BY <1>0 DEF Saving, Top, Clean
  <1>2. ASSUME Saving(d)', NEW e \in Downloads \ {d}, Saving(e), Top(e).id = Top(d)'.id
        PROVE  ~Clean(Top(d))' /\ ~Clean(Top(e))'
    <2>0. Working(d)' /\ dl'[d].pc # "ask"
      BY <1>2 DEF Saving, Working
    <2>1. CASE CreateTmp(d)
      <3>1. ~Fail(d)
        BY <1>0, <1>2, WhereTo DEF Goes, Saving, Working
      <3>2. BlurIf(Shared(d), Top(d)) /\ To(d, "copy")
        BY <2>1, <3>1 DEF CreateTmp
      <3>3. Top(d)' = Top(d)
        BY <1>0, <3>2, WhereTo DEF Goes, Top
      <3>4. Shared(d)
        BY <1>2, <3>3 DEF Shared, Saving
      <3>. QED
        BY <1>1, <1>2, <3>2, <3>3, <3>4 DEF BlurIf, Blur, Clean
    <2>2. CASE ~CreateTmp(d)
      <3>1. ~Stamp(d)
        BY <1>0, <2>0, Pictures DEF Stamp, Group
      <3>2. Top(d)' = Top(d) /\ Saving(d)
        BY <1>0, <1>2, <2>0, <2>2, <3>1, GoesWhere DEF Top
      <3>3. ~Clean(Top(d)) /\ ~Clean(Top(e))
        BY <1>2, <3>2 DEF Downloading, Apart
      <3>. QED
        BY <1>0, <1>1, <3>2, <3>3 DEF Clean
    <2>. QED
      BY <2>1, <2>2
  <1>3. ASSUME NEW e \in Downloads, NEW f \in Downloads, e # f, Saving(e)', Saving(f)',
               Top(e)'.id = Top(f)'.id
        PROVE  ~Clean(Top(e))'
    <2>1. CASE e = d
      BY <1>1, <1>2, <1>3, <2>1
    <2>2. CASE f = d
      BY <1>1, <1>2, <1>3, <2>2
    <2>3. CASE e # d /\ f # d
      BY <1>1, <1>3, <2>3 DEF Downloading, Apart
    <2>. QED
      BY <2>1, <2>2, <2>3
  <1>. QED
    BY <1>3 DEF Apart

LEMMA HandsStep ==
    ASSUME Downloading, NEW d \in Downloads, Working(d), DownloadStep(d) PROVE Handles' /\ Hands'
  <1>0. /\ TypeOK /\ Proper(d) /\ SameTracks /\ SameSongs
        /\ Considerate(d) /\ blurred \subseteq blurred'
        /\ \A e \in Downloads \ {d} : dl'[e] = dl[e]
    BY StepProper, OthersGoOn, StepSongs DEF Downloading, Proper
  <1>1. ASSUME NEW id \in Ids, fd'[id] # Nowhere PROVE fd'[id] = Art(id) /\ At(id, "saving")'
    <2>1. id \in Writers \ {d} /\ (fd[id] # Nowhere => fd[id] = Art(id) /\ At(id, "saving"))
      BY <1>0, Pictures DEF Downloading, Handles
    <2>2. fd'[id] \in {fd[id], Nowhere} \/ \E i \in Ids : fd[id] = Tmp(i)
      BY <1>0, <2>1 DEF Considerate
    <2>3. fd'[id] = fd[id]
      BY <1>1, <2>1, <2>2, Paths
    <2>. QED
      BY <1>0, <1>1, <2>1, <2>3 DEF SameTracks, At
  <1>2. ASSUME NEW e \in Downloads \ {d}, ~Working(e) PROVE HandleOf(e)'
    <2>1. e \in Writers \ {d} /\ fd[e] = Nowhere
      BY <1>0, <1>2, Pictures DEF Downloading, Handles, HandleOf, Working, Is
    <2>2. fd'[e] = Nowhere
      BY <1>0, <2>1, Paths DEF Considerate
    <2>. QED
      BY <2>2 DEF HandleOf
  <1>3. ASSUME NEW e \in Downloads \ {d}, Working(e) PROVE HandleOf(e)' /\ InHand(e)'
    BY <1>0, <1>3, OtherHands DEF Downloading, Handles, Hands
  <1>4. \A e \in Downloads \ {d} : Working(e)' <=> Working(e)
    BY <1>0 DEF Working
  <1>5. HandleOf(d)' /\ (Working(d)' => InHand(d)')
    BY <1>0 DEF Proper
  <1>. QED
    BY <1>1, <1>2, <1>3, <1>4, <1>5 DEF Handles, Hands

(* A goroutine that begins or waits: nothing of a picture changes. *)
LEMMA BeginsWork ==
    ASSUME Downloading, SameSongs, UNCHANGED <<pic, fd, upd, stored, blurred>>,
           NEW d \in Downloads, ~Working(d), NEW g, dl' = [dl EXCEPT ![d] = g],
           \/ g \in {Waiting, Fetching, Idling}
           \/ \E pc \in {"throttle", "ask"}, top \in Candidates, S \in SUBSET Candidates :
                 /\ g = Group(pc, top, S)
                 /\ \A c \in S \union {top} : Steady(c)
                 /\ d # Batch => S = {top},
           \A c \in pending' : Steady(c) /\ c.id \in Ids
    PROVE  Candid' /\ Apart' /\ Handles' /\ Hands'
  <1>0. /\ TypeOK /\ \A e \in Downloads \ {d} : dl'[e] = dl[e]
        /\ dl'[d] = g /\ fd[d] = Nowhere
    BY Pictures DEF Downloading, Handles, HandleOf, Working, Is
  <1>1. \A c : c.id \in Ids /\ Steady(c) => Steady(c)'
    BY DEF Steady, SameSongs, At
  <1>2. /\ \A e \in Downloads \ {d} : Working(e)' <=> Working(e)
        /\ \A e \in Downloads \ {d} : Saving(e)' <=> Saving(e)
        /\ \A e \in Downloads \ {d} : KnownTo(e)' = KnownTo(e) /\ Top(e)' = Top(e)
    BY <1>0 DEF Working, Saving, KnownTo, Top
  <1>3. \A c : Fine(c) /\ c.id \in Ids => Fine(c)'
    BY DEF Fine, Clean, Shown, Depicts, Written, SameSongs
  <1>4. ~Saving(d)'
    BY <1>0 DEF Saving, Waiting, Fetching, Idling, Group
  <1>5. Apart'
    BY <1>0, <1>2, <1>4 DEF Apart, Downloading, Clean
  <1>6. HandleOf(d)' /\ \A e \in Downloads \ {d} : HandleOf(e)'
    BY <1>0 DEF Downloading, Handles, HandleOf, Is, Top, First
  <1>7. Handles'
    BY <1>6 DEF Downloading, Handles, At
  <1>8. ASSUME NEW e \in Downloads \ {d}, Working(e) PROVE InHand(e)'
    <2>1. InHand(e)
      BY <1>8 DEF Downloading, Hands
    <2>2. \A c \in dl[e].group \union dl[e].left : c.id \in Ids
      BY <1>0, <1>8, JobOf DEF Candidates
    <2>3. \A c \in dl[e].group : Fine(c) => Fine(c)'
      BY <1>3, <2>2
    <2>4. \A c \in dl[e].left : Copying(e, c) => Copying(e, c)'
      BY <2>2 DEF Copying, Shown, Depicts, Written, SameSongs
    <2>. QED
      BY <1>0, <2>1, <2>3, <2>4 DEF InHand, Is, Top, First, Clean
  <1>9. ASSUME Working(d)' PROVE InHand(d)' /\ \A c \in KnownTo(d)' : Steady(c)'
    <2>1. PICK pc \in {"throttle", "ask"}, top \in Candidates, S \in SUBSET Candidates :
                 /\ g = Group(pc, top, S)
                 /\ \A c \in S \union {top} : Steady(c)
                 /\ d # Batch => S = {top}
      BY <1>0, <1>9 DEF Working, Waiting, Fetching, Idling
    <2>2. /\ dl'[d].pc = pc /\ dl'[d].top = top /\ dl'[d].group = S
          /\ dl'[d].left = S \ {top}
      BY <1>0, <2>1 DEF Group
    <2>3. InHand(d)'
      BY <2>1, <2>2 DEF InHand, Is, Before, Flagging, Top
    <2>4. \A c \in S \union {top} : Steady(c)'
      BY <1>1, <2>1 DEF Candidates
    <2>. QED
      BY <2>2, <2>3, <2>4 DEF KnownTo, Top
  <1>10. Hands'
    BY <1>2, <1>8, <1>9 DEF Hands
  <1>11. ASSUME NEW e \in Downloads \ {d}, Working(e), NEW c \in KnownTo(e) PROVE Steady(c)'
    <2>1. Steady(c) /\ c.id \in Ids
      BY <1>0, <1>11, JobOf DEF Downloading, Candid, KnownTo, Candidates
    <2>. QED
      BY <1>1, <2>1
  <1>12. Candid'
    BY <1>1, <1>2, <1>9, <1>11 DEF Candid
  <1>. QED
    BY <1>5, <1>7, <1>10, <1>12

LEMMA DownloadingArtStep ==
    ASSUME Downloading, Shape, ArtStep, TypeOK' PROVE Downloading'
  <1>0. /\ TypeOK /\ SameTracks /\ SameSongs /\ \A c \in pending : Steady(c) /\ c.id \in Ids
        /\ pending \subseteq Candidates /\ Batch \in Downloads /\ DOMAIN dl = Downloads
    BY ArtKeepsFields, Pictures, ArtworkAssumption
    DEF Downloading, Candid, SameTracks, SameSongs, TypeOK, ArtworkTypeOK, Candidates,
        ArtworkAssumption
  <1>1. \A id \in Ids : /\ Steady(Candidate(id, row[id].song)) /\ Candidate(id, row[id].song).id = id
                        /\ Steady(Candidate(id, mem[id].song)) /\ Candidate(id, mem[id].song).id = id
                        /\ Candidate(id, mem[id].song) \in Candidates
    BY <1>0, CandidateType
    DEF Candidate, Steady, Unsteady, Shape, ShapeOf, At, TypeOK, TracksTypeOK, Mems
  <1>2. CASE Query
    <2>1. /\ UNCHANGED <<pic, fd, upd, stored, blurred>> /\ ~Working(Batch)
          /\ dl' = [dl EXCEPT ![Batch] = Idling]
      BY <1>2 DEF Query, Over, trackVars, Working, Is
    <2>2. \A c \in pending' : Steady(c) /\ c.id \in Ids
      BY <1>0, <1>1, <1>2 DEF Query, TypeOK, TracksTypeOK
    <2>. QED
      BY <1>0, <2>1, <2>2, BeginsWork DEF Downloading
  <1>3. CASE NextSong
    <2>1. PICK top \in pending :
            LET group == {c \in pending : Song(c.song) = Song(top.song)} IN
            /\ dl' = [dl EXCEPT ![Batch] = Group("ask", top, group)] /\ pending' = pending \ group
      BY <1>3 DEF NextSong
    <2>2. PICK group \in SUBSET Candidates :
            /\ dl' = [dl EXCEPT ![Batch] = Group("ask", top, group)] /\ pending' = pending \ group
            /\ group \subseteq pending
      BY <1>0, <2>1
    <2>3. UNCHANGED <<pic, fd, upd, stored, blurred>> /\ ~Working(Batch)
      BY <1>3 DEF NextSong, trackVars, Working, Is
    <2>4. \E pc \in {"throttle", "ask"}, t \in Candidates, S \in SUBSET Candidates :
             /\ Group("ask", top, group) = Group(pc, t, S)
             /\ \A c \in S \union {t} : Steady(c)
             /\ Batch # Batch => S = {t}
      BY <1>0, <2>2
    <2>5. \A c \in pending' : Steady(c) /\ c.id \in Ids
      BY <1>0, <2>2
    <2>. QED
      BY <1>0, <2>2, <2>3, <2>4, <2>5, BeginsWork DEF Downloading
  <1>4. ASSUME NEW d \in Downloads, NEW id \in Ids, StartRefresh(d, id) PROVE Downloading'
    <2>1. /\ UNCHANGED <<pic, fd, upd, stored, blurred>> /\ ~Working(d) /\ pending' = pending
      BY <1>4 DEF StartRefresh, trackVars, Working, Is
    <2>2. PICK c \in Candidates : dl' = [dl EXCEPT ![d] = Group("throttle", c, {c})] /\ Steady(c)
      BY <1>1, <1>4 DEF StartRefresh
    <2>3. \E pc \in {"throttle", "ask"}, t \in Candidates, S \in SUBSET Candidates :
             /\ Group("throttle", c, {c}) = Group(pc, t, S)
             /\ \A e \in S \union {t} : Steady(e)
             /\ d # Batch => S = {t}
      BY <2>2
    <2>. QED
      BY <1>0, <2>1, <2>2, <2>3, BeginsWork DEF Downloading
  <1>5. ASSUME NEW song \in recent, ThrottleExpires(song) PROVE Downloading'
    <2>1. /\ UNCHANGED <<pic, fd, upd, stored, blurred>> /\ pending' = pending
          /\ UNCHANGED <<dl, row>>
      BY <1>0, <1>5 DEF ThrottleExpires, trackVars, TypeOK, ArtworkTypeOK
    <2>2. Candid' /\ Apart' /\ Handles' /\ Hands'
      BY <2>1 DEF Downloading, Candid, Apart, Handles, Hands, Steady, KnownTo, Working, Saving, Top,
         Clean, HandleOf, InHand, Is, First, Copying, Fine, Shown, Depicts, Written, At
    <2>. QED
      BY <2>2 DEF Downloading
  <1>6. ASSUME NEW d \in Downloads, Working(d), DownloadStep(d) PROVE Downloading'
    BY <1>6, CandidStep, ApartStep, HandsStep DEF Downloading
  <1>. QED
    BY <1>2, <1>3, <1>4, <1>5, <1>6 DEF ArtStep, Working

-----------------------------------------------------------------------------
(* Steps of the library on the tracks of I: whoever knew one of them       *)
(* before it was left alone knows it no longer.                            *)
Moves(I) ==
    /\ Renewed \subseteq I /\ I \subseteq Ids
    /\ \A i \in I : At(i, "idle") => i \in Renewed
    /\ \A i \in Ids \ I : /\ row'[i] = row[i] /\ upd'[i] = upd[i] /\ (i \in stored' <=> i \in stored)
                          /\ pic'[Art(i)] = pic[Art(i)]
    /\ \A i \in Ids : pic'[Tmp(i)] = pic[Tmp(i)]
    /\ \A w \in Writers \ I : fd'[w] = fd[w] \/ \E i \in I : fd[w] = Art(i) /\ fd'[w] = Nowhere
    /\ \A i \in I : fd'[i] # Nowhere => fd'[i] = Art(i) /\ At(i, "saving")'

LEMMA MovesTrack ==
    ASSUME TypeOK, Shape, Handles, NEW id \in Ids, CallerStep(id) PROVE Moves({id})
  <1>0. /\ id \in Writers /\ Art(id) \in Places /\ DOMAIN pic = Places /\ DOMAIN fd = Writers
        /\ DOMAIN upd = Ids /\ ShapeOf(id) /\ (~At(id, "saving") => fd[id] = Nowhere)
        /\ fd[id] \in {Nowhere, Art(id)}
    BY Pictures, Domains DEF Shape, Handles
  <1>1. /\ \A i \in Ids \ {id} : row'[i] = row[i] /\ upd'[i] = upd[i] /\ (i \in stored' <=> i \in stored)
        /\ Renewed \subseteq {id} /\ (At(id, "idle") => id \in Renewed)
    BY <1>0, OtherTrack, LeavingIdleRenews DEF Renewed
  <1>2. /\ \A q \in Places \ {Art(id)} : pic'[q] = pic[q]
        /\ \A w \in Writers \ {id} : fd'[w] = fd[w] \/ (fd[w] = Art(id) /\ fd'[w] = Nowhere)
        /\ fd'[id] # Nowhere => fd'[id] = Art(id) /\ At(id, "saving")'
    <2>1. CASE UNCHANGED <<pic, fd>> /\ ~At(id, "saving")
      BY <1>0, <2>1
    <2>2. CASE OpenPicture(id)
      BY <1>0, <2>2 DEF OpenPicture, Open, At
    <2>3. CASE SavePicture(id)
      BY <1>0, <2>3, Paths DEF SavePicture, Finish, Goto, At
    <2>4. CASE RemovePicture(id)
      BY <1>0, <2>4, Paths DEF RemovePicture, Unlink, Goto, At
    <2>5. CASE PictureCut(id)
      BY <1>0, <2>5, Paths DEF PictureCut, Finish, Goto, At
    <2>. QED
      BY <2>1, <2>2, <2>3, <2>4, <2>5 DEF CallerStep, TrackStep, InsertRow, MapTrack, UpdateRow,
         SetFields, RemoveLyrics, DeleteRow, Unmap, Fault, PictureLost, PictureStays, LyricsRemain,
         At
  <1>3. \A i \in Ids : /\ i # id => pic'[Art(i)] = pic[Art(i)]
                       /\ pic'[Tmp(i)] = pic[Tmp(i)]
    BY <1>2, Paths, Pictures
  <1>. QED
    BY <1>1, <1>2, <1>3 DEF Moves

LEMMA MovesNone ==
    ASSUME TypeOK, NEW id \in Ids, Change(id) PROVE Moves({})
  BY DEF Moves, Change, Renewed

(* c is what e is known as after the step. *)
Heir(I, c, e) == /\ e \in Candidates /\ c.id = e.id /\ e.id \in Ids
                 /\ ~c.crossed => c = e /\ e.id \notin I

LEMMA Crossing ==
    ASSUME Downloading, NEW T, ArtStays(T), NEW I, Moves(I), NEW d \in Downloads
    PROVE  /\ (Working(d)' <=> Working(d)) /\ dl'[d].pc = dl[d].pc
           /\ \A c \in Candidates : c.id \notin I /\ Clean(c)' => Clean(c)
           /\ Working(d) =>
                /\ Heir(I, dl'[d].top, dl[d].top)
                /\ \A c \in dl'[d].group : \E e \in dl[d].group : Heir(I, c, e)
                /\ \A c \in dl'[d].left : \E e \in dl[d].left : Heir(I, c, e)
                /\ \A c \in dl'[d].group \ dl'[d].left :
                      \E e \in dl[d].group \ dl[d].left : Heir(I, c, e)
                /\ \A e \in dl[d].left : \E c \in dl'[d].left : Heir(I, c, e)
                /\ dl[d].left = {} => dl'[d].left = {}
                /\ dl[d].left \subseteq dl[d].group => dl'[d].left \subseteq dl'[d].group
                /\ dl[d].group \subseteq dl[d].left \union {dl[d].top} =>
                      dl'[d].group \subseteq dl'[d].left \union {dl'[d].top}
  <1>1. \A c \in Candidates : /\ Crosses(c).id = c.id /\ c.id \in Ids
                              /\ ~Crosses(c).crossed => Crosses(c) = c /\ c.id \notin Renewed
    BY DEF Crosses, Candidates
  <1>2. ASSUME Working(d), NEW c \in KnownTo(d) PROVE Heir(I, Crosses(c), c)
    <2>1. c \in Candidates
      BY <1>2, JobOf DEF Downloading, KnownTo
    <2>2. ~Crosses(c).crossed => Crosses(c) = c /\ c.id \notin Renewed
      BY <1>1, <2>1
    <2>3. ~c.crossed => At(c.id, "idle")
      BY <1>2 DEF Downloading, Candid, Steady
    <2>. QED
      BY <1>1, <2>1, <2>2, <2>3 DEF Moves, Heir
  <1>3. /\ (Working(d)' <=> Working(d)) /\ dl'[d].pc = dl[d].pc
        /\ Working(d) => /\ dl'[d].top = Crosses(dl[d].top)
                         /\ dl'[d].group = {Crosses(c) : c \in dl[d].group}
                         /\ dl'[d].left = {Crosses(c) : c \in dl[d].left}
    BY DEF ArtStays, Working
  <1>4. \A c \in Candidates : c.id \notin I /\ Clean(c)' => Clean(c)
    BY DEF Clean, ArtStays, Moves
  <1>. HIDE DEF Crosses, Heir
  <1>. QED
    BY <1>2, <1>3, <1>4 DEF Top, KnownTo

LEMMA ShownMoves ==
    ASSUME Downloading, NEW I, Moves(I)
    PROVE  \A i \in Ids \ I : Shown(i) => Shown(i)'
  <1>. SUFFICES ASSUME NEW i \in Ids \ I, Shown(i) PROVE Shown(i)'
    OBVIOUS
  <1>1. Depicts(i) => Depicts(i)'
    BY DEF Depicts, Moves
  <1>2. ASSUME NEW w \in Writers, fd[w] = Art(i) PROVE fd'[w] = Art(i)
    <2>1. w \notin I
      BY <1>2, Paths DEF Downloading, Handles, Moves
    <2>. QED
      BY <1>2, <2>1, Paths DEF Moves
  <1>. QED
    BY <1>1, <1>2 DEF Shown, Written

LEMMA CandidMoves ==
    ASSUME Downloading, NEW T, ArtStays(T), NEW I, Moves(I) PROVE Candid' /\ Apart'
  <1>1. \A c, e : Heir(I, c, e) /\ Steady(e) => Steady(c)'
    BY DEF Heir, Steady, Moves, At
  <1>2. ASSUME NEW d \in Downloads, Working(d)', NEW c \in KnownTo(d)' PROVE Steady(c)'
    <2>1. Working(d)
      BY <1>2, Crossing
    <2>2. \E e \in KnownTo(d) : Heir(I, c, e)
      BY <1>2, <2>1, Crossing DEF KnownTo, Top
    <2>. QED
      BY <1>1, <2>1, <2>2 DEF Downloading, Candid
  <1>3. ASSUME NEW c \in pending' PROVE Steady(c)'
    <2>1. PICK e \in pending : c = Crosses(e)
      BY <1>3 DEF ArtStays
    <2>2. e \in Candidates /\ Steady(e)
      BY <2>1 DEF Downloading, TypeOK, ArtworkTypeOK, Candid
    <2>3. c.id = e.id /\ (~c.crossed => c = e /\ e.id \notin Renewed)
      BY <2>1, <2>2 DEF Crosses, Candidates
    <2>4. e.id \in Ids /\ (~e.crossed => At(e.id, "idle"))
      BY <2>2 DEF Candidates, Steady
    <2>5. Heir(I, c, e)
      BY <2>2, <2>3, <2>4 DEF Heir, Moves
    <2>. QED
      BY <1>1, <2>2, <2>5
  <1>4. ASSUME NEW d \in Downloads, NEW e \in Downloads, d # e, Saving(d)', Saving(e)',
               Top(d)'.id = Top(e)'.id, Clean(Top(d))'
        PROVE  FALSE
    <2>1. Working(d) /\ Working(e) /\ Saving(d) /\ Saving(e)
      BY <1>4, Crossing DEF Saving, Working
    <2>2. Heir(I, Top(d)', Top(d)) /\ Heir(I, Top(e)', Top(e))
      BY <2>1, Crossing DEF Top
    <2>3. Top(d)' = Top(d) /\ Top(d).id \notin I /\ Top(d).id = Top(e).id
      BY <1>4, <2>2 DEF Heir, Clean
    <2>4. Clean(Top(d))
      <3>1. PICK t : t = Top(d)
        OBVIOUS
      <3>2. Clean(t)' /\ t \in Candidates /\ t.id \notin I
        BY <1>4, <2>2, <2>3, <3>1 DEF Heir, Clean
      <3>. QED
        BY <3>1, <3>2, Crossing
    <2>. QED
      BY <1>4, <2>1, <2>3, <2>4 DEF Downloading, Apart
  <1>. QED
    BY <1>2, <1>3, <1>4 DEF Candid, Apart

LEMMA HandsMove ==
    ASSUME Downloading, NEW T, ArtStays(T), NEW I, Moves(I), NEW d \in Downloads, Working(d)
    PROVE  InHand(d)'
  <1>0. /\ InHand(d) /\ Handles /\ TypeOK /\ d \in Writers \ I /\ dl'[d].pc = dl[d].pc
        /\ Heir(I, dl'[d].top, dl[d].top) /\ I \subseteq Ids
    BY Crossing, Pictures DEF Downloading, Hands, Moves
  <1>1. \A c, e : Heir(I, c, e) /\ Clean(c)' => c = e /\ Clean(c) /\ c.id \in Ids \ I
    BY Crossing DEF Heir, Clean
  <1>2. \A c, e : Heir(I, c, e) /\ Fine(e) => Fine(c)'
    BY <1>1, ShownMoves DEF Fine
  <1>3. ASSUME Saving(d), Clean(Top(d))'
        PROVE  /\ Top(d)' = Top(d) /\ Clean(Top(d)) /\ pic'[Tmp(Top(d).id)] = pic[Tmp(Top(d).id)]
               /\ fd[d] = Tmp(Top(d).id) => fd'[d] = fd[d]
    <2>1. PICK t, n : t = Top(d) /\ n = dl'[d].top
      OBVIOUS
    <2>2. Heir(I, n, t) /\ Clean(n)'
      BY <1>0, <1>3, <2>1 DEF Top, Clean
    <2>3. n = t /\ Clean(t) /\ t.id \in Ids \ I
      BY <1>1, <2>2
    <2>. QED
      BY <1>0, <2>1, <2>3, Paths DEF Top, Moves
  <1>4. ASSUME Is(d, "copying"), NEW c \in dl'[d].left, First(d, c)', Clean(c)'
        PROVE  Copying(d, c)'
    <2>1. PICK e \in dl[d].left : Heir(I, c, e)
      BY <1>4, Crossing
    <2>2. c = e /\ Clean(c) /\ c.id \in Ids \ I
      BY <1>1, <1>4, <2>1
    <2>3. \A f \in dl[d].left : c.id <= f.id
      BY <1>4, Crossing DEF First, Heir
    <2>4. Copying(d, c)
      BY <1>0, <1>4, <2>1, <2>2, <2>3 DEF InHand, First
    <2>5. CASE fd[d] = Art(c.id) /\ pic[Art(c.id)] = Half
      BY <1>0, <2>2, <2>5, Paths DEF Copying, Moves
    <2>6. CASE fd[d] = Nowhere /\ Shown(c.id)
      <3>1. fd'[d] = Nowhere
        BY <1>0, <2>6, Paths DEF Moves
      <3>. QED
        BY <2>2, <2>6, <3>1, ShownMoves DEF Copying
    <2>. QED
      BY <2>4, <2>5, <2>6 DEF Copying
  <1>5. /\ d # Batch => /\ ~Is(d, "twin")' /\ ~Is(d, "copying")'
                        /\ dl'[d].pc \in Before => dl'[d].left = {}
        /\ dl'[d].left \subseteq dl'[d].group
        /\ dl'[d].pc \in Before => dl'[d].group \subseteq dl'[d].left \union {dl'[d].top}
    BY <1>0, Crossing DEF InHand, Is, Top
  <1>6. dl'[d].pc \in {"twin", "copying"} => \A c \in dl'[d].group \ dl'[d].left : Fine(c)'
    <2>. SUFFICES ASSUME dl'[d].pc \in {"twin", "copying"}, NEW c \in dl'[d].group \ dl'[d].left
                  PROVE  Fine(c)'
      OBVIOUS
    <2>1. PICK e \in dl[d].group \ dl[d].left : Heir(I, c, e)
      BY Crossing
    <2>2. Fine(e)
      BY <1>0 DEF InHand
    <2>. QED
      BY <1>2, <2>1, <2>2
  <1>7. dl'[d].pc \in Flagging => \A c \in dl'[d].group : Fine(c)'
    <2>. SUFFICES ASSUME dl'[d].pc \in Flagging, NEW c \in dl'[d].group PROVE Fine(c)'
      OBVIOUS
    <2>1. PICK e \in dl[d].group : Heir(I, c, e)
      BY Crossing
    <2>2. Fine(e)
      BY <1>0 DEF InHand
    <2>. QED
      BY <1>2, <2>1, <2>2
  <1>8. /\ Is(d, "copy")' /\ Clean(Top(d))' =>
             fd'[d] = Tmp(Top(d)'.id) /\ pic'[Tmp(Top(d)'.id)] = Half
        /\ Is(d, "rename")' /\ Clean(Top(d))' => pic'[Tmp(Top(d)'.id)] = Top(d)'.song
    BY <1>0, <1>3 DEF InHand, Is, Saving
  <1>9. Is(d, "copying")' => \A c \in dl'[d].left : First(d, c)' /\ Clean(c)' => Copying(d, c)'
    BY <1>0, <1>4 DEF Is
  <1>. QED
    BY <1>5, <1>6, <1>7, <1>8, <1>9 DEF InHand, Top

LEMMA HandlesMove ==
    ASSUME Downloading, NEW T, ArtStays(T), NEW I, Moves(I) PROVE Handles'
  <1>0. Handles /\ TypeOK /\ I \subseteq Ids
    BY DEF Downloading, Moves
  <1>1. ASSUME NEW i \in Ids, fd'[i] # Nowhere PROVE fd'[i] = Art(i) /\ At(i, "saving")'
    <2>1. CASE i \in I
      BY <1>1, <2>1 DEF Moves
    <2>2. CASE i \notin I
      <3>1. i \in Writers \ I /\ fd'[i] = fd[i] /\ upd'[i] = upd[i]
        BY <1>0, <1>1, <2>2, Pictures DEF Moves
      <3>. QED
        BY <1>0, <1>1, <3>1 DEF Handles, At
    <2>. QED
      BY <2>1, <2>2
  <1>2. ASSUME NEW d \in Downloads PROVE HandleOf(d)'
    <2>1. d \in Writers \ I /\ HandleOf(d)
      BY <1>0, Pictures DEF Handles
    <2>2. fd'[d] \in {fd[d], Nowhere} /\ dl'[d].pc = dl[d].pc
      BY <2>1, Crossing DEF Moves
    <2>3. Working(d) => /\ dl'[d].top.id = dl[d].top.id
                        /\ \A c \in dl'[d].left : \E e \in dl[d].left : c.id = e.id
                        /\ \A e \in dl[d].left : \E c \in dl'[d].left : c.id = e.id
      BY Crossing DEF Heir
    <2>4. \A c \in dl'[d].left : Working(d) /\ First(d, c)' =>
             \E e \in dl[d].left : c.id = e.id /\ First(d, e)
      BY <2>3 DEF First
    <2>. QED
      BY <2>1, <2>2, <2>3, <2>4 DEF HandleOf, Is, Top, Working
  <1>. QED
    BY <1>1, <1>2 DEF Handles

-----------------------------------------------------------------------------
LEMMA LookupsKeepPictures ==
    ASSUME TypeOK, (ScanEnds /\ UNCHANGED lyricsVars) \/ LyricsStep
    PROVE  /\ SameTracks /\ UNCHANGED <<pic, fd>>
           /\ \A id \in Ids : row'[id].hasArt = row[id].hasArt /\ mem'[id].hasArt = mem[id].hasArt
  <1>1. CASE ScanEnds
    BY <1>1 DEF ScanEnds, SameTracks
  <1>2. ASSUME NEW p \in Plays, NEW id \in Ids, Begin(p, id)
        PROVE  /\ SameTracks /\ UNCHANGED <<pic, fd>>
               /\ \A i \in Ids : row'[i].hasArt = row[i].hasArt /\ mem'[i].hasArt = mem[i].hasArt
    BY <1>2 DEF Begin, SameTracks, trackVars
  <1>3. ASSUME NEW p \in Plays, PlayStep(p)
        PROVE  /\ SameTracks /\ UNCHANGED <<pic, fd>>
               /\ \A i \in Ids : row'[i].hasArt = row[i].hasArt /\ mem'[i].hasArt = mem[i].hasArt
    <2>1. SameTracks /\ Track(p) \in Ids /\ row[Track(p)] \in Rows /\ mem[Track(p)] \in Mems
      BY <1>3, PlayKeepsTracks, Domains
    <2>2. UNCHANGED <<pic, fd>>
      BY <1>3 DEF PlayStep, Probe, SaveDuration, SetDuration, AlreadyTried, Claim, Answered,
         NotAnswered, Mark, OpenTmp, FillTmp, RenameTmp, FlagRow, Flag, Release, trackVars,
         RestOfTracks
    <2>3. \A i \in Ids : i # Track(p) => row'[i] = row[i] /\ mem'[i] = mem[i]
      BY <1>3, PlayKeepsTracks
    <2>4. row'[Track(p)].hasArt = row[Track(p)].hasArt /\ mem'[Track(p)].hasArt = mem[Track(p)].hasArt
      <3>0. DOMAIN row = Ids /\ DOMAIN mem = Ids
        BY Domains
      <3>1. CASE SaveDuration(p) \/ Mark(p) \/ FlagRow(p)
        BY <2>1, <3>0, <3>1 DEF SaveDuration, Mark, FlagRow, UpdateTo, RowOf, Rows
      <3>2. CASE SetDuration(p) \/ Flag(p)
        BY <2>1, <3>0, <3>2 DEF SetDuration, Flag, Mems, RestOfTracks
      <3>3. CASE UNCHANGED <<row, mem>>
        BY <3>3
      <3>. QED
        BY <1>3, <3>1, <3>2, <3>3 DEF PlayStep, Probe, AlreadyTried, Claim, Answered, NotAnswered,
           OpenTmp, FillTmp, RenameTmp, Release, trackVars, RestOfTracks
    <2>. QED
      BY <2>1, <2>2, <2>3, <2>4
  <1>. QED
    BY <1>1, <1>2, <1>3 DEF LyricsStep

LEMMA DownloadingStays ==
    ASSUME Downloading, SameTracks, UNCHANGED <<pic, fd>>, UNCHANGED artVars
    PROVE  Candid' /\ Apart' /\ Handles' /\ Hands'
  <1>0. TypeOK /\ UNCHANGED <<dl, pending, blurred>> /\ SameSongs
    BY DEF Downloading, artVars, SameTracks, SameSongs
  <1>1. \A c : c.id \in Ids /\ Steady(c) => Steady(c)'
    BY <1>0 DEF Steady, SameTracks, SameSongs, At
  <1>2. \A c \in pending : c.id \in Ids
    BY <1>0 DEF TypeOK, ArtworkTypeOK, Candidates
  <1>3. \A d \in Downloads : Working(d) => \A c \in KnownTo(d) : c.id \in Ids
    BY <1>0, JobOf DEF KnownTo, Candidates
  <1>4. Candid'
    BY <1>0, <1>1, <1>2, <1>3 DEF Downloading, Candid, KnownTo, Working, Top
  <1>5. Apart'
    BY <1>0 DEF Downloading, Apart, Saving, Top, Clean
  <1>6. Handles'
    BY <1>0 DEF Downloading, Handles, HandleOf, Is, Top, First, SameTracks, At
  <1>7. \A id \in Ids : Shown(id) => Shown(id)'
    BY <1>0 DEF Shown, Depicts, Written, SameSongs
  <1>8. ASSUME NEW d \in Downloads, Working(d) PROVE InHand(d)'
    <2>1. \A c \in dl[d].group : c.id \in Ids /\ (Fine(c) => Fine(c)')
      BY <1>0, <1>3, <1>7, <1>8 DEF Fine, Clean, KnownTo
    <2>2. \A c \in dl[d].left : Copying(d, c) => Copying(d, c)'
      BY <1>3, <1>7, <1>8 DEF Copying, KnownTo
    <2>. QED
      BY <1>0, <1>8, <2>1, <2>2 DEF Downloading, Hands, InHand, Is, Top, First, Clean
  <1>. QED
    BY <1>0, <1>4, <1>5, <1>6, <1>8 DEF Hands, Working

LEMMA DownloadingInductive ==
    /\ Init /\ TypeOK => Downloading
    /\ Downloading /\ Shape /\ TypeOK' /\ [Next]_vars => Downloading'
  <1>1. ASSUME Init, TypeOK PROVE Downloading
    <2>1. /\ pending = {} /\ \A w \in Writers : fd[w] = Nowhere
          /\ \A d \in Downloads : dl[d] \in {Waiting, Fetching, Idling}
      BY <1>1 DEF Init, TracksInit, ArtworkInit
    <2>2. \A d \in Downloads : ~Working(d) /\ ~Saving(d)
      BY <2>1 DEF Working, Saving, Waiting, Fetching, Idling
    <2>. QED
      BY <1>1, <2>1, <2>2 DEF Downloading, Candid, Apart, Handles, HandleOf, Hands, Writers
  <1>2. ASSUME Downloading, Shape, TypeOK', [Next]_vars PROVE Downloading'
    <2>0. TypeOK
      BY <1>2 DEF Downloading
    <2>1. ASSUME NEW I, Moves(I), NEW T, ArtStays(T) PROVE Downloading'
      <3>1. Candid' /\ Apart' /\ Handles'
        BY <1>2, <2>1, CandidMoves, HandlesMove
      <3>2. Hands'
        BY <1>2, <2>1, Crossing, HandsMove DEF Hands
      <3>. QED
        BY <1>2, <3>1, <3>2 DEF Downloading
    <2>2. CASE LibraryStep
      BY <1>2, <2>0, <2>1, <2>2, LibraryCases, MovesTrack, MovesNone DEF Downloading
    <2>3. CASE (ScanEnds /\ UNCHANGED <<lyricsVars, artVars>>) \/ (LyricsStep /\ UNCHANGED artVars)
      <3>1. SameTracks /\ UNCHANGED <<pic, fd>> /\ UNCHANGED artVars
        BY <2>0, <2>3, LookupsKeepPictures
      <3>. QED
        BY <1>2, <3>1, DownloadingStays DEF Downloading
    <2>4. CASE ArtStep /\ UNCHANGED lyricsVars
      BY <1>2, <2>4, DownloadingArtStep
    <2>5. CASE Restart /\ LyricsRestart /\ ArtRestart
      <3>1. /\ pending' = {} /\ \A w \in Writers : fd'[w] = Nowhere
            /\ \A d \in Downloads : dl'[d] \in {Waiting, Fetching, Idling}
        BY <2>5 DEF Restart, ArtRestart
      <3>2. \A d \in Downloads : ~Working(d)' /\ ~Saving(d)'
        BY <3>1 DEF Working, Saving, Waiting, Fetching, Idling
      <3>. QED
        BY <1>2, <3>1, <3>2 DEF Downloading, Candid, Apart, Handles, HandleOf, Hands, Writers
    <2>6. CASE UNCHANGED vars
      <3>1. SameTracks /\ UNCHANGED <<pic, fd>> /\ UNCHANGED artVars
        BY <2>6 DEF vars, trackVars, SameTracks
      <3>. QED
        BY <1>2, <3>1, DownloadingStays DEF Downloading
    <2>. QED
      BY <1>2, <2>2, <2>3, <2>4, <2>5, <2>6 DEF Next
  <1>. QED
    BY <1>1, <1>2

-----------------------------------------------------------------------------
(* What a track claims of its picture, wherever it stands in upsertFile or *)
(* removeTrack: that it has one only if its picture is there, or is being  *)
(* written; and none is there when it is gone.                             *)
Wanted(id) == row[id].song \in Pictured
SavedRightly(id) ==
    /\ fd[id] = Art(id) /\ pic[Art(id)] = Half
    /\ upd[id].pic \in Versions /\ (file[id] = row[id].song => upd[id].pic = file[id])
ShowsOf(id) ==
    /\ id \in stored =>
         /\ ~At(id, "idle") => row[id].hasArt = Wanted(id)
         /\ upd[id].pc \in {"unlyrics", "unart", "picture", "saving"} => mem[id].hasArt = Wanted(id)
         /\ upd[id].pc \in {"picture", "saving"} => Wanted(id)
         /\ At(id, "unart") => ~Wanted(id)
         /\ At(id, "saving") => SavedRightly(id)
         /\ At(id, "idle") /\ file[id] = row[id].song /\ (row[id].hasArt \/ mem[id].hasArt) => Shown(id)
    /\ id \notin stored /\ upd[id].pc \in {"idle", "unlyrics"} => pic[Art(id)] = None /\ ~Written(id)
Shows == \A id \in Ids \ blurred : ShowsOf(id)

LEMMA ShowsTrackStep ==
    ASSUME Downloading, Shape, Shows, NEW id \in Ids, CallerStep(id),
           NEW S, NEW T, Cost(id, S, T), ArtStays(T)
    PROVE  Shows'
  <1>. SUFFICES ASSUME NEW i \in Ids \ blurred' PROVE ShowsOf(i)'
    BY DEF Shows
  <1>0. /\ TypeOK /\ Handles /\ Moves({id}) /\ ShapeOf(id)
    BY MovesTrack DEF Downloading, Shape
  <1>1. i \notin Renewed => ShowsOf(i)
    BY DEF ArtStays, Shows
  <1>2. CASE i # id
    <2>1. /\ row'[i] = row[i] /\ mem'[i] = mem[i] /\ upd'[i] = upd[i] /\ file' = file
          /\ (i \in stored' <=> i \in stored) /\ pic'[Art(i)] = pic[Art(i)] /\ i \notin Renewed
      BY <1>0, <1>2, OtherTrack DEF Moves
    <2>2. Shown(i) => Shown(i)'
      BY <1>0, <1>2, ShownMoves
    <2>3. fd[i] = Art(i) => fd'[i] = Art(i)
      BY <1>0, <1>2, Paths, Pictures DEF Moves
    <2>4. Written(i)' => Written(i)
      BY <1>0, <1>2, Paths, Pictures DEF Written, Moves
    <2>. QED
      BY <1>1, <2>1, <2>2, <2>3, <2>4 DEF ShowsOf, SavedRightly, Wanted, At
  <1>3. CASE i = id
    <2>0. /\ DOMAIN row = Ids /\ DOMAIN mem = Ids /\ DOMAIN upd = Ids /\ DOMAIN pic = Places
          /\ DOMAIN fd = Writers /\ id \in Writers /\ Art(id) \in Places
          /\ (~At(id, "saving") => fd[id] = Nowhere)
      BY <1>0, Domains, Pictures DEF Handles
    <2>1. CASE InsertRow(id)
      BY <1>3, <2>0, <2>1 DEF InsertRow, ShowsOf, At, Goto, NewRow, Wanted
    <2>2. CASE MapTrack(id)
      <3>1. ShowsOf(id)
        BY <1>1, <1>3, <2>2 DEF MapTrack, Renewed
      <3>. QED
        BY <1>0, <1>3, <2>0, <2>2, <3>1 DEF MapTrack, ShowsOf, ShapeOf, At, Goto, NewTrack, Wanted
    <2>3. CASE UpdateRow(id)
      BY <1>3, <2>0, <2>3 DEF UpdateRow, ShowsOf, At, Goto, NewRow, Wanted
    <2>4. CASE SetFields(id)
      <3>1. ShowsOf(id)
        BY <1>1, <1>3, <2>4 DEF SetFields, Renewed
      <3>. QED
        BY <1>0, <1>3, <2>0, <2>4, <3>1 DEF SetFields, ShowsOf, ShapeOf, At, Goto, NewTrack, Wanted
    <2>5. CASE RemoveLyrics(id)
      <3>1. ShowsOf(id)
        BY <1>1, <1>3, <2>5 DEF RemoveLyrics, Renewed
      <3>2. CASE id \in stored
        BY <1>0, <1>3, <2>0, <2>5, <3>1, <3>2 DEF RemoveLyrics, ShowsOf, At, Goto, Wanted
      <3>3. CASE id \notin stored
        BY <1>0, <1>3, <2>0, <2>5, <3>1, <3>3 DEF RemoveLyrics, ShowsOf, At, Goto, Written
      <3>. QED
        BY <3>2, <3>3
    <2>6. CASE OpenPicture(id)
      <3>1. ShowsOf(id) /\ id \in stored
        BY <1>0, <1>1, <1>3, <2>6 DEF OpenPicture, Renewed, ShapeOf, At
      <3>2. file[id] \in Pictured => file[id] \in Versions
        BY TracksAssumption DEF TracksAssumption
      <3>. QED
        BY <1>3, <2>0, <2>6, <3>1, <3>2
        DEF OpenPicture, Open, ShowsOf, SavedRightly, At, Goto, Wanted
    <2>7. CASE SavePicture(id)
      <3>1. ShowsOf(id) /\ id \in stored
        BY <1>0, <1>1, <1>3, <2>7 DEF SavePicture, Renewed, ShapeOf, At
      <3>2. SavedRightly(id)
        BY <2>7, <3>1 DEF ShowsOf, SavePicture, At
      <3>3. pic'[Art(id)] = upd[id].pic
        BY <2>0, <2>7, <3>2, Paths DEF SavePicture, Finish, SavedRightly
      <3>4. file[id] = row[id].song => Depicts(id)'
        BY <2>7, <3>2, <3>3 DEF SavedRightly, Depicts, SavePicture
      <3>. QED
        BY <1>3, <2>0, <2>7, <3>1, <3>4 DEF SavePicture, Shown, ShowsOf, At, Goto
    <2>8. CASE RemovePicture(id)
      <3>1. ShowsOf(id)
        BY <1>1, <1>3, <2>8 DEF RemovePicture, Renewed
      <3>2. CASE id \in stored
        BY <1>3, <2>0, <2>8, <3>1, <3>2 DEF RemovePicture, ShowsOf, At, Goto, Wanted
      <3>3. CASE id \notin stored
        <4>1. pic'[Art(id)] = None /\ ~Written(id)'
          BY <2>0, <2>8, Paths DEF RemovePicture, Unlink, Written
        <4>. QED
          BY <1>3, <2>8, <3>3, <4>1 DEF RemovePicture, ShowsOf
      <3>. QED
        BY <3>2, <3>3
    <2>9. CASE DeleteRow(id)
      BY <1>3, <2>0, <2>9 DEF DeleteRow, ShowsOf, At, Goto
    <2>10. CASE Unmap(id)
      BY <1>0, <1>3, <2>0, <2>10 DEF Unmap, ShowsOf, ShapeOf, At, Goto
    <2>11. CASE id \in T
      BY <1>3, <2>11 DEF ArtStays
    <2>12. CASE PictureStays(id) /\ id \in stored
      <3>1. ShowsOf(id)
        BY <1>1, <1>3, <2>12 DEF PictureStays, Renewed
      <3>. QED
        BY <1>3, <2>0, <2>12, <3>1 DEF PictureStays, ShowsOf, At, Goto, Wanted
    <2>13. CASE LyricsRemain(id)
      <3>1. ShowsOf(id)
        BY <1>1, <1>3, <2>13 DEF LyricsRemain, Renewed
      <3>2. CASE id \in stored
        BY <1>0, <1>3, <2>0, <2>13, <3>1, <3>2 DEF LyricsRemain, ShowsOf, At, Goto, Wanted
      <3>3. CASE id \notin stored
        BY <1>0, <1>3, <2>0, <2>13, <3>1, <3>3 DEF LyricsRemain, ShowsOf, At, Goto, Written
      <3>. QED
        BY <3>2, <3>3
    <2>. QED
      BY <2>1, <2>2, <2>3, <2>4, <2>5, <2>6, <2>7, <2>8, <2>9, <2>10, <2>11, <2>12, <2>13
      DEF TrackStep, Cost
  <1>. QED
    BY <1>2, <1>3

LEMMA ShowsChange ==
    ASSUME Downloading, Shape, Shows, NEW id \in Ids, Change(id), NEW T, ArtStays(T) PROVE Shows'
  <1>. SUFFICES ASSUME NEW i \in Ids \ blurred' PROVE ShowsOf(i)'
    BY DEF Shows
  <1>1. /\ ShowsOf(i) /\ UNCHANGED <<stored, row, mem, upd, pic, fd>>
    BY DEF Change, Renewed, ArtStays, Shows
  <1>2. i # id => file'[i] = file[i]
    BY Domains DEF Change, Downloading
  <1>3. file'[id] # row[id].song
    <2>1. row[id].song \in Int /\ row[id].song > 0 /\ row[id].song <= clock /\ clock \in Int
      BY Domains DEF Downloading, Shape, ShapeOf
    <2>2. file'[id] \in {0, clock + 1}
      BY Domains DEF Change, Downloading
    <2>. QED
      BY <2>1, <2>2
  <1>4. (Shown(i) <=> Shown(i)') /\ (Written(i) <=> Written(i)')
    BY <1>1 DEF Shown, Depicts, Written
  <1>. QED
    BY <1>1, <1>2, <1>3, <1>4 DEF ShowsOf, SavedRightly, Wanted, At

(* A download keeps off the picture of a track that the library is at      *)
(* work on, or excuses it.                                                 *)
LEMMA KeepsOff ==
    ASSUME Downloading, NEW d \in Downloads, Working(d), DownloadStep(d),
           NEW id \in Ids \ blurred', ~(At(id, "idle") /\ id \in stored)
    PROVE  /\ pic'[Art(id)] = pic[Art(id)]
           /\ \A w \in Writers : fd'[w] = Art(id) <=> fd[w] = Art(id)
  <1>0. /\ TypeOK /\ Handles /\ d \in Writers /\ Art(id) \in Places
        /\ DOMAIN pic = Places /\ DOMAIN fd = Writers
        /\ \A i \in Ids : Art(i) \in Places /\ Tmp(i) \in Places
    BY Pictures DEF Downloading
  <1>1. \A c \in KnownTo(d) : c.id = id => c.crossed
    BY DEF Downloading, Candid, Steady
  <1>2. Top(d) \in KnownTo(d) /\ dl[d].left \subseteq KnownTo(d)
    BY DEF KnownTo
  <1>. DEFINE Left == /\ pic'[Art(id)] = pic[Art(id)]
                      /\ \A w \in Writers : fd'[w] = Art(id) <=> fd[w] = Art(id)
  <1>3. UNCHANGED <<pic, fd>> => Left
    OBVIOUS
  <1>4. ASSUME NEW t \in Ids, t # id, NEW p \in {Art(t), Tmp(t)}, fd[d] = Nowhere, Open(d, p)
        PROVE  Left
    BY <1>0, <1>4, Paths DEF Open
  <1>5. ASSUME NEW t \in Ids, t # id, fd[d] \in {Nowhere, Art(t), Tmp(t)}, NEW v, Finish(d, v)
        PROVE  Left
    BY <1>0, <1>5, Paths DEF Finish
  <1>6. CASE CreateTmp(d)
    <2>1. fd[d] = Nowhere /\ Top(d).id \in Ids
      BY <1>0, <1>6, JobOf DEF CreateTmp, Handles, HandleOf, Is
    <2>2. CASE Open(d, Tmp(Top(d).id))
      BY <1>0, <2>1, <2>2, Paths DEF Open
    <2>. QED
      BY <1>3, <1>6, <2>2 DEF CreateTmp
  <1>7. CASE CopyBody(d)
    <2>1. Top(d).id # id
      BY <1>1, <1>2, <1>7 DEF CopyBody, BlurIf, Blur, Changed
    <2>2. fd[d] \in {Nowhere, Art(Top(d).id), Tmp(Top(d).id)} /\ Top(d).id \in Ids
      BY <1>0, <1>7, OwnFile, JobOf DEF CopyBody, Is
    <2>3. CASE Discard(d, Tmp(Top(d).id))
      BY <1>0, <2>1, <2>2, <2>3, Paths DEF Discard
    <2>4. CASE Finish(d, Half) \/ Finish(d, Top(d).song)
      BY <1>5, <2>1, <2>2, <2>4
    <2>. QED
      BY <1>7, <2>3, <2>4 DEF CopyBody
  <1>8. CASE RenamePicture(d)
    <2>1. CASE Rename(Top(d).id) /\ BlurIf(Changed(Top(d)), Top(d))
      <3>1. PICK t : t = Top(d).id
        OBVIOUS
      <3>2. t # id /\ t \in Ids /\ Rename(t)
        BY <1>0, <1>1, <1>2, <2>1, <3>1, JobOf DEF BlurIf, Blur, Changed
      <3>. QED
        BY <1>0, <3>2, Paths DEF Rename
    <2>. QED
      BY <1>3, <1>8, <2>1 DEF RenamePicture
  <1>9. ASSUME NEW c \in dl[d].left, CopyToTwin(d, c) PROVE Left
    <2>1. c.id # id /\ c.id \in Ids
      BY <1>0, <1>1, <1>2, <1>9, JobOf DEF CopyToTwin, BlurIf, Blur, Changed, Candidates
    <2>2. fd[d] = Nowhere
      BY <1>0, <1>9 DEF CopyToTwin, Handles, HandleOf, Is
    <2>3. CASE Open(d, Art(c.id))
      BY <1>4, <2>1, <2>2, <2>3
    <2>. QED
      BY <1>3, <1>9, <2>3 DEF CopyToTwin
  <1>10. ASSUME NEW c \in dl[d].left, CopyTwin(d, c) PROVE Left
    <2>1. c.id # id /\ c.id \in Ids
      BY <1>0, <1>1, <1>2, <1>10, JobOf DEF CopyTwin, BlurIf, Blur, Changed, Candidates
    <2>2. fd[d] \in {Nowhere, Art(c.id), Tmp(c.id)}
      BY <1>10, CopyFile DEF CopyTwin
    <2>. QED
      BY <1>5, <1>10, <2>1, <2>2 DEF CopyTwin
  <1>11. CASE \/ Throttle(d) \/ Stamp(d) \/ AskITunes(d)
              \/ \E c \in dl[d].left : FlagArtRow(d, c) \/ FlagArt(d, c) \/ MarkArtTried(d, c)
    BY <1>3, <1>11 DEF Throttle, Stamp, AskITunes, FlagArtRow, FlagArt, MarkArtTried, trackVars
  <1>. QED
    BY <1>6, <1>7, <1>8, <1>9, <1>10, <1>11 DEF DownloadStep

(* A picture is flagged only where there is one. *)
LEMMA FlagsWhatIsThere ==
    ASSUME Downloading, NEW d \in Downloads, Working(d), DownloadStep(d),
           NEW id \in Ids \ blurred',
           row'[id].hasArt # row[id].hasArt \/ mem'[id].hasArt # mem[id].hasArt
    PROVE  At(id, "idle") /\ id \in stored /\ Shown(id)
  <1>0. /\ TypeOK /\ DOMAIN row = Ids /\ DOMAIN mem = Ids /\ row[id] \in Rows /\ mem[id] \in Mems
    BY Domains DEF Downloading
  <1>1. PICK c \in dl[d].left : c.id = id /\ (FlagArtRow(d, c) \/ FlagArt(d, c))
    <2>1. CASE UNCHANGED <<row, mem>>
      BY <2>1
    <2>2. ASSUME NEW c \in dl[d].left, FlagArtRow(d, c) PROVE c.id = id
      BY <1>0, <2>2 DEF FlagArtRow
    <2>3. ASSUME NEW c \in dl[d].left, FlagArt(d, c) PROVE c.id = id
      BY <1>0, <2>3 DEF FlagArt
    <2>4. ASSUME NEW c \in dl[d].left, MarkArtTried(d, c) PROVE FALSE
      BY <1>0, <2>4 DEF MarkArtTried, Rows
    <2>. QED
      BY <2>1, <2>2, <2>3, <2>4 DEF DownloadStep, Throttle, Stamp, AskITunes, CreateTmp, CopyBody,
         RenamePicture, CopyToTwin, CopyTwin, trackVars
  <1>2. Clean(c)
    BY <1>1 DEF FlagArtRow, FlagArt, BlurIf, Blur, Changed, Clean
  <1>3. Steady(c)
    BY DEF Downloading, Candid, KnownTo
  <1>4. Fine(c)
    BY <1>1 DEF Downloading, Hands, InHand, FlagArtRow, FlagArt, Is, Flagging
  <1>. QED
    BY <1>1, <1>2, <1>3, <1>4 DEF Clean, Steady, Fine

LEMMA ShowsDownloadStep ==
    ASSUME Downloading, Shows, NEW d \in Downloads, Working(d), DownloadStep(d) PROVE Shows'
  <1>. SUFFICES ASSUME NEW id \in Ids \ blurred' PROVE ShowsOf(id)'
    BY DEF Shows
  <1>0. /\ TypeOK /\ SameTracks /\ Considerate(d) /\ id \in Ids \ blurred /\ id \in Writers
    BY StepSongs, StepProper, Pictures DEF Downloading, Proper
  <1>1. ShowsOf(id) /\ (Shown(id) => Shown(id)')
    BY <1>0 DEF Shows, Considerate
  <1>2. \/ At(id, "idle") /\ id \in stored
        \/ /\ pic'[Art(id)] = pic[Art(id)] /\ (fd[id] = Art(id) => fd'[id] = Art(id))
           /\ Written(id)' <=> Written(id)
    BY <1>0, KeepsOff DEF Written
  <1>3. \/ At(id, "idle") /\ id \in stored /\ Shown(id)
        \/ row'[id].hasArt = row[id].hasArt /\ mem'[id].hasArt = mem[id].hasArt
    BY FlagsWhatIsThere
  <1>. QED
    BY <1>0, <1>1, <1>2, <1>3 DEF ShowsOf, SavedRightly, Wanted, At, SameTracks

(* Nothing of a picture changes, nor what is said of it. *)
LEMMA ShowsStays ==
    ASSUME Shows, SameTracks, UNCHANGED <<pic, fd, blurred>>,
           \A id \in Ids : row'[id].hasArt = row[id].hasArt /\ mem'[id].hasArt = mem[id].hasArt
    PROVE  Shows'
  <1>1. \A id \in Ids : (Shown(id) <=> Shown(id)') /\ (Written(id) <=> Written(id)')
    BY DEF Shown, Depicts, Written, SameTracks
  <1>. QED
    BY <1>1 DEF Shows, ShowsOf, SavedRightly, Wanted, At, SameTracks

(* What was being written when the process died is excused, what was there *)
(* is there.                                                               *)
LEMMA ShowsRestart ==
    ASSUME TypeOK, Shows, Restart, ArtRestart PROVE Shows'
  <1>. SUFFICES ASSUME NEW id \in Ids \ blurred' PROVE ShowsOf(id)'
    BY DEF Shows
  <1>1. ShowsOf(id) /\ At(id, "idle") /\ ~Written(id)
    BY DEF Shows, ArtRestart, Blur, Written
  <1>2. /\ UNCHANGED <<stored, row, file, pic>> /\ upd'[id].pc = "idle"
        /\ mem'[id].hasArt = row[id].hasArt /\ \A w \in Writers : fd'[w] = Nowhere
    BY DEF Restart, Ready
  <1>3. ~Written(id)' /\ (Depicts(id)' <=> Depicts(id))
    BY <1>2, Paths DEF Written, Depicts
  <1>. QED
    BY <1>1, <1>2, <1>3 DEF ShowsOf, Shown, At

LEMMA ShowsInductive ==
    /\ Init => Shows
    /\ Downloading /\ Shape /\ Shows /\ [Next]_vars => Shows'
  <1>1. ASSUME Init PROVE Shows
    <2>1. /\ stored = {} /\ \A id \in Ids : pic[Art(id)] = None
          /\ \A w \in Writers : fd[w] = Nowhere
      BY <1>1, PlaceType DEF Init, TracksInit
    <2>. QED
      BY <2>1, Paths DEF Shows, ShowsOf, Written
  <1>2. ASSUME Downloading, Shape, Shows, [Next]_vars PROVE Shows'
    <2>0. TypeOK
      BY <1>2 DEF Downloading
    <2>1. CASE LibraryStep
      BY <1>2, <2>1, LibraryCases, ShowsTrackStep, ShowsChange
    <2>2. CASE (ScanEnds /\ UNCHANGED <<lyricsVars, artVars>>) \/ (LyricsStep /\ UNCHANGED artVars)
      BY <1>2, <2>0, <2>2, LookupsKeepPictures, ShowsStays DEF artVars
    <2>3. ASSUME NEW d \in Downloads, Working(d), DownloadStep(d) PROVE Shows'
      BY <1>2, <2>3, ShowsDownloadStep
    <2>4. CASE \/ Query \/ NextSong \/ \E d \in Downloads, id \in Ids : StartRefresh(d, id)
               \/ \E song \in recent : ThrottleExpires(song)
      BY <1>2, <2>4, ShowsStays
      DEF Query, NextSong, StartRefresh, ThrottleExpires, trackVars, SameTracks
    <2>5. CASE ArtStep
      BY <2>3, <2>4, <2>5 DEF ArtStep, Working
    <2>6. CASE Restart /\ LyricsRestart /\ ArtRestart
      BY <1>2, <2>0, <2>6, ShowsRestart
    <2>7. CASE UNCHANGED vars
      BY <1>2, <2>7, ShowsStays DEF vars, trackVars, artVars, SameTracks
    <2>. QED
      BY <1>2, <2>1, <2>2, <2>5, <2>6, <2>7 DEF Next
  <1>. QED
    BY <1>1, <1>2

-----------------------------------------------------------------------------
(* No lyrics stay of a track that is gone. *)
NoLyrics(id) == id \notin stored /\ At(id, "idle") => lyr[id] = None
NoLyricsLeft == \A id \in Ids \ mixed : NoLyrics(id)

LEMMA LyricsLeftTrackStep ==
    ASSUME TypeOK, Shape, NoLyricsLeft, NEW id \in Ids, CallerStep(id),
           NEW S, NEW T, Cost(id, S, T), LyricsStay(S)
    PROVE  NoLyricsLeft'
  <1>. SUFFICES ASSUME NEW i \in Ids \ mixed' PROVE NoLyrics(i)'
    BY DEF NoLyricsLeft
  <1>1. CASE i # id
    <2>1. /\ upd'[i] = upd[i] /\ lyr'[i] = lyr[i] /\ (i \in stored' <=> i \in stored)
          /\ i \notin Renewed
      BY <1>1, OtherTrack DEF Renewed
    <2>2. NoLyrics(i)
      BY <2>1 DEF LyricsStay, NoLyricsLeft
    <2>. QED
      BY <2>1, <2>2 DEF NoLyrics, At
  <1>2. CASE i = id
    <2>0. DOMAIN upd = Ids /\ DOMAIN lyr = Ids /\ ShapeOf(id)
      BY Domains DEF Shape
    <2>1. CASE RemoveLyrics(id)
      BY <1>2, <2>0, <2>1 DEF RemoveLyrics, NoLyrics
    <2>2. CASE RemovePicture(id)
      BY <1>2, <2>0, <2>2 DEF RemovePicture, NoLyrics, At, Goto
    <2>3. CASE MapTrack(id) \/ OpenPicture(id) \/ SavePicture(id)
      BY <1>2, <2>0, <2>3 DEF MapTrack, OpenPicture, SavePicture, ShapeOf, NoLyrics, At
    <2>4. CASE InsertRow(id) \/ UpdateRow(id) \/ SetFields(id) \/ DeleteRow(id) \/ Unmap(id)
      BY <1>2, <2>0, <2>4
      DEF InsertRow, UpdateRow, SetFields, DeleteRow, Unmap, NoLyrics, At, Goto
    <2>5. CASE PictureLost(id) \/ PictureCut(id)
      BY <1>2, <2>0, <2>5 DEF PictureLost, PictureCut, ShapeOf, NoLyrics, At
    <2>6. CASE PictureStays(id)
      BY <1>2, <2>0, <2>6 DEF PictureStays, NoLyrics, At, Goto
    <2>7. CASE LyricsRemain(id) /\ S = {id} \ stored
      BY <1>2, <2>7 DEF LyricsRemain, LyricsStay, NoLyrics
    <2>. QED
      BY <2>1, <2>2, <2>3, <2>4, <2>5, <2>6, <2>7 DEF TrackStep, Cost
  <1>. QED
    BY <1>1, <1>2

LEMMA LyricsLeftPlayStep ==
    ASSUME TypeOK, RightPlays, NoLyricsLeft, NEW p \in Plays, PlayStep(p) PROVE NoLyricsLeft'
  <1>. SUFFICES ASSUME NEW id \in Ids \ mixed' PROVE NoLyrics(id)'
    BY DEF NoLyricsLeft
  <1>0. SameTracks /\ ~Doing(p, "idle") /\ mixed \subseteq mixed' /\ DOMAIN lyr = Ids
    BY PlayKeepsTracks, Domains
  <1>1. CASE lyr'[id] = lyr[id]
    BY <1>0, <1>1 DEF NoLyricsLeft, NoLyrics, SameTracks, At
  <1>2. CASE lyr'[id] # lyr[id]
    <2>1. RenameTmp(p) /\ id = Track(p) /\ Mix(p)
      BY <1>0, <1>2 DEF PlayStep, Probe, SaveDuration, SetDuration, AlreadyTried, Claim, Answered,
         NotAnswered, Mark, OpenTmp, FillTmp, RenameTmp, FlagRow, Flag, Release, trackVars
    <2>2. ~Crossed(p)
      BY <2>1 DEF Mix
    <2>3. id \in stored
      BY <1>0, <2>1, <2>2 DEF RightPlays, RightPlay
    <2>. QED
      BY <1>0, <2>3 DEF NoLyrics, SameTracks
  <1>. QED
    BY <1>1, <1>2

LEMMA LyricsLeftInductive ==
    /\ Init => NoLyricsLeft
    /\ TypeOK /\ Shape /\ RightPlays /\ NoLyricsLeft /\ [Next]_vars => NoLyricsLeft'
  <1>1. ASSUME Init PROVE NoLyricsLeft
    BY <1>1 DEF Init, TracksInit, NoLyricsLeft, NoLyrics
  <1>2. ASSUME TypeOK, Shape, RightPlays, NoLyricsLeft, [Next]_vars PROVE NoLyricsLeft'
    <2>1. ASSUME UNCHANGED <<lyr, upd, stored>>, mixed \subseteq mixed' PROVE NoLyricsLeft'
      BY <1>2, <2>1 DEF NoLyricsLeft, NoLyrics, At
    <2>2. ASSUME NEW id \in Ids, Change(id), NEW S, LyricsStay(S) PROVE NoLyricsLeft'
      <3>1. Renewed = {} /\ UNCHANGED <<lyr, upd, stored>>
        BY <2>2 DEF Change, Renewed
      <3>. QED
        BY <2>1, <2>2, <3>1 DEF LyricsStay
    <2>3. CASE LibraryStep
      BY <1>2, <2>2, <2>3, LibraryCases, LyricsLeftTrackStep
    <2>4. CASE ScanEnds /\ UNCHANGED lyricsVars
      BY <2>1, <2>4 DEF ScanEnds, lyricsVars
    <2>5. ASSUME NEW p \in Plays, NEW id \in Ids, Begin(p, id) PROVE NoLyricsLeft'
      BY <2>1, <2>5 DEF Begin, trackVars
    <2>6. ASSUME NEW p \in Plays, PlayStep(p) PROVE NoLyricsLeft'
      BY <1>2, <2>6, LyricsLeftPlayStep
    <2>7. CASE ArtStep /\ UNCHANGED lyricsVars
      BY <1>2, <2>1, <2>7, ArtKeepsFields DEF SameTracks, lyricsVars
    <2>8. CASE Restart /\ LyricsRestart
      <3>1. UNCHANGED <<lyr, stored>>
        BY <2>8 DEF Restart
      <3>2. \A id \in Ids \ mixed' : id \notin mixed /\ (id \in stored \/ At(id, "idle"))
        BY <2>8 DEF LyricsRestart
      <3>. QED
        BY <1>2, <3>1, <3>2 DEF NoLyricsLeft, NoLyrics
    <2>9. CASE UNCHANGED vars
      BY <2>1, <2>9 DEF vars, trackVars, lyricsVars
    <2>. QED
      BY <1>2, <2>3, <2>4, <2>5, <2>6, <2>7, <2>8, <2>9, CacheCases
  <1>. QED
    BY <1>1, <1>2

-----------------------------------------------------------------------------
LEMMA AlwaysDownloading == Spec => [](Downloading /\ Shape /\ Shows)
  <1>1. ClaimInv => TypeOK
    BY DEF ClaimInv
  <1>. QED
    BY <1>1, AlwaysClaimInv, CachedInductive, DownloadingInductive, ShowsInductive, PTL DEF Spec

(* Unless its file was changed behind a download, two downloads met, a     *)
(* copy from its twin failed, or its own picture was not saved because     *)
(* saveArt failed or the process died, the picture handleArt serves of a   *)
(* track is there, whole and of the track's song: with any number of       *)
(* downloads, which share the temporary file of a track and copy pictures  *)
(* from twin to twin, while the library replaces and removes.              *)
THEOREM AlwaysArtIsOfTheSong == Spec => []ArtIsOfTheSong
  <1>1. Downloading /\ Shape /\ Shows => ArtIsOfTheSong
    <2>. SUFFICES ASSUME Downloading, Shape, Shows, NEW id \in known \ blurred, Settled(id),
                         mem[id].hasArt, \A w \in Writers : fd[w] # Art(id)
                  PROVE  pic[Art(id)] \in Versions /\ Song(pic[Art(id)]) = Song(mem[id].song)
      BY DEF ArtIsOfTheSong
    <2>1. id \in Ids /\ ShapeOf(id) /\ ShowsOf(id) /\ At(id, "idle") /\ file[id] = mem[id].song
      BY DEF Downloading, TypeOK, TracksTypeOK, Shape, Shows, Settled
    <2>2. id \in stored /\ mem[id].song = row[id].song
      BY <2>1 DEF ShapeOf, At
    <2>. QED
      BY <2>1, <2>2 DEF ShowsOf, Shown, Depicts, Written
  <1>. QED
    BY <1>1, AlwaysDownloading, PTL

(* "So the cache cannot grow without bound as a library churns": a track   *)
(* that has left leaves neither lyrics nor a picture behind, unless a      *)
(* lookup was under way for it, the process died or os.Remove failed on    *)
(* it.                                                                     *)
THEOREM AlwaysNothingLeftBehind == Spec => []NothingLeftBehind
  <1>1. Shape /\ Shows /\ NoLyricsLeft => NothingLeftBehind
    BY DEF Shape, ShapeOf, Shows, ShowsOf, NoLyricsLeft, NoLyrics, NothingLeftBehind, At
  <1>2. ClaimInv => TypeOK
    BY DEF ClaimInv
  <1>. QED
    BY <1>1, <1>2, AlwaysClaimInv, AlwaysDownloading, CachedInductive, LyricsLeftInductive, PTL
    DEF Spec
=============================================================================
