# StationCast in TLA+

StationCast is an internet radio server: one process picks tracks from a music
directory, decodes and encodes them with ffmpeg, and fans the MP3 stream out to
listeners (`/stream`, with ICY metadata) and to an HLS remuxer. This directory
holds a TLA+ model of what runs concurrently in it and of what it keeps across
restarts, the TLC configurations that check it on small instances, and TLAPS proofs
that hold for every size.

## The system

| part | state | operations | talks to |
|---|---|---|---|
| broadcast hub (`broadcast/hub.go`) | closed flag, subscriber map, client count, one bounded channel per subscriber, current title | Write, Subscribe, SubscribeInternal, unsubscribe, Close, SetMetadata | called by the engine's output goroutine, by the `/stream` handlers, by the HLS manager, by shutdown |
| burst ring (`broadcast/burst.go`) | ring of bytes, position, wrapped | write, snapshot, alignToFrame | under the hub's lock |
| ICY stream (`broadcast/icy.go`, `httpx/stream.go`) | last title, bytes until the next block | ICYStream, WriteICYBlock | reads one channel, writes one connection |
| HLS manager (`broadcast/hls.go`) | an ffmpeg child, its subscriber, a backoff | Run, runOnce, the feeder goroutine | the hub, ffmpeg |
| audio engine (`audio/`) | encoder child, one decoder child per track, the current command | Run, runOnce, the pcm pump, watchStall, Skip | scheduler, hub, ffmpeg |
| scheduler (`playlist/scheduler.go`) | mode, current track, manual queue, shuffle deck, and their copies in the database | Pick, MarkPlaying, Peek, Enqueue, Dequeue, MoveQueueItem, SetMode, Restore | engine, admin handlers, library, database |
| library (`playlist/library.go`) | tracks by id and by path, rows of the database, watches, debounce timers; per track a duration and an embedded picture | InitialScan, Watch, upsertFile, removeTrack, EnsureDuration, saveArt | file system, scheduler, lyrics, art |
| database (`storage/db.go`) | SQLite file with a version log | Open, migrate, settings | everybody |
| lyrics (`playlist/lyrics.go`, `versuri.go`) | `lyrics/<id>.lrc` and its temporary file, a mark and a flag in the row, a flag in memory, the set of lookups in flight | FetchLyrics, lookupLyrics | four providers, library |
| album art (`playlist/art_itunes.go`) | `art/<id>.jpg` and its temporary file, a mark and a flag in the row, a flag in memory, the songs refreshed lately | FetchMissingArt, RefreshArt, downloadTo, copyFile | iTunes, library |
| file manager, sessions, handlers, pages | files; tokens; none; the page's view of the queue and of the lyrics | upload, rename, delete; issue, sweep; requests; drag, refresh | library, scheduler, hub |
| start and shutdown (`cmd/stationcast/main.go`) | the process context | start order, cancel, a bounded wait, Hub.Close | everybody |

What is hard to get right and hard to test here: three kinds of goroutine remove a
subscriber and one of them must close its channel, outside the lock; Pick gives up
its lock in the middle and loops over data that others change; the queue lives in
memory and in the database; a restarted encoder leaves its old pump running; ffmpeg
children may hang, die or finish at any moment; a crash may fall between any two
statements of a migration; lookups that take seconds write into the row, the memory and
the cache of a track whose file has been replaced meanwhile; the two waits of a shutdown
may each be given up; and the ICY player finds metadata only by counting bytes.
The `hazards` of `PROJECT.json` list these places one by one, each with the
properties that guard it or with the reason why none does.

## The modules

Names of definitions are those of the source where possible. A critical section
(lock to unlock) is one action; what the code does after the unlock is another. A
definition whose comment begins with "Mutant" is a deliberately wrong version of the
definition below it, used to show that a property can fail; no specification uses it.

**Hub** models `hub.go`. The n-th Write is chunk n; a channel is the log of all
pieces sent to it (`sent`) and how many were received (`rcvd`), so that "what this
listener was ever sent" can be talked about. `Write` fans out under the lock and
leaves the slow in `todo[Pump]`; `Unsubscribe` is the critical section of
unsubscribe and leaves the channel in `shut[a]`; `CloseChan` is the close outside
the lock. `Close` moves the whole map into `shut`. `WriteFails`, `FeederStops` and
`Drained` are the three ways a subscriber's goroutine leaves. A panic (send on, or
close of, a closed channel) sets `panicked` and stops the process. The burst is
whole chunks here; its bytes are in Burst.

**Broadcast** is the abstract promise of the hub: publish, tune in, hear the next
piece, tune out, sign off. There are no channels, locks or clean-up steps in it.

**HLS** EXTENDS Hub with `HLSManager`: the subscriber of each `runOnce` is one of
Hub's Feeders, so their number bounds the restarts. ffmpeg is external: it ends with
status 0 at the end of its input, or fails at any moment, also then.

**Station** EXTENDS HLS with `main.go`, from the signal to the exit: the server is
drained (`DrainEnds`), the context cancelled (HLS's `Cancel`), the workers awaited
(`WaitEnds`), the hub closed (`CloseHub`), the process ended (`Exit`). Both waits are
bounded, so `DrainEnds` has no guard on the listeners, and `WaitEnds` none on the
workers: `gaveUp` records that it came first. The broadcast goes on meanwhile. The
engine is the worker that writes to the hub; its inside is in Engine. The start is
sequential and is the initial state.

**Burst**, **ICY** and **Listener** follow bytes. A byte is its position in the
stream. Burst is the ring; ICY is `ICYStream` with the player on the other side,
which counts audio bytes down and takes the next byte for a length; Listener joins
the two through the channel of one subscriber, with a join and title changes at any
moment. A title is a sequence of runes of four kinds (one byte, several bytes, a
delimiter, a control code), enough for the sanitizing and the truncation. Frames
have one length and audio data never looks like a frame header; what the code does
with a false header is one more cut inside a frame.

**Scheduler** models `scheduler.go` together with what it shares state with: the
library's map (a track goes through the stages of being inserted and removed), the
queue table and the mode setting, the player of `source.go` that calls Pick and
MarkPlaying, and the admin's requests. Pick is cut where its lock is given up
(`DrainDone`, `TakeSnapshot`, `ShuffleLock`) and inside its loops, because
`lib.Get` and the removal of a track do not need the scheduler's lock. `Restart`
is a crash followed by `loadFromDB`, `NewScheduler` and `Restore`. Of the two statements
of `removeTrack`, whose errors the code ignores, the one on the queue may fail here; the
one on the row fails in Library, not here: its track would be loaded again, without its
entries in the queue, until the scan removes it.
**PlayQueue** is the abstract promise: a sequence and its durable copy.

**Migrate** models `db.go`: the version log, the detection and seeding of databases
older than the log, and the loop, with a crash between any two statements. The
schema is the set of objects the ten migrations create. One crash has a history variable,
`orphaned`, because the code does not survive it (see "The runs").

**Engine** models `audio/`: `Run` and `runOnce`, the goroutine that copies the
encoder's output to the hub, the pump (`copyChunks` over `pcmSource.read`), a
watchdog per decoder, `Skip`. Encoders and decoders are external processes that run,
are wedged (alive and silent, and may recover) or are dead; a decoder may also have closed
its output and live on, which the pump no longer waits for (`ReadEnds`). The pump of a
dead encoder is not waited for by the code, so two pumps overlap. MarkPlaying and SetMetadata are in Scheduler
and ICY; here they only take time (`Announce`, `Silence`). Output that a dead
decoder left in its pipe is not modelled: it only delays `ReadEnds`.

**Library** models `library.go`: the tracks in memory and in the database follow the
files. `upsertFile` and `removeTrack` are cut at every system call, statement and
critical section, and run by the goroutine of the first scan or by up to two callbacks
of fired timers, at the same time when the code allows it. Files are written, removed
and moved at any moment, also in a subdirectory that appears and vanishes. A version
stands for a file's content; the size and time, and the tags, are the version they
were read from. What the code does not promise is collected, path by path, in
`excused`, and forgotten at the next start: a change between the walk and the watch, or
in a directory that has no watch yet; files that come or go with their directory;
events the kernel dropped; a call that failed for the path; a callback that fires while
another one for the same path runs. Leaving out any of these makes `QuietIsFaithful`
fail. `RemovedWasGone` excuses far less: `risked` holds the paths whose row may go though
the file is there. A failing call puts a path there in one way only, a directory that the
scan cannot read (`library.go:132-137`): its files count as not seen, and
`reconcileRemoved` deletes their rows (see "The runs"); the other way is an overlap of two
callbacks. A file that cannot be opened or parsed is recorded without tags under its
present size and time, so it is not read again until it changes (`misread`).
Two assumptions are on the files: a write always changes the size or the second,
and a file does not come back to a path it has left (a file that is away only while its
tags are read is recorded without tags too and, once back, looks unchanged).

**Tracks**, **Lyrics**, **Artwork** and **Caches** are about one track's caches, which
Library leaves out. Tracks has every write of `upsertFile` and `removeTrack` to the row,
the entry in memory and the two cached files as a step of its own, and the file itself,
which is replaced, removed and put back at any moment. A file is its version; tags,
duration, picture and lyrics are the version they are of, so "of the present song" is an
equality. Who has a temporary picture open keeps writing to it when it is renamed or
unlinked (`fd`), and over another picture leaves neither (`Half`). The errors of `saveArt`
and `os.Remove`, which the code ignores, are actions of their own: `PictureLost` (the file
cannot be opened or parsed, its picture is over `maxArtBytes`, or the write does not
begin), `PictureCut` (the write fails half way), `PictureStays` and `LyricsRemain`. Lyrics EXTENDS Tracks
with the goroutine `source.go` starts for a track: `EnsureDuration`, then `FetchLyrics`
with its claim, the questions to the providers in their order (the number of credits
times three, and one search), the mark, the temporary file, the rename, the flags and
the release; ignored errors are steps that may do nothing. Artwork EXTENDS Tracks with
the batch that runs once after the scan and with a refresh per play: one song's tracks
as a group, the throttle, one shared temporary file per track, the copies for the twins.
Caches joins the three with a restart.

The code has no guard against a file that changes behind a lookup, and promises nothing
then. Three history variables keep that apart from what it does promise: `mixed` is the
set of tracks whose row, memory or lyrics were written by a lookup that had read the tags
of another file (`crossed`), or whose removal was cut off by a crash; `blurred` is the same
for pictures, and also holds tracks for which two downloads met in the temporary file,
a copy failed half way, an embedded picture could not be saved, or the process died while
it was saved; of a track that is gone, both also say that `os.Remove` failed on its file.
`answered` is the set whose present file got a definitive answer. A track leaves these
sets with its next file. What they excuse is thus one track until its file changes, and
the properties say that nothing else of what the modules model goes wrong.

**Filters** has one operator, `Keep`, which drops entries of a list as a loop or a
`DELETE ... WHERE` does; Scheduler, PlayQueue and ICY use it.

**MC*** modules instantiate these for TLC; **StationProofs** (the hub, the HLS
supervisor and the whole process), **ListenerProofs**, **SchedulerProofs** with
**FiltersProofs**, **EngineProofs**, **MigrateProofs**, **LibraryProofs** and
**CachesProofs** hold the proofs.

## The runs

| run | question | instance |
|---|---|---|
| `station` | is the fan-out panic-free, counted, gap-free, at the live edge, fed once and in order in every interleaving, shutdown included; is it a broadcast? | 2 requests for 1 slot, 2 lives of ffmpeg (2 of the 4 at most), channels and burst of 2, 4 chunks |
| `station_shutdown` | does every shutdown end, and is everybody released? | 1 listener that may stay, 1 life of ffmpeg, 2 workers that may be stuck, channels of 1, 2 chunks |
| `hls_kept` | is the HLS feeder always subscribed? No | 2 lives, 4 chunks |
| `listener` | does a listener hear every byte once and see the right title? | rings of 0, 2, 4, 6 bytes; writes of 1..7; interval 4; frames of 3; 13 bytes |
| `queue` | is the queue durable, the preview true, the mode kept? | 2 tracks, 1 player, 1 admin, queue of 2, 1 failing write, restarts |
| `deck` | does a shared deck play every track once per cycle, does Pick return? | 2 tracks, 2 players, restarts |
| `migrate` | is every old database migrated, and does no crash (but one, below) leave a start that opens an incomplete one? | every origin, 2 crashes |
| `migrate_crash` | is a crash while a legacy database is seeded survived? No | legacy, 1 crash |
| `engine` | one writer, honest skips, no frozen pump, a shutdown that ends? | 2 encoders, 2 decoders, 1 skip request |
| `library` | do memory and table follow the files, and does a row go only if its file was gone (or stood in an unreadable directory, or two callbacks met at it)? | 2 paths, one in a subdirectory, 2 callbacks, 3 changes, 1 failing call, 1 restart |
| `engine_leak` | is every decoder reaped? No | 1 encoder, 1 decoder |
| `caches` | are the lyrics, the duration and the picture of a track those of its file, whole, retried when a lookup failed, and gone with the track? | 2 tracks of one song, 3 versions, 2 plays, 2 credits, the batch and 1 refresh, 1 crash |

Why these sizes. The hub's hazards need a slow and a fast subscriber, a listener and a
feeder, a refused listener, a closer besides them and more chunks than a channel and a
burst hold; with channels of two slots and four chunks a burst, a full channel, a drop
and a catch-up all happen. `Sparing` in MCStation admits any two of the two listeners
and the two lives of ffmpeg; more than two subscribers at a time is left to the proofs,
which hold for any number. Liveness has a run of its own, on the smallest instance that
still has a listener who never hangs up, a worker who never returns and a feeder.
The ring sizes straddle the write lengths: shorter,
equal, longer, ending exactly at the end, running over it; titles are shorter and
longer than a block. Two tracks make a deck that is exhausted, rebuilt and changed
under the player; a third adds no new relation between a card, the map and the
snapshot. Two encoders are one restart, which is where pumps overlap.
Three changes to a library that may hold a file at the start are enough to replace,
remove and re-create one file, or to move one over another, with callbacks for the
earlier changes still running, and to do so before and after a restart; the callbacks
are interchangeable, so the run uses their symmetry. In `caches`, three versions are
two files and one change: a file that is replaced or removed at any step of a lookup, of
the library or of a restart. Two credits make every provider one that is
asked again. Lyrics and pictures have fields and files of their own, so `Chosen` switches
on one of the two, and takes the second track only for pictures, where a twin matters;
`Sparing` allows one play at a time, and keeps the throttle, after the last restart,
when what a restart left behind is the question; it leaves out the failing calls
whose only effect is on the kind that is switched off. Versions 1 and 3 have a picture
embedded: in the run a picture takes the place of one that was embedded or downloaded,
and of none. A file without a picture in the place of one with it, and a second change of
a file, need a fourth version and are left to the proofs.
The bounds in the guards are `MaxWrites`, `MaxBytes`, `MaxQueue`, `MaxFaults`, `MaxCrashes`,
`MaxGens`, `MaxDecoders`, `MaxChanges`, `MaxIds`, `MaxVersions` and `MaxSubs`;
the number of Feeders bounds the lives of ffmpeg, that of Plays and Downloads how many
lookups overlap.
`CHECK_DEADLOCK FALSE` stands where a bound or a shutdown ends the behaviour.

Fairness. Station: a goroutine with clean-up to do eventually does it (neither step can
block), a handler whose channel is closed and empty leaves its range loop, ffmpeg ends
when its input has ended, the supervisor runs, and main goes on because its waits time
out. Nothing is assumed of the encoder, of another worker, of listeners' speed or of
ffmpeg otherwise. Scheduler: a goroutine inside Pick keeps running; fairness is strong
because others may take the mutex again and again, and Go's mutex hands it to a waiter
that has starved. Migrate: `Open` runs to its end unless the process dies. Engine: each
goroutine runs, kills arrive, and time passes when everybody waits (strongly, since a
decoder may stall and recover), all of it until `Run` has returned: `main` exits then, and
nobody is owed another step. ffmpeg may be wedged for ever, and no track need end.

The three violations are documented under `findings`: the HLS supervisor returns for
good when the hub has dropped it as slow; a crash during the seeding of a legacy
database (or between an ALTER TABLE and its record) makes every later start fail;
a pump that ends in mid-track never reaps its decoder. More are known and have no
run. A first start that dies between migration 1 and its record leaves what looks like
a legacy database, and migrations 2 to 7 are recorded without having run; this crash alone
is excused (`orphaned`) by `OpenedIsComplete` and `LoggedHasRun`, which hold over all others,
those after which a database does not open again included. `Dequeue` takes a position and
no id: the page leaves out entries whose track is gone, the stored queue does not, so a removal can
hit another entry than the one shown; a move names the entry it expects and cannot.
A file that is replaced by one whose embedded picture cannot be saved (over 10 MB, or a
failed read or write) is marked as having a picture before `saveArt` runs, and its error is
ignored (`library.go:265, 424-427`): the track goes on showing the former song's picture,
or half of a new one, until its file changes or a refresh finds another. `blurred` excuses
such a track.
A music directory, or a part of it, that cannot be read when the program starts (a share
that is not mounted yet, a permission) costs its tracks their rows: the walk logs the error
and goes on, `reconcileRemoved` removes what was not seen (`library.go:132-137, 156`), and
when the files are back they get new ids, with the queue entries, lyrics and pictures of
the old ones gone.
And `main.go:61-64` says that the Run loops kill their children on the way out, because a
return from `main` before that orphans them: `Engine.Run` does so with the encoder, which
it reaps, and with the goroutine that writes to the hub (`ShutdownEnds`), but it waits
neither for the pump nor for a decoder. The last decoder is killed by the goroutine of
its `CommandContext`, which nothing waits for, so `main` may exit first and leave a
wedged decoder behind; the model has such states (`run = "returned"` with a decoder
alive).

## The proofs

`StationProofs` starts with the hub. It proves, for any finite set of clients, feeders and closers, any channel
capacity, cap, burst and number of chunks, every invariant of the `station` run that
speaks of the hub. The only assumption is `HubAssumption` (the actors are distinct,
sizes are naturals).

- `TypeOK` is inductive by itself.
- `NoPanic` and `NobodyStranded` (a closed hub is empty, and a channel that is open
  outside the map is held by exactly one closer) are not. The strengthening `Handover`
  says where the right to close a channel is: in the map (then the channel is open),
  or on exactly one goroutine's `shut` list (`OpenIsHeld`, `ShutApart`, `ShutOpen`);
  a channel exists once its subscriber was admitted (`Unborn`); a goroutine that calls
  Close never unsubscribes (`CloserIdle`). Without `ShutApart` two goroutines could
  close one channel; without `SubsOpen` a Write could send on a closed one.
- `GapFree`, `StartsAtEdge` and `LiveEdge` are proved together as `Stream`: the log of
  a subscriber in the map ends at `pos`, so the next chunk continues it; a log is
  empty until its channel exists (`Fresh`).
- `ClientsExact` needs `TypeOK` and `Handover` (a subscriber that joins is not yet in
  the map) and the library's facts on cardinalities.
- `HubIsBroadcast`, that the hub implements Broadcast (`ImplementsBroadcast`): each step
  is one of Broadcast or a stutter, and the step that receives a piece is the one at
  which it is heard. It rests on `Promised`, the invariants above with `Within` (a piece
  is made of chunks that were written): the next piece of a log continues what was
  heard by `GapFree`, and the first begins near the live edge by `StartsAtEdge`.

For the supervisor it proves, from `HLSAssumption` (None is not a subscriber) too and
for any number of restarts of ffmpeg, that the supervisor's steps are steps of the hub
(`HLSOnHub`), so that all of the above holds with it, and two invariants of its own.
`OneFeeder` needs that the feeder at hand has left before the next one joins
(`OnlyFeeder`) and that a subscriber whose goroutine has left is in the map only
while its unsubscribe is still to come (`LeftIsOut`). `NeverFedTwice` needs that the
n-th piece of a feeder's log is the n-th chunk after it joined (`FeederLog`) and that
what was fed lies behind what this life of ffmpeg takes next (`Fed`).

For the process it proves, from `StationAssumption` (main alone closes the hub, the pump is
a worker), that a run of the process, start to exit, is a behaviour of HLS
(`StationOnHLS`), and with it of the hub: all of the above holds through a shutdown
(`StationKeepsBroadcast`, `StationIsBroadcast`). `ClosedInOrder` follows from `InOrder`:
what `WaitEnds` found finished stays finished. It needs that nobody but the pump writes
once the pump has returned, and that a supervisor that has returned and unsubscribed has
no clean-up of its feeder left, `CleanupStays`.

`ListenerProofs` proves all that the `listener` run checks, from `BurstAssumption` and
`ICYAssumption` (sizes are naturals, a frame has at least the two bytes of its header, the
framing of a block is not empty and fits one): for every size of the ring, of the frames,
of the writes, of the block interval, and for every title. The invariant has three parts.

- `Ring`: before the ring is full it holds the stream so far; then byte i of the buffer
  is the one written at i in this turn or, from `pos` on, in the turn before. Writes that
  end before, at and behind the end of the ring keep it (`RingWrite`), the snapshot is
  thus the newest part of the stream (`SnapshotIsNewest`), and of any stretch longer than
  a frame alignToFrame cuts less than one (`Aligned`): `BurstIsLatest`.
- `Frames`: ICYStream and the player count the same bytes down to the next block. The
  length byte says the length of the block and is not zero (`LengthByte`), because the
  title is cut to what its framing leaves and the framing is not empty; so a changed
  title always arrives, and the player shows what is in force at the block. That a title
  that was sanitized and then cut is a cut of the title, sanitized, is the fact
  `KeepPrefix` on `Keep`: `ShowsTitleAtSlot`.
- `Chain`: what was heard, what is left of the chunk and the chunks in the channel are
  parts of the stream that join end to end, up to the last byte produced: `HearsStream`.

`SchedulerProofs` proves, for any library, any number of players that overlap and of
requests, removals and restarts, that a deck deals each track once (`OncePerCycle`) and
that Pick gives up only when nothing it listed is left (`NilOnlyIfGone`), from
`SchedulerAssumption` (paths are a finite list of ids). `Dealing` says that the deck is
touched by the holder of the mutex only (`Locked`), that it is a permutation of tracks
that have been in the map (`DeckOK`: a track that left does not come back under its id,
so a card that was skipped stays skipped), that the cards behind the position were
drawn or are gone (`DealtOK`), and that a player in its second pass deals its own
listing (`PassOK`). Without `Locked` another player could rebuild the deck under the
second pass, and its end would say nothing about what was listed.

The queue: `QueueDurable` is proved with the types of the queues (`Queued`), and each
step does to the queue and its saved copy what PlayQueue allows (`Follows`), which gives
the refinement `QueueIsPlayQueue`. Both compare lists whose entries without a row are
dropped, before and after one is enqueued, removed, moved, popped or loses its row:
these are the facts on `Keep` in `FiltersProofs`. `Keep` is a recursive function, and the
library's induction theorems take the formula to prove as an operator, which the provers
cannot instantiate. The induction is over a set instead: a set of naturals with 0 and,
with a number, its successor is `Nat` (`Counting`, from the well-foundedness of `<`), and
likewise for lists (`Growing`).
`StateDurable` adds the mode (`ModeOK`), for one request at a time, as its comment says:
the theorem assumes at most one admin. `PeekIsNext` follows from `Promises`: what Peek
answered is, step by step, what Pick has still to find. It needs that there is only one
listing, `OneListing`: the paths are totally ordered, which is why `SchedulerAssumption`
says that no path occurs twice.

`EngineProofs` proves, for any number of encoders, decoders and requests to skip:

- `TypeOK`, with `Watched`: a watchdog is retired before its decoder is dropped.
- `OneWriter` from `Writer`: who copies to the hub is the current encoder's goroutine,
  and while it does `runOnce` has not returned.
- `SkipHitsAsked` from `Past`: nobody holds a decoder younger than the last one
  started, and a request none younger than the last when it was made; decoders are
  numbered in the order they start.

`MigrateProofs` proves `LoggedHasRun` for any number of crashes at any point, from
`LogIsBehind`: a database that is being seeded, or would be taken for a legacy one, has run
the seven seeded migrations, except between the first Exec of a fresh one and its Record.
A crash just there sets `orphaned`, and nothing is claimed after it. `OpenedIsComplete`
needs more, `SchemaIsLogged`: the schema is always the one the migrations 1..k leave and the
log holds 1..m (`Agrees`), where k and m differ only while a migration waits to be recorded,
while a legacy database is seeded, or when a crash cut either off. So a migration that runs
again, the last one of the schema or one of the seven on a legacy schema, finds what was
left (`MigratedAgain`): a CREATE, or the DROP of an index, is harmless, the others add a
column that is there, and `Open` fails, for good, instead of succeeding with half a schema.

`LibraryProofs` proves, for any number of files, versions, callbacks that overlap,
failing calls and restarts, all that the `library` run checks, from one inductive
invariant, `Follow`, in four layers, each proved with the help of those above:

- `Sorted`: the types; an id is of one path for ever (`OnePath`), so what a goroutine
  writes concerns no other path; who may run in which phase (`Phases`); what a goroutine
  carries (`JobOK`).
- `Guarded`: of two goroutines at one path the path is in `risked` (`Alone`), and a path
  whose row is in danger has been without a file or is in `risked` (`Condemned`): what a
  callback or `reconcileRemoved` is about to delete, and what the scan has passed by and
  holds in memory. `RemovedWasGone` follows.
- `Honesty`: what memory, table or a goroutine says of a file is of a version that was
  there, with that version's tags (or none, if it could not be read) if it still is: a
  version that left does not come back.
- `Following`: a goroutine at a path finds memory and table as its step expects them
  (`Fits`), and a path nobody is at agrees with its file or has an event pending
  (`Rests`). `QuietIsFaithful` is what is left of it when nothing is pending.

`CachesProofs` proves, for any number of tracks, versions, plays,
downloads, credits and crashes, from the assumptions on the constants of Tracks, Lyrics
and Artwork:

- `TypeOK`, module by module.
- `ClaimIsHeld` and `LyricsWhole` together (`ClaimInv`): lookups of a track exclude each
  other (`OneLookup`), so a temporary file about to be renamed was written to its end
  (`FilledIsWhole`).
- `WrittenOffRightly` (`OffInv`): a lookup remembers that a provider failed until it
  decides (`FailureIsKept`), and a mark in the row is reset with the file
  (`TriedIsAnswered`).
- `CachedIsOfTheFile`: `Shape` relates the row, the memory and the next step of the
  library; `Right` says of a track outside `mixed` what each of them may hold at that
  step; `RightPlays` says that a lookup that was not crossed has the tags of the row.
- `ArtIsOfTheSong` from `Shape`, `Downloading` and `Shows`. `Downloading` is about the
  goroutines: one that was not crossed knows the song of the row of a track nobody is
  changing (`Steady`), has the temporary file to itself unless the track is blurred
  (`Apart`), and so has in hand what is of the song, step by step (`InHand`), also when
  two of them have one file open (`Handles`). `Shows` says for each step of `upsertFile`
  and `removeTrack` what a row may claim: that there is a picture only if it is there or
  is being written. A download keeps off the picture of a track the library is at work
  on, or blurs it (`KeepsOff`); a step of the library crosses whoever knew the track
  (`Crossing`).
- `NothingLeftBehind` from `Shows` and, for the lyrics, `NoLyricsLeft`.

## Only model-checked, and not modelled

Liveness (`SignalExits`, `ReleasedOrOver`, `PickReturns`, `StallEnds`, `ShutdownEnds`,
`EventuallyOpen`) is out of the prover's reach and stays with TLC. Every safety property
that a passing run checks is a theorem; `StateDurable` assumes a single admin, as said
above.

Not modelled:

- the file manager keeps no state; its uploads, renames and deletions reach the rest
  as changes of files, which Library and Tracks have at any moment;
- sessions are one map under one lock, configuration is read once, rendering and routing
  have no state;
- the pages' JavaScript is one thread over a copy of what the server answers;
- the play history of the scheduler is appended to and shown, and nothing is decided by it;
- symbolic links and paths outside the music directory in the library; the parsing of
  what a provider answers; log lines, headers and ffmpeg's filters.
