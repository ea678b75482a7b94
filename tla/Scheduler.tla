----------------------------- MODULE Scheduler -----------------------------
(***************************************************************************)
(* internal/playlist/scheduler.go with what it shares state with: the      *)
(* library's map and the removal of a track (library.go), the queue table  *)
(* and the mode setting of the database, the player that asks for the next *)
(* track (audio/source.go) and the admin's requests (httpx/admin.go).      *)
(*                                                                         *)
(* s.mu is the variable mu: held by a player over several steps (Pick      *)
(* drains the queue and the deck under it), by everyone else for one step. *)
(* The library's own lock is never held across a step.  Steps between two  *)
(* critical sections, or between memory and database, are steps of their   *)
(* own.  A track id is never reused (AUTOINCREMENT).                       *)
(***************************************************************************)
EXTENDS Integers, Sequences, FiniteSets, SequencesExt, Filters

CONSTANTS
    PathOrder,  \* all track ids, each once, in the order of their paths
    Players,    \* goroutines that call Pick: the pcm pump, and a former one
                \* an encoder restart has not stopped yet
    Admins,     \* concurrent admin requests
    AskedModes, \* the modes the admins ask for
    Empty,      \* value of the mode setting when it has never been saved
    MaxQueue,   \* bound: entries in the manual queue
    MaxFaults   \* bound: database writes that fail

Ids   == Range(PathOrder)
Modes == {"shuffle", "sequential", "loop"}
None  == 0

ASSUME SchedulerAssumption ==
    /\ PathOrder \in Seq(Nat \ {None}) /\ "free" \notin Players
    /\ \A i, j \in DOMAIN PathOrder : PathOrder[i] = PathOrder[j] => i = j
    /\ AskedModes \subseteq Modes
    /\ Empty \notin Modes
    /\ MaxQueue \in Nat /\ MaxFaults \in Nat

VARIABLES
    track,    \* [Ids -> stage]: where a track is between database and map
    mu,       \* "free" or the player that holds s.mu
    mode, current, manual, deck, deckPos,  \* the fields of Scheduler
    dbMode, dbQueue,                       \* what the database holds
    pl,       \* [Players -> local state of read() and of the Pick it calls]
    adm,      \* [Admins -> local state of the handler]
    faults,   \* database writes that failed so far
    dirty,    \* history: Pick's last save of the queue failed
    drawn,    \* history: tracks drawn from the current deck
    promise   \* history: what Peek answered when Pick began, None if
              \* anybody else has taken a step since

db    == <<dbMode, dbQueue, faults, dirty>>
sched == <<mode, current, manual, deck, deckPos, drawn>>
vars  == <<track, mu, sched, db, pl, adm, promise>>

(* absent, row inserted, in the map too; a removal deletes the row, then   *)
(* the queue entries, then the map entry.                                  *)
Stages == {"absent", "row", "live", "rowGone", "queueGone", "gone"}

InLib(id)  == track[id] \in {"live", "rowGone", "queueGone"}
HasRow(id) == track[id] \in {"row", "live"}

(* Tracks of the map in the order of their paths. *)
Before(a, b) == \E i, j \in DOMAIN PathOrder : i < j /\ PathOrder[i] = a /\ PathOrder[j] = b
Listings ==
    {tracks \in SetToSeqs({id \in Ids : InLib(id)}) :
        \A i, j \in DOMAIN tracks : i < j => Before(tracks[i], tracks[j])}
Snapshot == CHOOSE tracks \in Listings : TRUE

IdlePlayer == [pc |-> "idle", id |-> None, mode |-> Empty, cur |-> None,
               snap |-> <<>>, pass |-> 0]
IdleAdmin  == [pc |-> "idle", id |-> None, mode |-> Empty]

-----------------------------------------------------------------------------
Init ==
    /\ track \in [Ids -> {"absent", "live"}]
    /\ mu = "free"
    /\ mode = "shuffle" /\ current = None /\ manual = <<>>
    /\ deck = <<>> /\ deckPos = 0
    /\ dbMode = Empty /\ dbQueue = <<>>
    /\ pl = [p \in Players |-> IdlePlayer]
    /\ adm = [a \in Admins |-> IdleAdmin]
    /\ faults = 0 /\ dirty = FALSE /\ drawn = {}
    /\ promise = [p \in Players |-> None]

(* persistQueueLocked: one transaction, all or nothing. *)
Saved(q) == dbQueue' = q /\ dirty' = FALSE /\ UNCHANGED <<dbMode, faults>>
Fails    == faults < MaxFaults /\ faults' = faults + 1

-----------------------------------------------------------------------------
(* Pick. *)

Goto(p, to) == pl' = [pl EXCEPT ![p].pc = to]
Return(p, id) == pl' = [pl EXCEPT ![p] = [IdlePlayer EXCEPT !.pc = "picked", !.id = id]]
ReturnGone(p) == pl' = [pl EXCEPT ![p].pc = "picked", ![p].id = None]

(* Peek, of the state as it is. *)
SuccessorIn(tracks, id) ==
    LET after == {i \in 1 .. Len(tracks) - 1 : tracks[i] = id}
    IN  IF after = {} THEN tracks[1] ELSE tracks[(CHOOSE i \in after : TRUE) + 1]

AutoPick(m, cur, tracks) ==
    CASE m = "loop"       -> IF cur # None /\ InLib(cur) THEN cur ELSE tracks[1]
      [] m = "sequential" -> SuccessorIn(tracks, cur)

(* Mutant: the head of the queue is shown without looking it up. *)
Peek_NoLookup ==
    IF manual # <<>> THEN Head(manual)
    ELSE IF Snapshot = <<>> THEN None
    ELSE IF mode = "shuffle"
      THEN IF deckPos < Len(deck) /\ InLib(deck[deckPos + 1]) THEN deck[deckPos + 1] ELSE None
      ELSE AutoPick(mode, current, Snapshot)

Peek ==
    IF manual # <<>> THEN IF InLib(Head(manual)) THEN Head(manual) ELSE None
    ELSE IF Snapshot = <<>> THEN None
    ELSE IF mode = "shuffle"
      THEN IF deckPos < Len(deck) /\ InLib(deck[deckPos + 1]) THEN deck[deckPos + 1] ELSE None
      ELSE AutoPick(mode, current, Snapshot)

PickStart(p) ==
    /\ pl[p].pc = "idle" /\ mu = "free"
    /\ mu' = p
    /\ Goto(p, "drain")
    /\ promise' = [q \in Players |-> IF q = p THEN Peek ELSE None]
    /\ UNCHANGED <<track, sched, db, adm>>

(* The head is popped and the rest saved; an error of the save is ignored. *)
DrainPop(p) ==
    /\ pl[p].pc = "drain" /\ manual # <<>>
    /\ pl' = [pl EXCEPT ![p].pc = "popped", ![p].id = Head(manual)]
    /\ manual' = Tail(manual)
    /\ \/ Saved(Tail(manual))
       \/ Fails /\ dirty' = TRUE /\ UNCHANGED <<dbMode, dbQueue>>
    /\ UNCHANGED <<track, mu, mode, current, deck, deckPos, drawn, adm>>

DrainGet(p) ==
    /\ pl[p].pc = "popped"
    /\ IF InLib(pl[p].id)
         THEN Return(p, pl[p].id) /\ mu' = "free"
         ELSE Goto(p, "drain") /\ UNCHANGED mu
    /\ UNCHANGED <<track, sched, db, adm>>

DrainDone(p) ==
    /\ pl[p].pc = "drain" /\ manual = <<>>
    /\ pl' = [pl EXCEPT ![p].pc = "snapshot", ![p].mode = mode, ![p].cur = current]
    /\ mu' = "free"
    /\ UNCHANGED <<track, sched, db, adm>>

TakeSnapshot(p) ==
    /\ pl[p].pc = "snapshot"
    /\ \E tracks \in Listings :
         IF tracks = <<>>
         THEN Return(p, None)
         ELSE pl' = [pl EXCEPT ![p].snap = tracks,
                               ![p].pc = IF pl[p].mode = "shuffle" THEN "lock" ELSE "auto"]
    /\ UNCHANGED <<track, mu, sched, db, adm>>

PickAuto(p) ==
    /\ pl[p].pc = "auto"
    /\ Return(p, AutoPick(pl[p].mode, pl[p].cur, pl[p].snap))
    /\ UNCHANGED <<track, mu, sched, db, adm>>

(* rebuildDeckLocked: some permutation of the snapshot, which is never     *)
(* empty here.                                                             *)
Rebuild(tracks) ==
    /\ \E perm \in SetToSeqs(Range(tracks)) : deck' = perm
    /\ deckPos' = 0
    /\ drawn' = {}

(* Mutant: every draw starts from a new deck. *)
ShuffleLock_NewDeck(p) ==
    /\ pl[p].pc = "lock" /\ mu = "free"
    /\ mu' = p
    /\ Goto(p, "draw")
    /\ Rebuild(pl[p].snap)
    /\ UNCHANGED <<track, mode, current, manual, db, adm>>

(* pickShuffle up to its loop. *)
ShuffleLock(p) ==
    /\ pl[p].pc = "lock" /\ mu = "free"
    /\ mu' = p
    /\ Goto(p, "draw")
    /\ IF deckPos >= Len(deck) THEN Rebuild(pl[p].snap) ELSE UNCHANGED <<deck, deckPos, drawn>>
    /\ UNCHANGED <<track, mode, current, manual, db, adm>>

(* One turn of the inner loop; the library may change between two turns.   *)
DrawCard(p) ==
    /\ pl[p].pc = "draw" /\ pl[p].pass < 2 /\ deckPos < Len(deck)
    /\ deckPos' = deckPos + 1
    /\ IF InLib(deck[deckPos + 1])
         THEN /\ Return(p, deck[deckPos + 1])
              /\ mu' = "free"
              /\ drawn' = drawn \union {deck[deckPos + 1]}
         ELSE UNCHANGED <<pl, mu, drawn>>
    /\ UNCHANGED <<track, mode, current, manual, deck, db, adm>>

(* Mutant: the passes are not counted. *)
DeckExhausted_NoCount(p) ==
    /\ pl[p].pc = "draw" /\ pl[p].pass < 2 /\ deckPos >= Len(deck)
    /\ Rebuild(pl[p].snap)
    /\ UNCHANGED <<track, mu, mode, current, manual, pl, db, adm>>

DeckExhausted(p) ==
    /\ pl[p].pc = "draw" /\ pl[p].pass < 2 /\ deckPos >= Len(deck)
    /\ Rebuild(pl[p].snap)
    /\ pl' = [pl EXCEPT ![p].pass = @ + 1]
    /\ UNCHANGED <<track, mu, mode, current, manual, db, adm>>

(* Mutant: one pass only, the rebuilt deck is not drained. *)
ShuffleGivesUp_OnePass(p) ==
    /\ pl[p].pc = "draw" /\ pl[p].pass = 1
    /\ ReturnGone(p)
    /\ mu' = "free"
    /\ UNCHANGED <<track, sched, db, adm>>

ShuffleGivesUp(p) ==
    /\ pl[p].pc = "draw" /\ pl[p].pass = 2
    /\ ReturnGone(p)
    /\ mu' = "free"
    /\ UNCHANGED <<track, sched, db, adm>>

(* What read does with the answer.  No decoder: try again at once; else    *)
(* MarkPlaying (nil when there is nothing to play) and play to the end.    *)
StartFails(p) ==
    /\ pl[p].pc = "picked" /\ pl[p].id # None
    /\ pl' = [pl EXCEPT ![p] = IdlePlayer]
    /\ UNCHANGED <<track, mu, sched, db, adm>>

MarkPlaying(p) ==
    /\ pl[p].pc = "picked" /\ mu = "free"
    /\ current' = pl[p].id
    /\ pl' = [pl EXCEPT ![p] = IdlePlayer]
    /\ UNCHANGED <<track, mu, mode, manual, deck, deckPos, drawn, db, adm>>

PlayerStep(p) ==
    /\ promise' = [q \in Players |-> IF q = p THEN promise[q] ELSE None]
    /\ \/ DrainPop(p) \/ DrainGet(p) \/ DrainDone(p) \/ TakeSnapshot(p) \/ PickAuto(p)
       \/ ShuffleLock(p) \/ DrawCard(p) \/ DeckExhausted(p) \/ ShuffleGivesUp(p)
       \/ StartFails(p) \/ MarkPlaying(p)

-----------------------------------------------------------------------------
(* The admin's requests. *)

EnqueueLookup(a, id) ==
    /\ adm[a].pc = "idle" /\ InLib(id)
    /\ adm' = [adm EXCEPT ![a] = [IdleAdmin EXCEPT !.pc = "enqueue", !.id = id]]
    /\ UNCHANGED <<track, mu, sched, db, pl>>

(* Mutant: no roll-back when the save fails. *)
Enqueue_NoRollback(a) ==
    /\ adm[a].pc = "enqueue" /\ mu = "free"
    /\ Len(manual) < MaxQueue
    /\ adm' = [adm EXCEPT ![a] = IdleAdmin]
    /\ manual' = Append(manual, adm[a].id)
    /\ \/ Saved(manual')
       \/ Fails /\ UNCHANGED <<dbMode, dbQueue, dirty>>
    /\ UNCHANGED <<track, mu, mode, current, deck, deckPos, drawn, pl>>

Enqueue(a) ==
    /\ adm[a].pc = "enqueue" /\ mu = "free"
    /\ Len(manual) < MaxQueue
    /\ adm' = [adm EXCEPT ![a] = IdleAdmin]
    /\ \/ manual' = Append(manual, adm[a].id) /\ Saved(manual')
       \/ Fails /\ UNCHANGED <<manual, dbMode, dbQueue, dirty>>
    /\ UNCHANGED <<track, mu, mode, current, deck, deckPos, drawn, pl>>

Dequeue(i) ==
    /\ mu = "free" /\ i \in 1 .. Len(manual)
    /\ \/ manual' = RemoveAt(manual, i) /\ Saved(manual')
       \/ Fails /\ UNCHANGED <<manual, dbMode, dbQueue, dirty>>
    /\ UNCHANGED <<track, mu, mode, current, deck, deckPos, drawn, pl, adm>>

MoveQueueItem(from, to, expectID) ==
    /\ mu = "free"
    /\ from \in 1 .. Len(manual) /\ to \in 1 .. Len(manual)
    /\ manual[from] = expectID
    /\ from # to
    /\ \/ manual' = InsertAt(RemoveAt(manual, from), to, manual[from]) /\ Saved(manual')
       \/ Fails /\ UNCHANGED <<manual, dbMode, dbQueue, dirty>>
    /\ UNCHANGED <<track, mu, mode, current, deck, deckPos, drawn, pl, adm>>

SetMode(a, m) ==
    /\ adm[a].pc = "idle" /\ mu = "free"
    /\ mode' = m
    /\ adm' = [adm EXCEPT ![a] = [IdleAdmin EXCEPT !.pc = "saveMode", !.mode = m]]
    /\ UNCHANGED <<track, mu, current, manual, deck, deckPos, drawn, db, pl>>

(* Mutant: the setting is never written. *)
SaveMode_Forgets(a) ==
    /\ adm[a].pc = "saveMode"
    /\ adm' = [adm EXCEPT ![a] = IdleAdmin]
    /\ UNCHANGED <<track, mu, sched, db, pl>>

(* The setting is saved after the unlock. *)
SaveMode(a) ==
    /\ adm[a].pc = "saveMode"
    /\ adm' = [adm EXCEPT ![a] = IdleAdmin]
    /\ \/ dbMode' = adm[a].mode /\ UNCHANGED faults
       \/ Fails /\ UNCHANGED dbMode
    /\ UNCHANGED <<track, mu, sched, dbQueue, dirty, pl>>

AdminStep(a) ==
    \/ \E id \in Ids : EnqueueLookup(a, id)
    \/ Enqueue(a)
    \/ \E i \in 1 .. MaxQueue : Dequeue(i)
    \/ \E i, j \in 1 .. MaxQueue, id \in Ids : MoveQueueItem(i, j, id)
    \/ \E m \in AskedModes : SetMode(a, m)
    \/ SaveMode(a)

-----------------------------------------------------------------------------
(* The library: upsertFile of a new file and removeTrack, step by step.    *)
(* That a row cannot be deleted is in Library; here it would be a track    *)
(* that is loaded again, without its entries in the queue, until the scan. *)

Advance(id, from, to) ==
    /\ track[id] = from
    /\ track' = [track EXCEPT ![id] = to]
    /\ UNCHANGED <<mu, sched, pl, adm>>

InsertRow(id)  == Advance(id, "absent", "row") /\ UNCHANGED db
MapTrack(id)   == Advance(id, "row", "live") /\ UNCHANGED db
DeleteRow(id)  == Advance(id, "live", "rowGone") /\ UNCHANGED db

(* The error is ignored; entries that stay have no track to be played.     *)
DeleteQueued(id) ==
    /\ Advance(id, "rowGone", "queueGone")
    /\ \/ dbQueue' = Keep(dbQueue, Ids \ {id}) /\ UNCHANGED faults
       \/ Fails /\ UNCHANGED dbQueue
    /\ UNCHANGED <<dbMode, dirty>>
UnmapTrack(id) == Advance(id, "queueGone", "gone") /\ UNCHANGED db

LibraryStep(id) == \/ InsertRow(id) \/ MapTrack(id) \/ DeleteRow(id)
                   \/ DeleteQueued(id) \/ UnmapTrack(id)

RestoredMode == IF dbMode = Empty THEN "shuffle" ELSE dbMode

(* The process dies, or is stopped, at any moment and is started again:    *)
(* loadFromDB, NewScheduler and Restore.                                   *)
Restart ==
    /\ track' = [id \in Ids |-> CASE track[id] = "row" -> "live"
                                  [] track[id] \in {"rowGone", "queueGone"} -> "gone"
                                  [] OTHER -> track[id]]
    /\ mu' = "free"
    /\ mode' = RestoredMode
    /\ current' = None
    /\ manual' = dbQueue
    /\ deck' = <<>> /\ deckPos' = 0 /\ drawn' = {}
    /\ pl' = [p \in Players |-> IdlePlayer]
    /\ adm' = [a \in Admins |-> IdleAdmin]
    /\ dirty' = FALSE
    /\ UNCHANGED <<dbMode, dbQueue, faults>>

-----------------------------------------------------------------------------
NoPromise == promise' = [p \in Players |-> None]

Next ==
    \/ \E p \in Players : PickStart(p) \/ PlayerStep(p)
    \/ (\E a \in Admins : AdminStep(a)) /\ NoPromise
    \/ (\E id \in Ids : LibraryStep(id)) /\ NoPromise
    \/ Restart /\ NoPromise

Spec == Init /\ [][Next]_vars

InPick(p) == pl[p].pc \notin {"idle", "picked"}

(* A goroutine inside Pick keeps running; s.mu may be taken by others      *)
(* again and again, but Go's mutex hands it to a waiter that has starved.  *)
FairSpec == Spec /\ \A p \in Players : SF_vars(InPick(p) /\ PlayerStep(p))

-----------------------------------------------------------------------------
(* The reason persistQueueLocked runs under the lock: whatever requests,   *)
(* picks and removals interleave, the queue a restart would restore is the *)
(* queue in memory, entry for entry and in order, up to entries whose      *)
(* track has left the library.  Only a save that failed inside Pick, whose *)
(* error is ignored, can make them differ, until the next save.            *)
WithRow(q) == Keep(q, {id \in Ids : HasRow(id)})
QueueDurable == ~dirty => WithRow(dbQueue) = WithRow(manual)

(* With one request at a time and no failed write, the mode a restart      *)
(* restores is the mode in force.                                          *)
ModeSaved ==
    (faults = 0 /\ \A a \in Admins : adm[a].pc # "saveMode")
        => mode = RestoredMode

(* What a restart would restore is what is in force, queue and mode. *)
StateDurable == QueueDurable /\ ModeSaved

(* Peek answers what the admin page shows as up next.  Unless somebody     *)
(* else takes a step in between, that is what Pick returns, in every mode. *)
PeekIsNext == \A p \in Players :
    pl[p].pc = "picked" /\ promise[p] # None => pl[p].id = promise[p]

(* Pick gives up (the engine then plays silence) only when no track of the *)
(* snapshot it took is in the library any more.                            *)
NilOnlyIfGone == \A p \in Players :
    pl[p].pc = "picked" /\ pl[p].id = None
        => \A i \in 1 .. Len(pl[p].snap) : ~InLib(pl[p].snap[i])

(* The comment on pickShuffle: each track plays exactly once per deck      *)
(* cycle.  No card is drawn twice, and the deck is rebuilt only when every *)
(* card whose track is still in the library has been drawn, also when two  *)
(* players draw from the same deck.                                        *)
Draws(p) == pl[p].pc = "draw" /\ pl'[p].pc = "picked" /\ pl'[p].id # None
DealsOnce ==
    /\ \A p \in Players : Draws(p) => pl'[p].id \notin drawn
    /\ (deckPos' < deckPos /\ deck' # <<>>)
         => \A id \in Range(deck) : InLib(id) => id \in drawn
OncePerCycle == [][DealsOnce]_vars

(* Every Pick returns: neither loop can run for ever, whatever the library *)
(* does meanwhile, and the lock is always handed on.                       *)
PickReturns == \A p \in Players : InPick(p) ~> ~InPick(p)

(* The queue is the durable queue of PlayQueue: no interleaving of picks,  *)
(* requests, removals, failed writes and restarts loses, repeats or        *)
(* reorders an entry in any other way than PlayQueue allows.               *)
PlayQueue == INSTANCE PlayQueue WITH q <- WithRow(manual), saved <- WithRow(dbQueue)
ImplementsPlayQueue == PlayQueue!Spec
=============================================================================
