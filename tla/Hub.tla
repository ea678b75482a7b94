-------------------------------- MODULE Hub --------------------------------
(***************************************************************************)
(* The fan-out hub of internal/broadcast/hub.go.  One encoder pump writes  *)
(* chunks; every subscriber owns a bounded channel.  A critical section    *)
(* (everything between h.mu.Lock and h.mu.Unlock) is one step; what the    *)
(* code does after the unlock (unsubscribing the dropped, closing the      *)
(* channel) is a step of its own, interleaved with everybody else.         *)
(*                                                                         *)
(* The n-th Write is chunk n.  A channel is the log of the pieces ever     *)
(* sent to it (sent) and how many of them were received (rcvd): what is    *)
(* buffered lies between the two.  A piece is an interval of chunks: the   *)
(* burst is one piece of several chunks, a live send is a piece of one.    *)
(***************************************************************************)
EXTENDS Integers, Sequences, FiniteSets

CONSTANTS
    Clients,       \* Subscriber objects made by Subscribe, one per request
    Feeders,       \* Subscriber objects made by SubscribeInternal
    Closers,       \* goroutines that call Hub.Close
    Pump,          \* the goroutine that copies the encoder's output to Write
    Cap,           \* subBufferChunks
    MaxListeners,  \* 0 means unlimited
    BurstLen,      \* chunks the burst buffer holds, 0 disables it
    MaxWrites      \* bound: chunks the encoder produces

Subs   == Clients \union Feeders
Actors == Subs \union Closers \union {Pump}

ASSUME HubAssumption ==
    /\ Clients \intersect Feeders = {}
    /\ Subs \intersect Closers = {}
    /\ Pump \notin Subs \union Closers
    /\ IsFiniteSet(Subs)
    /\ Cap \in Nat \ {0}
    /\ MaxListeners \in Nat
    /\ BurstLen \in Nat
    /\ MaxWrites \in Nat

VARIABLES
    closed,    \* h.closed
    subs,      \* h.subs
    clients,   \* h.clients
    pos,       \* chunks written so far; the burst holds the last BurstLen
    chan,      \* [Subs -> "none" | "open" | "closed"]
    sent,      \* [Subs -> Seq(Piece)]: every piece sent to the channel
    rcvd,      \* [Subs -> Nat]: how many of them were received
    owner,     \* [Subs -> the control state of the goroutine that owns it]
    todo,      \* [Actors -> subscribers the goroutine still has to unsubscribe]
    shut,      \* [Actors -> subscribers it removed and has to close]
    joinedAt,  \* history: pos when the subscriber was added
    panicked   \* a send on, or a close of, a closed channel

chanVars == <<chan, sent, rcvd>>
vars == <<closed, subs, clients, pos, chanVars, owner, todo, shut, joinedAt, panicked>>

Piece == [lo : Nat \ {0}, hi : Nat \ {0}]

-----------------------------------------------------------------------------
Init ==
    /\ closed = FALSE
    /\ subs = {}
    /\ clients = 0
    /\ pos = 0
    /\ chan = [s \in Subs |-> "none"]
    /\ sent = [s \in Subs |-> <<>>]
    /\ rcvd = [s \in Subs |-> 0]
    /\ owner = [s \in Subs |-> "new"]
    /\ todo = [a \in Actors |-> {}]
    /\ shut = [a \in Actors |-> {}]
    /\ joinedAt = [s \in Subs |-> 0]
    /\ panicked = FALSE

HasRoom(s) == Len(sent[s]) - rcvd[s] < Cap

(* The snapshot of the burst buffer, cut to whole chunks by alignToFrame.  *)
BurstLo == IF pos > BurstLen THEN pos - BurstLen + 1 ELSE 1
(* Mutant: a snapshot that misses the newest chunk. *)
Burst_Stale == IF BurstLen = 0 \/ pos <= 1 THEN <<>>
               ELSE << [lo |-> BurstLo, hi |-> pos - 1] >>

Burst   == IF BurstLen = 0 \/ pos = 0
             THEN <<>>
             ELSE << [lo |-> BurstLo, hi |-> pos] >>

(* Mutant: the burst is handed to feeders too. *)
FirstPieces_Everyone(s) == Burst

(* What a new channel holds: the burst for a client, nothing for a feeder. *)
FirstPieces(s) == IF s \in Clients THEN Burst ELSE <<>>

Admits(s) == s \in Feeders \/ MaxListeners = 0 \/ clients < MaxListeners

(* Mutant: a full channel is skipped and its subscriber kept. *)
FanOut_KeepsSlow ==
    /\ sent' = [s \in Subs |-> IF s \in subs /\ HasRoom(s)
                               THEN Append(sent[s], [lo |-> pos + 1, hi |-> pos + 1])
                               ELSE sent[s]]
    /\ UNCHANGED todo

(***************************************************************************)
(* Write: one critical section fans the chunk out; those whose channel is  *)
(* full are left for the unsubscribe calls made after the unlock.          *)
(***************************************************************************)
FanOut ==
    /\ sent' = [s \in Subs |-> IF s \in subs /\ HasRoom(s)
                               THEN Append(sent[s], [lo |-> pos + 1, hi |-> pos + 1])
                               ELSE sent[s]]
    /\ todo' = [todo EXCEPT ![Pump] = {s \in subs : ~HasRoom(s)}]

Write ==
    /\ todo[Pump] = {} /\ shut[Pump] = {}
    /\ ~closed
    /\ pos < MaxWrites
    /\ pos' = pos + 1
    /\ FanOut
    /\ panicked' = (\E s \in subs : chan[s] = "closed")
    /\ UNCHANGED <<closed, subs, clients, chan, rcvd, owner, shut, joinedAt>>

(* Mutant: a closed hub still takes subscribers. *)
Subscribe_AfterClose(s) ==
    /\ owner[s] = "new"
    /\ Admits(s)
    /\ owner' = [owner EXCEPT ![s] = "serving"]
    /\ chan' = [chan EXCEPT ![s] = "open"]
    /\ sent' = [sent EXCEPT ![s] = FirstPieces(s)]
    /\ joinedAt' = [joinedAt EXCEPT ![s] = pos]
    /\ subs' = subs \union {s}
    /\ clients' = IF s \in Clients THEN clients + 1 ELSE clients
    /\ UNCHANGED <<closed, pos, rcvd, todo, shut, panicked>>

Subscribe(s) ==
    /\ owner[s] = "new"
    /\ ~closed
    /\ Admits(s)
    /\ owner' = [owner EXCEPT ![s] = "serving"]
    /\ chan' = [chan EXCEPT ![s] = "open"]
    /\ sent' = [sent EXCEPT ![s] = FirstPieces(s)]
    /\ joinedAt' = [joinedAt EXCEPT ![s] = pos]
    /\ subs' = subs \union {s}
    /\ clients' = IF s \in Clients THEN clients + 1 ELSE clients
    /\ UNCHANGED <<closed, pos, rcvd, todo, shut, panicked>>

(* ErrHubClosed or ErrAtCapacity: handleStream answers 503. *)
Refuse(s) ==
    /\ owner[s] = "new"
    /\ closed \/ ~Admits(s)
    /\ owner' = [owner EXCEPT ![s] = "refused"]
    /\ UNCHANGED <<closed, subs, clients, pos, chanVars, todo, shut, joinedAt, panicked>>

(* Mutant: the channel is closed without looking s up in the map. *)
Unsubscribe_NoLookup(a, s) ==
    /\ s \in todo[a] /\ shut[a] = {}
    /\ todo' = [todo EXCEPT ![a] = @ \ {s}]
    /\ subs' = subs \ {s}
    /\ shut' = [shut EXCEPT ![a] = {s}]
    /\ UNCHANGED <<closed, clients, pos, chanVars, owner, joinedAt, panicked>>

(* Mutant: feeders are counted out though they were not counted in. *)
Unsubscribe_CountsFeeders(a, s) ==
    /\ s \in todo[a] /\ shut[a] = {}
    /\ todo' = [todo EXCEPT ![a] = @ \ {s}]
    /\ IF s \in subs
         THEN /\ subs' = subs \ {s}
              /\ clients' = clients - 1
              /\ shut' = [shut EXCEPT ![a] = {s}]
         ELSE UNCHANGED <<subs, clients, shut>>
    /\ UNCHANGED <<closed, pos, chanVars, owner, joinedAt, panicked>>

(* Mutant: removed from the map but never closed. *)
Unsubscribe_NoClose(a, s) ==
    /\ s \in todo[a] /\ shut[a] = {}
    /\ todo' = [todo EXCEPT ![a] = @ \ {s}]
    /\ subs' = subs \ {s}
    /\ clients' = IF s \in subs \intersect Clients THEN clients - 1 ELSE clients
    /\ UNCHANGED <<closed, pos, chanVars, owner, shut, joinedAt, panicked>>

(* The critical section of unsubscribe: whoever deletes s closes it later. *)
Unsubscribe(a, s) ==
    /\ s \in todo[a] /\ shut[a] = {}
    /\ todo' = [todo EXCEPT ![a] = @ \ {s}]
    /\ IF s \in subs
         THEN /\ subs' = subs \ {s}
              /\ clients' = IF s \in Clients THEN clients - 1 ELSE clients
              /\ shut' = [shut EXCEPT ![a] = {s}]
         ELSE UNCHANGED <<subs, clients, shut>>
    /\ UNCHANGED <<closed, pos, chanVars, owner, joinedAt, panicked>>

(* close(s.ch), outside the lock; closing twice panics. *)
CloseChan(a, s) ==
    /\ s \in shut[a]
    /\ shut' = [shut EXCEPT ![a] = @ \ {s}]
    /\ panicked' = (chan[s] = "closed")
    /\ chan' = [chan EXCEPT ![s] = "closed"]
    /\ UNCHANGED <<closed, subs, clients, pos, sent, rcvd, owner, todo, joinedAt>>

(* The critical section of Close; a second call returns at once. *)
Close(a) ==
    /\ ~closed
    /\ closed' = TRUE
    /\ shut' = [shut EXCEPT ![a] = subs]
    /\ subs' = {}
    /\ clients' = 0
    /\ UNCHANGED <<pos, chanVars, owner, todo, joinedAt, panicked>>

-----------------------------------------------------------------------------
(* The goroutine that owns a subscriber: handleStream and ICYStream for a  *)
(* client, HLSManager.runOnce and its feeder loop for a feeder.            *)

Receive(s) ==
    /\ owner[s] = "serving"
    /\ rcvd[s] < Len(sent[s])
    /\ rcvd' = [rcvd EXCEPT ![s] = @ + 1]
    /\ UNCHANGED <<closed, subs, clients, pos, chan, sent, owner, todo, shut, joinedAt, panicked>>

Leaving(s) ==
    /\ owner' = [owner EXCEPT ![s] = "left"]
    /\ todo' = [todo EXCEPT ![s] = {s}]
    /\ UNCHANGED <<closed, subs, clients, pos, chan, sent, shut, joinedAt, panicked>>

(* A client that hung up is noticed by the write of the next piece only:   *)
(* the handler takes a piece, fails to write it and returns.               *)
WriteFails(s) ==
    /\ s \in Clients
    /\ owner[s] = "serving"
    /\ rcvd[s] < Len(sent[s])
    /\ rcvd' = [rcvd EXCEPT ![s] = @ + 1]
    /\ Leaving(s)

(* runOnce returns (ffmpeg exited or the context ended) and its deferred   *)
(* sub.Close runs, whatever the channel still holds.                       *)
FeederStops(s) ==
    /\ s \in Feeders
    /\ owner[s] = "serving"
    /\ Leaving(s)
    /\ UNCHANGED rcvd

(* The range over the channel ends: it is closed and drained. *)
Drained(s) ==
    /\ owner[s] = "serving"
    /\ chan[s] = "closed" /\ rcvd[s] = Len(sent[s])
    /\ Leaving(s)
    /\ UNCHANGED rcvd

-----------------------------------------------------------------------------
OwnerStep(s) == \/ Subscribe(s) \/ Refuse(s) \/ Receive(s)
                \/ WriteFails(s) \/ FeederStops(s) \/ Drained(s)

Cleanup(a) == \E s \in Subs : Unsubscribe(a, s) \/ CloseChan(a, s)

Next ==
    /\ ~panicked
    /\ \/ Write
       \/ \E s \in Subs : OwnerStep(s)
       \/ \E a \in Closers : Close(a)
       \/ \E a \in Actors : Cleanup(a)

Spec == Init /\ [][Next]_vars

-----------------------------------------------------------------------------
TypeOK ==
    /\ closed \in BOOLEAN
    /\ subs \in SUBSET Subs
    /\ clients \in Int
    /\ pos \in 0..MaxWrites
    /\ chan \in [Subs -> {"none", "open", "closed"}]
    /\ sent \in [Subs -> Seq(Piece)]
    /\ rcvd \in [Subs -> Nat]
    /\ owner \in [Subs -> {"new", "refused", "serving", "left"}]
    /\ todo \in [Actors -> SUBSET Subs]
    /\ shut \in [Actors -> SUBSET Subs]
    /\ joinedAt \in [Subs -> Nat]
    /\ panicked \in BOOLEAN

(* The comment in unsubscribe: only the goroutine that won the delete      *)
(* closes the channel and nothing can send after that.  Neither a double   *)
(* close nor a send on a closed channel ever panics the process, whatever  *)
(* the interleaving of Write, Close and the handlers' unsubscribe calls.   *)
NoPanic == ~panicked

(* h.clients, which is kept apart from the map and set by three different  *)
(* operations, is exactly the number of client subscribers in the map, and *)
(* the configured cap is never exceeded.                                   *)
ClientsExact ==
    /\ clients = Cardinality(subs \intersect Clients)
    /\ MaxListeners > 0 => clients <= MaxListeners

(* After Close the hub is empty and stays so: a Subscribe racing with      *)
(* Close cannot leave a subscriber nobody will ever close.                 *)
ClosedIsEmpty == closed => subs = {} /\ clients = 0

(* A channel that is open but no longer in the map is always on the list   *)
(* of exactly one goroutine that will close it, so no handler is left      *)
(* parked on a channel that nobody closes, and none is closed twice.       *)
OneCloser ==
    \A s \in Subs : (chan[s] = "open" /\ s \notin subs)
        => \E a \in Actors : s \in shut[a] /\ \A b \in Actors \ {a} : s \notin shut[b]

(* Nobody who waits on a channel is forgotten by those who remove him.     *)
NobodyStranded == ClosedIsEmpty /\ OneCloser

(* What reaches a listener is one contiguous stretch of the encoder's      *)
(* output: the burst is followed by the very next chunk (none is lost or   *)
(* repeated between the snapshot and the registration), no chunk is        *)
(* skipped for a slow subscriber that later catches up.                    *)
GapFree ==
    \A s \in Subs : \A i \in 1 .. Len(sent[s]) - 1 :
        sent[s][i + 1].lo = sent[s][i].hi + 1

(* Where a listener starts: a client at most BurstLen chunks before it     *)
(* joined and without a gap to the live edge, a feeder exactly at the live *)
(* edge (it is never handed audio an earlier feeder has segmented).        *)
StartsAtEdge ==
    \A s \in Subs : sent[s] # <<>> =>
        LET first == sent[s][1].lo IN
        /\ first <= joinedAt[s] + 1
        /\ first > joinedAt[s] - (IF s \in Clients THEN BurstLen ELSE 0)

(* A subscriber the hub has not given up on has been sent everything up to *)
(* the last chunk, so it is never further behind live than its channel     *)
(* plus the burst: the hub drops slow listeners, it does not thin them.    *)
LiveEdge ==
    \A s \in subs \ todo[Pump] :
        /\ sent[s] # <<>> => sent[s][Len(sent[s])].hi = pos
        /\ sent[s] = <<>> => joinedAt[s] = pos
        /\ Len(sent[s]) - rcvd[s] <= Cap

(***************************************************************************)
(* The abstract broadcast this hub implements: what is heard is what was   *)
(* received, the listener figure is h.clients.                             *)
(***************************************************************************)
Broadcast == INSTANCE Broadcast WITH
    Listeners <- Clients, Feeds <- Feeders,
    onAir <- ~closed, edge <- pos, tuned <- subs, count <- clients,
    since <- [s \in Subs |-> IF chan[s] = "none" THEN -1 ELSE joinedAt[s]],
    heard <- [s \in Subs |-> SubSeq(sent[s], 1, rcvd[s])]

(* The hub implements Broadcast: whatever the interleaving of the pump,    *)
(* the handlers and the shutdown, every listener hears one contiguous      *)
(* stretch of the broadcast and the listener figure is always exact.       *)
ImplementsBroadcast == Broadcast!Spec
=============================================================================
