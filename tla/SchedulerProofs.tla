--------------------------- MODULE SchedulerProofs ---------------------------
(***************************************************************************)
(* Proofs about the scheduler, for any library, any number of overlapping  *)
(* players and of requests.                                                *)
(*                                                                         *)
(* The deck: it is touched by the holder of s.mu only (Locked); it is a    *)
(* permutation of tracks that have been in the map (DeckOK), which leave   *)
(* it for good, so that a card that was skipped stays skipped (DealtOK);   *)
(* and a player in its second pass deals its own listing (PassOK).         *)
(* The queue: memory and database hold the same entries that have a row    *)
(* (Queued); every step does to them what PlayQueue allows (Follows).      *)
(* Peek: what it answered is what each step of Pick has still to find      *)
(* (Promised).                                                             *)
(***************************************************************************)
EXTENDS Scheduler, FiltersProofs, FiniteSetTheorems, FunctionTheorems, TLAPS

(* A player is a record of these fields. *)
LocalOK(p) == DOMAIN pl[p] = {"pc", "id", "mode", "cur", "snap", "pass"}

Locked(p) == pl[p].pc \in {"drain", "popped", "draw"} => mu = p

(* The track has been in the map: once it leaves it does not come back.    *)
Mapped(id)   == track[id] \in {"live", "rowGone", "queueGone", "gone"}
AllMapped(s) == \A i \in 1 .. Len(s) : Mapped(s[i])
NoneLeft(s)  == \A i \in 1 .. Len(s) : ~InLib(s[i])

ListingOK(p) == pl[p].snap \in Seq(Ids) /\ AllMapped(pl[p].snap)

PassOK(p) ==
    /\ pl[p].pass \in 0 .. 2
    /\ pl[p].pc \notin {"draw", "picked"} => pl[p].pass = 0
    /\ pl[p].pc = "draw" /\ pl[p].pass = 1 =>
         /\ Range(deck) = Range(pl[p].snap)
         /\ \A i \in 1 .. deckPos : ~InLib(deck[i])
    /\ pl[p].pc = "draw" /\ pl[p].pass = 2 => NoneLeft(pl[p].snap)
    /\ pl[p].pc = "picked" /\ pl[p].id = None => NoneLeft(pl[p].snap)

PlayerOK(p) == LocalOK(p) /\ Locked(p) /\ ListingOK(p) /\ PassOK(p)

DeckOK ==
    /\ deck \in Seq(Ids) /\ deckPos \in 0 .. Len(deck)
    /\ \A i, j \in 1 .. Len(deck) : deck[i] = deck[j] => i = j
    /\ AllMapped(deck)

DealtOK ==
    /\ drawn \subseteq {deck[i] : i \in 1 .. deckPos}
    /\ \A i \in 1 .. deckPos : InLib(deck[i]) => deck[i] \in drawn

Dealing ==
    /\ DOMAIN pl = Players /\ track \in [Ids -> Stages]
    /\ DeckOK /\ DealtOK
    /\ \A p \in Players : PlayerOK(p)

-----------------------------------------------------------------------------
LEMMA IdsFinite == IsFiniteSet(Ids) /\ None \notin Ids
  <1>1. PathOrder \in [1 .. Len(PathOrder) -> Nat \ {None}] /\ Len(PathOrder) \in Nat
    BY SchedulerAssumption DEF SchedulerAssumption
  <1>2. IsFiniteSet(1 .. Len(PathOrder))
    BY <1>1, FS_Interval
  <1>3. PathOrder \in Surjection(1 .. Len(PathOrder), Range(PathOrder))
    BY <1>1, Fun_RangeProperties
  <1>4. IsFiniteSet(Ids)
    BY <1>2, <1>3, FS_Surjection DEF Ids
  <1>5. None \notin Ids
    BY <1>1 DEF Ids, Range
  <1>. QED
    BY <1>4, <1>5

(* What SetToSeqs lists: each element of a finite set once.                *)
LEMMA Permutation ==
    ASSUME NEW S \in SUBSET Ids, NEW s \in SetToSeqs(S)
    PROVE  /\ s \in Seq(Ids) /\ Range(s) = S
           /\ \A i, j \in 1 .. Len(s) : s[i] = s[j] => i = j
  <1>. DEFINE n == Cardinality(S)
  <1>1. IsFiniteSet(S) /\ n \in Nat
    BY IdsFinite, FS_Subset, FS_CardinalityType
  <1>2. s \in [1 .. n -> S] /\ \A i, j \in 1 .. n : i # j => s[i] # s[j]
    BY DEF SetToSeqs
  <1>3. s \in Injection(1 .. n, S)
    BY <1>2 DEF Injection, IsInjective
  <1>4. IsFiniteSet(1 .. n) /\ Cardinality(1 .. n) = n
    BY <1>1, FS_Interval
  <1>5. s \in Surjection(1 .. n, S)
    BY <1>1, <1>3, <1>4, FS_Injection
  <1>6. Range(s) = S
    BY <1>5, Fun_SurjectionProperties
  <1>7. s \in Seq(Ids) /\ Len(s) = n
    BY <1>1, <1>2
  <1>. QED
    BY <1>2, <1>6, <1>7

LEMMA Elements ==
    ASSUME NEW s \in Seq(Ids) PROVE \A x : x \in Range(s) <=> \E i \in 1 .. Len(s) : x = s[i]
  <1>1. s \in [1 .. Len(s) -> Ids]
    OBVIOUS
  <1>2. \A i \in 1 .. Len(s) : s[i] \in Range(s)
    BY <1>1 DEF Range
  <1>3. \A x \in Range(s) : \E i \in 1 .. Len(s) : s[i] = x
    BY <1>1, Fun_RangeProperties
  <1>. QED
    BY <1>2, <1>3

LEMMA RebuildDeals ==
    ASSUME NEW tracks \in Seq(Ids), Rebuild(tracks)
    PROVE  /\ deck' \in Seq(Ids) /\ deckPos' = 0 /\ drawn' = {}
           /\ Range(deck') = Range(tracks)
           /\ \A i, j \in 1 .. Len(deck') : deck'[i] = deck'[j] => i = j
  <1>1. Range(tracks) \in SUBSET Ids
    BY DEF Range
  <1>2. PICK perm \in SetToSeqs(Range(tracks)) : deck' = perm
    BY DEF Rebuild
  <1>. QED
    BY <1>1, <1>2, Permutation DEF Rebuild

LEMMA ListingsList ==
    ASSUME NEW tracks \in Listings
    PROVE  tracks \in Seq(Ids) /\ \A i \in 1 .. Len(tracks) : InLib(tracks[i])
  <1>. DEFINE Live == {id \in Ids : InLib(id)}
  <1>1. Live \in SUBSET Ids /\ tracks \in SetToSeqs(Live)
    BY DEF Listings
  <1>2. tracks \in Seq(Ids) /\ Range(tracks) = Live
    BY <1>1, Permutation
  <1>3. \A i \in 1 .. Len(tracks) : tracks[i] \in Live
    BY <1>2, Elements
  <1>. QED
    BY <1>2, <1>3

(* What is said of the elements of a sequence is said of those of another  *)
(* with the same range.                                                    *)
LEMMA SameRange ==
    ASSUME NEW s \in Seq(Ids), NEW t \in Seq(Ids), Range(s) = Range(t)
    PROVE  /\ AllMapped(t) => AllMapped(s)
           /\ NoneLeft(s) => NoneLeft(t)
  <1>1. \A x : (\E i \in 1 .. Len(s) : x = s[i]) <=> (\E i \in 1 .. Len(t) : x = t[i])
    BY Elements
  <1>2. \A i \in 1 .. Len(s) : \E j \in 1 .. Len(t) : s[i] = t[j]
    BY <1>1
  <1>3. \A i \in 1 .. Len(t) : \E j \in 1 .. Len(s) : t[i] = s[j]
    BY <1>1
  <1>. QED
    BY <1>2, <1>3 DEF AllMapped, NoneLeft

-----------------------------------------------------------------------------
(* A player that does not hold the lock, or that sees the deck unchanged,  *)
(* is left as it was by a step of anybody else.                            *)
LEMMA OtherPlayer ==
    ASSUME NEW q \in Players, PlayerOK(q), pl'[q] = pl[q], track' = track,
           mu # q \/ UNCHANGED <<mu, deck, deckPos>>
    PROVE  PlayerOK(q)'
  <1>1. LocalOK(q)' /\ Locked(q)'
    BY DEF PlayerOK, LocalOK, Locked
  <1>2. ListingOK(q)'
    BY DEF PlayerOK, ListingOK, AllMapped, Mapped
  <1>3. PassOK(q)'
    BY DEF PlayerOK, PassOK, Locked, NoneLeft, InLib
  <1>. QED
    BY <1>1, <1>2, <1>3 DEF PlayerOK

(* A step of player p that leaves the deck alone.                          *)
StepsAlone(p) ==
    /\ DOMAIN pl' = Players /\ \A q \in Players \ {p} : pl'[q] = pl[q]
    /\ UNCHANGED track
    /\ mu' = mu \/ mu \in {"free", p}

LEMMA DeckUntouched ==
    ASSUME Dealing, NEW p \in Players, StepsAlone(p), UNCHANGED <<deck, deckPos, drawn>>,
           PlayerOK(p)', pl'[p].pc # "picked" \/ pl'[p].id = None \/ pl[p].pc # "draw"
    PROVE  Dealing' /\ DealsOnce
  <1>1. DOMAIN pl' = Players /\ track' \in [Ids -> Stages]
    BY DEF Dealing, StepsAlone
  <1>2. DeckOK' /\ DealtOK'
    BY DEF Dealing, DeckOK, DealtOK, AllMapped, Mapped, InLib, StepsAlone
  <1>3. ASSUME NEW q \in Players PROVE PlayerOK(q)'
    <2>1. CASE q = p
      BY <2>1
    <2>2. CASE q # p
      <3>1. pl'[q] = pl[q] /\ PlayerOK(q)
        BY <2>2 DEF Dealing, StepsAlone
      <3>2. mu # q \/ mu' = mu
        BY <2>2, SchedulerAssumption DEF SchedulerAssumption, StepsAlone
      <3>. QED
        BY <3>1, <3>2, OtherPlayer DEF StepsAlone
    <2>. QED
      BY <2>1, <2>2
  <1>4. DealsOnce
    <2>1. \A q \in Players : q # p => pl'[q] = pl[q]
      BY DEF StepsAlone
    <2>2. ~(deckPos' < deckPos)
      BY DEF Dealing, DeckOK
    <2>. QED
      BY <2>1, <2>2 DEF DealsOnce, Draws
  <1>. QED
    BY <1>1, <1>2, <1>3, <1>4 DEF Dealing

LEMMA Idle ==
    ASSUME NEW p \in Players, pl'[p] = IdlePlayer
    PROVE  PlayerOK(p)'
  <1>1. pl'[p].pc = "idle" /\ pl'[p].pass = 0 /\ pl'[p].snap = <<>>
    BY DEF IdlePlayer
  <1>2. LocalOK(p)' /\ Locked(p)'
    BY <1>1 DEF LocalOK, Locked, IdlePlayer
  <1>3. ListingOK(p)'
    <2>1. pl'[p].snap \in Seq(Ids) /\ Len(pl'[p].snap) = 0
      BY <1>1
    <2>. QED
      BY <2>1 DEF ListingOK, AllMapped
  <1>4. PassOK(p)'
    BY <1>1 DEF PassOK
  <1>. QED
    BY <1>2, <1>3, <1>4 DEF PlayerOK

(* A Pick that returns forgets its listing. *)
LEMMA Returned ==
    ASSUME NEW p \in Players, NEW id,
           pl'[p] = [IdlePlayer EXCEPT !.pc = "picked", !.id = id]
    PROVE  PlayerOK(p)'
  <1>1. pl'[p].pc = "picked" /\ pl'[p].pass = 0 /\ pl'[p].snap = <<>>
    BY DEF IdlePlayer
  <1>2. LocalOK(p)' /\ Locked(p)'
    BY <1>1 DEF LocalOK, Locked, IdlePlayer
  <1>3. ListingOK(p)'
    <2>0. <<>> \in Seq(Ids) /\ Len(<<>>) = 0
      OBVIOUS
    <2>1. pl'[p].snap \in Seq(Ids) /\ Len(pl'[p].snap) = 0
      BY <1>1, <2>0, Zenon
    <2>. QED
      BY <2>1 DEF ListingOK, AllMapped
  <1>4. PassOK(p)'
    BY <1>1 DEF PassOK, NoneLeft
  <1>. QED
    BY <1>2, <1>3, <1>4 DEF PlayerOK

(* Moving on within Pick, before the deck is reached. *)
LEMMA Moves ==
    ASSUME Dealing, NEW p \in Players, UNCHANGED track,
           LocalOK(p)', pl'[p].pass = 0,
           pl'[p].pc \notin {"draw", "picked"},
           pl'[p].pc \in {"drain", "popped"} => mu' = p,
           pl'[p].snap \in Seq(Ids), AllMapped(pl'[p].snap)
    PROVE  PlayerOK(p)'
  <1>1. Locked(p)'
    BY DEF Locked
  <1>2. ListingOK(p)'
    BY DEF ListingOK, AllMapped, Mapped
  <1>3. PassOK(p)'
    BY DEF PassOK
  <1>. QED
    BY <1>1, <1>2, <1>3 DEF PlayerOK

LEMMA BeforeTheDeck ==
    ASSUME Dealing, NEW p \in Players,
           \/ PickStart(p) \/ DrainPop(p) \/ DrainGet(p) \/ DrainDone(p)
           \/ TakeSnapshot(p) \/ PickAuto(p)
    PROVE  Dealing' /\ DealsOnce
  <1>. /\ PlayerOK(p) /\ DOMAIN pl = Players
       /\ LocalOK(p) /\ Locked(p) /\ ListingOK(p) /\ PassOK(p)
    BY DEF Dealing, PlayerOK
  <1>1. CASE PickStart(p)
    <2>1. StepsAlone(p) /\ LocalOK(p)'
      BY <1>1 DEF PickStart, Goto, StepsAlone, LocalOK
    <2>2. pl'[p].pc = "drain" /\ pl'[p].snap = pl[p].snap /\ pl'[p].pass = 0
      BY <1>1 DEF PickStart, Goto, LocalOK, PassOK
    <2>3. PlayerOK(p)'
      BY <1>1, <2>1, <2>2, Moves DEF PickStart, ListingOK, StepsAlone
    <2>. QED
      BY <1>1, <2>1, <2>2, <2>3, DeckUntouched DEF PickStart, sched
  <1>2. CASE DrainPop(p)
    <2>1. StepsAlone(p) /\ LocalOK(p)' /\ mu' = p
      BY <1>2 DEF DrainPop, StepsAlone, LocalOK, Locked
    <2>2. pl'[p].pc = "popped" /\ pl'[p].snap = pl[p].snap /\ pl'[p].pass = 0
      BY <1>2 DEF DrainPop, LocalOK, PassOK
    <2>3. PlayerOK(p)'
      BY <2>1, <2>2, Moves DEF ListingOK, StepsAlone
    <2>. QED
      BY <1>2, <2>1, <2>2, <2>3, DeckUntouched DEF DrainPop
  <1>3. CASE DrainGet(p)
    <2>1. StepsAlone(p) /\ mu = p
      BY <1>3 DEF DrainGet, Return, Goto, StepsAlone, Locked
    <2>2. CASE InLib(pl[p].id)
      <3>1. pl'[p] = [IdlePlayer EXCEPT !.pc = "picked", !.id = pl[p].id]
        BY <1>3, <2>2 DEF DrainGet, Return
      <3>2. PlayerOK(p)'
        BY <3>1, Returned
      <3>. QED
        BY <1>3, <2>1, <3>2, DeckUntouched DEF DrainGet, sched
    <2>3. CASE ~InLib(pl[p].id)
      <3>1. /\ pl'[p].pc = "drain" /\ pl'[p].snap = pl[p].snap /\ pl'[p].pass = 0
            /\ LocalOK(p)' /\ mu' = p
        BY <1>3, <2>1, <2>3 DEF DrainGet, Goto, LocalOK, PassOK
      <3>2. PlayerOK(p)'
        BY <2>1, <3>1, Moves DEF ListingOK, StepsAlone
      <3>. QED
        BY <1>3, <2>1, <3>1, <3>2, DeckUntouched DEF DrainGet, sched
    <2>. QED
      BY <2>2, <2>3
  <1>4. CASE DrainDone(p)
    <2>1. StepsAlone(p) /\ LocalOK(p)'
      BY <1>4 DEF DrainDone, StepsAlone, LocalOK, Locked
    <2>2. pl'[p].pc = "snapshot" /\ pl'[p].snap = pl[p].snap /\ pl'[p].pass = 0
      BY <1>4 DEF DrainDone, LocalOK, PassOK
    <2>3. PlayerOK(p)'
      BY <2>1, <2>2, Moves DEF ListingOK, StepsAlone
    <2>. QED
      BY <1>4, <2>1, <2>2, <2>3, DeckUntouched DEF DrainDone, sched
  <1>5. CASE TakeSnapshot(p)
    <2>. PICK tracks \in Listings :
           IF tracks = <<>>
           THEN Return(p, None)
           ELSE pl' = [pl EXCEPT ![p].snap = tracks,
                                 ![p].pc = IF pl[p].mode = "shuffle" THEN "lock" ELSE "auto"]
      BY <1>5 DEF TakeSnapshot
    <2>1. StepsAlone(p) /\ pl[p].pc # "draw"
      BY <1>5 DEF TakeSnapshot, Return, StepsAlone
    <2>2. PlayerOK(p)'
      <3>1. CASE tracks = <<>>
        BY <3>1, Returned DEF Return
      <3>2. CASE tracks # <<>>
        <4>1. LocalOK(p)' /\ pl'[p].pc \in {"lock", "auto"} /\ pl'[p].pass = 0
          BY <1>5, <3>2 DEF TakeSnapshot, LocalOK, PassOK
        <4>2. pl'[p].snap = tracks
          BY <3>2 DEF LocalOK
        <4>3. pl'[p].snap \in Seq(Ids) /\ AllMapped(pl'[p].snap)
          BY <4>2, ListingsList DEF AllMapped, Mapped, InLib
        <4>. QED
          BY <2>1, <4>1, <4>3, Moves DEF StepsAlone
      <3>. QED
        BY <3>1, <3>2
    <2>. QED
      BY <1>5, <2>1, <2>2, DeckUntouched DEF TakeSnapshot, sched
  <1>6. CASE PickAuto(p)
    <2>1. StepsAlone(p) /\ pl[p].pc # "draw"
      BY <1>6 DEF PickAuto, Return, StepsAlone
    <2>2. PlayerOK(p)'
      BY <1>6, Returned DEF PickAuto, Return
    <2>. QED
      BY <1>6, <2>1, <2>2, DeckUntouched DEF PickAuto, sched
  <1>. QED
    BY <1>1, <1>2, <1>3, <1>4, <1>5, <1>6

-----------------------------------------------------------------------------
(* Dealing. *)

(* A rebuilt deck is a fresh permutation of the listing of its player. *)
LEMMA NewDeck ==
    ASSUME Dealing, NEW p \in Players, Rebuild(pl[p].snap), UNCHANGED track
    PROVE  DeckOK' /\ DealtOK' /\ deckPos' = 0 /\ Range(deck') = Range(pl[p].snap)
  <1>1. pl[p].snap \in Seq(Ids) /\ AllMapped(pl[p].snap)
    BY DEF Dealing, PlayerOK, ListingOK
  <1>2. /\ deck' \in Seq(Ids) /\ deckPos' = 0 /\ drawn' = {}
        /\ Range(deck') = Range(pl[p].snap)
        /\ \A i, j \in 1 .. Len(deck') : deck'[i] = deck'[j] => i = j
    BY <1>1, RebuildDeals
  <1>3. AllMapped(deck')
    BY <1>1, <1>2, SameRange
  <1>4. AllMapped(deck)'
    BY <1>3 DEF AllMapped, Mapped
  <1>5. Len(deck') \in Nat
    BY <1>2
  <1>6. DealtOK'
    BY <1>2 DEF DealtOK
  <1>. QED
    BY <1>2, <1>4, <1>5, <1>6 DEF DeckOK

(* A deck that has been gone through has been played, but for what left.   *)
LEMMA AllDealt ==
    ASSUME DeckOK, DealtOK, deckPos = Len(deck)
    PROVE  \A id \in Range(deck) : InLib(id) => id \in drawn
  <1>1. deck \in Seq(Ids)
    BY DEF DeckOK
  <1>2. \A id \in Range(deck) : \E i \in 1 .. deckPos : id = deck[i]
    BY <1>1, Elements
  <1>. QED
    BY <1>2 DEF DealtOK

LEMMA StartsDealing ==
    ASSUME Dealing, NEW p \in Players, ShuffleLock(p)
    PROVE  Dealing' /\ DealsOnce
  <1>. /\ DOMAIN pl = Players /\ DeckOK /\ DealtOK
       /\ PlayerOK(p) /\ LocalOK(p) /\ ListingOK(p) /\ PassOK(p)
    BY DEF Dealing, PlayerOK
  <1>1. StepsAlone(p) /\ mu = "free" /\ mu' = p
    BY DEF ShuffleLock, Goto, StepsAlone
  <1>2. /\ LocalOK(p)' /\ pl'[p].pc = "draw" /\ pl'[p].pass = 0
        /\ pl'[p].snap = pl[p].snap
    BY DEF ShuffleLock, Goto, LocalOK, PassOK
  <1>3. PlayerOK(p)'
    <2>1. Locked(p)' /\ PassOK(p)'
      BY <1>1, <1>2 DEF Locked, PassOK
    <2>2. ListingOK(p)'
      BY <1>1, <1>2 DEF ListingOK, AllMapped, Mapped, StepsAlone
    <2>. QED
      BY <1>2, <2>1, <2>2 DEF PlayerOK
  <1>4. CASE deckPos < Len(deck)
    <2>1. UNCHANGED <<deck, deckPos, drawn>>
      BY <1>4 DEF ShuffleLock, DeckOK
    <2>. QED
      BY <1>1, <1>2, <1>3, <2>1, DeckUntouched
  <1>5. CASE ~(deckPos < Len(deck))
    <2>1. Rebuild(pl[p].snap) /\ deckPos = Len(deck)
      BY <1>5 DEF ShuffleLock, DeckOK
    <2>2. DeckOK' /\ DealtOK'
      BY <1>1, <2>1, NewDeck DEF StepsAlone
    <2>3. \A q \in Players : PlayerOK(q)'
      <3>1. \A q \in Players : q # p => PlayerOK(q)'
        BY <1>1, OtherPlayer, SchedulerAssumption
           DEF SchedulerAssumption, StepsAlone, Dealing
      <3>. QED
        BY <1>3, <3>1
    <2>4. DealsOnce
      <3>1. \A q \in Players : ~Draws(q)
        BY <1>1, <1>2 DEF Draws, StepsAlone
      <3>2. \A id \in Range(deck) : InLib(id) => id \in drawn
        BY <2>1, AllDealt
      <3>. QED
        BY <3>1, <3>2 DEF DealsOnce
    <2>. QED
      BY <1>1, <2>2, <2>3, <2>4 DEF Dealing, StepsAlone
  <1>. QED
    BY <1>4, <1>5

(* One card. *)
LEMMA CardDeals ==
    ASSUME Dealing, NEW p \in Players, DrawCard(p)
    PROVE  Dealing' /\ DealsOnce
  <1>. DEFINE card == deck[deckPos + 1]
  <1>. /\ DOMAIN pl = Players /\ DeckOK /\ DealtOK
       /\ PlayerOK(p) /\ LocalOK(p) /\ Locked(p) /\ ListingOK(p) /\ PassOK(p)
    BY DEF Dealing, PlayerOK
  <1>1. /\ deckPos \in Nat /\ deckPos < Len(deck) /\ deckPos' = deckPos + 1
        /\ UNCHANGED <<track, deck>> /\ mu = p
    BY DEF DrawCard, DeckOK, Locked
  <1>2. StepsAlone(p)
    BY <1>1 DEF DrawCard, StepsAlone, Return
  <1>3. DeckOK' /\ DOMAIN pl' = Players /\ track' \in [Ids -> Stages]
    BY <1>1, <1>2 DEF DeckOK, AllMapped, Mapped, Dealing, StepsAlone
  <1>4. \A q \in Players : q # p => PlayerOK(q)'
    BY <1>1, <1>2, OtherPlayer DEF StepsAlone, Dealing
  <1>5. CASE InLib(card)
    <2>1. drawn' = drawn \union {card} /\ Return(p, card)
      BY <1>5 DEF DrawCard
    <2>2. PlayerOK(p)'
      BY <2>1, Returned DEF Return
    <2>3. DealtOK'
      <3>1. drawn' \subseteq {deck[i] : i \in 1 .. deckPos'}
        BY <1>1, <2>1 DEF DealtOK
      <3>2. \A i \in 1 .. deckPos' : InLib(deck[i]) => deck[i] \in drawn'
        BY <1>1, <2>1 DEF DealtOK
      <3>. QED
        BY <1>1, <3>1, <3>2 DEF DealtOK, InLib
    <2>4. card \notin drawn
      BY <1>1 DEF DealtOK, DeckOK
    <2>5. pl'[p] = [IdlePlayer EXCEPT !.pc = "picked", !.id = card]
      BY <2>1 DEF Return
    <2>6. pl'[p].id = card
      BY <2>5 DEF IdlePlayer
    <2>7. DealsOnce
      BY <1>1, <1>2, <2>4, <2>6 DEF DealsOnce, Draws, StepsAlone
    <2>. QED
      BY <1>3, <1>4, <2>2, <2>3, <2>7 DEF Dealing
  <1>6. CASE ~InLib(card)
    <2>1. UNCHANGED <<pl, mu, drawn>>
      BY <1>6 DEF DrawCard
    <2>2. PassOK(p)'
      BY <1>1, <1>6, <2>1 DEF PassOK, NoneLeft, InLib
    <2>3. PlayerOK(p)'
      BY <1>1, <2>1, <2>2 DEF PlayerOK, LocalOK, Locked, ListingOK, AllMapped, Mapped
    <2>4. DealtOK'
      <3>1. drawn' \subseteq {deck[i] : i \in 1 .. deckPos'}
        BY <1>1, <2>1 DEF DealtOK
      <3>2. \A i \in 1 .. deckPos' : InLib(deck[i]) => deck[i] \in drawn'
        BY <1>1, <1>6, <2>1 DEF DealtOK
      <3>. QED
        BY <1>1, <3>1, <3>2 DEF DealtOK, InLib
    <2>5. DealsOnce
      BY <1>1, <2>1 DEF DealsOnce, Draws
    <2>. QED
      BY <1>3, <1>4, <2>3, <2>4, <2>5 DEF Dealing
  <1>. QED
    BY <1>5, <1>6

(* The deck is rebuilt: every card of the first pass is gone after the     *)
(* second, when nothing was drawn.                                         *)
LEMMA Exhausts ==
    ASSUME Dealing, NEW p \in Players, DeckExhausted(p)
    PROVE  Dealing' /\ DealsOnce
  <1>. /\ DOMAIN pl = Players /\ DeckOK /\ DealtOK
       /\ PlayerOK(p) /\ LocalOK(p) /\ Locked(p) /\ ListingOK(p) /\ PassOK(p)
    BY DEF Dealing, PlayerOK
  <1>1. /\ Rebuild(pl[p].snap) /\ deckPos = Len(deck) /\ mu = p /\ pl[p].pass \in 0 .. 1
        /\ UNCHANGED <<track, mu>>
    BY DEF DeckExhausted, DeckOK, Locked, PassOK
  <1>2. StepsAlone(p)
    BY <1>1 DEF DeckExhausted, StepsAlone
  <1>3. /\ LocalOK(p)' /\ pl'[p].pc = "draw" /\ pl'[p].snap = pl[p].snap
        /\ pl'[p].pass = pl[p].pass + 1
    BY DEF DeckExhausted, LocalOK
  <1>4. DeckOK' /\ DealtOK' /\ deckPos' = 0 /\ Range(deck') = Range(pl[p].snap)
    BY <1>1, NewDeck
  <1>5. pl[p].pass = 1 => NoneLeft(pl[p].snap)
    <2>1. ASSUME pl[p].pass = 1 PROVE NoneLeft(deck) /\ Range(deck) = Range(pl[p].snap)
      BY <1>1, <2>1 DEF PassOK, NoneLeft, DeckExhausted
    <2>2. deck \in Seq(Ids) /\ pl[p].snap \in Seq(Ids)
      BY DEF DeckOK, ListingOK
    <2>. QED
      BY <2>1, <2>2, SameRange
  <1>6. PlayerOK(p)'
    <2>1. Locked(p)' /\ ListingOK(p)'
      BY <1>1, <1>3 DEF Locked, ListingOK, AllMapped, Mapped
    <2>2. PassOK(p)'
      BY <1>1, <1>3, <1>4, <1>5 DEF PassOK, NoneLeft, InLib
    <2>. QED
      BY <1>3, <2>1, <2>2 DEF PlayerOK
  <1>7. \A q \in Players : q # p => PlayerOK(q)'
    BY <1>1, <1>2, OtherPlayer DEF StepsAlone, Dealing
  <1>8. DealsOnce
    <2>1. \A q \in Players : ~Draws(q)
      BY <1>2, <1>3 DEF Draws, StepsAlone
    <2>. QED
      BY <1>1, <2>1, AllDealt DEF DealsOnce
  <1>. QED
    BY <1>2, <1>4, <1>6, <1>7, <1>8 DEF Dealing, StepsAlone

LEMMA AfterTheDeck ==
    ASSUME Dealing, NEW p \in Players,
           ShuffleGivesUp(p) \/ StartFails(p) \/ MarkPlaying(p)
    PROVE  Dealing' /\ DealsOnce
  <1>. /\ DOMAIN pl = Players
       /\ LocalOK(p) /\ Locked(p) /\ ListingOK(p) /\ PassOK(p)
    BY DEF Dealing, PlayerOK
  <1>1. CASE ShuffleGivesUp(p)
    <2>1. StepsAlone(p)
      BY <1>1 DEF ShuffleGivesUp, ReturnGone, StepsAlone, Locked
    <2>2. /\ LocalOK(p)' /\ pl'[p].pc = "picked" /\ pl'[p].id = None
          /\ pl'[p].snap = pl[p].snap /\ pl'[p].pass = 2
      BY <1>1 DEF ShuffleGivesUp, ReturnGone, LocalOK
    <2>3. Locked(p)' /\ ListingOK(p)'
      BY <2>1, <2>2 DEF Locked, ListingOK, AllMapped, Mapped, StepsAlone
    <2>4. PassOK(p)'
      BY <1>1, <2>1, <2>2 DEF ShuffleGivesUp, PassOK, NoneLeft, InLib, StepsAlone
    <2>. QED
      BY <1>1, <2>1, <2>2, <2>3, <2>4, DeckUntouched DEF ShuffleGivesUp, PlayerOK, sched
  <1>2. CASE StartFails(p)
    <2>1. StepsAlone(p) /\ pl'[p] = IdlePlayer
      BY <1>2 DEF StartFails, StepsAlone
    <2>. QED
      BY <1>2, <2>1, Idle, DeckUntouched DEF StartFails, sched
  <1>3. CASE MarkPlaying(p)
    <2>1. StepsAlone(p) /\ pl'[p] = IdlePlayer
      BY <1>3 DEF MarkPlaying, StepsAlone
    <2>. QED
      BY <1>3, <2>1, Idle, DeckUntouched DEF MarkPlaying
  <1>. QED
    BY <1>1, <1>2, <1>3

-----------------------------------------------------------------------------
(* Everybody else. *)

(* A track that left the map stays out of it. *)
LEMMA LibraryDeals ==
    ASSUME Dealing, NEW id \in Ids, LibraryStep(id)
    PROVE  Dealing' /\ DealsOnce
  <1>1. UNCHANGED <<mu, deck, deckPos, drawn, pl>> /\ track' \in [Ids -> Stages]
    BY DEF LibraryStep, InsertRow, MapTrack, DeleteRow, DeleteQueued, UnmapTrack,
           Advance, sched, Dealing, Stages
  <1>2. \A x \in Ids : Mapped(x) => Mapped(x)' /\ (~InLib(x) => ~InLib(x)')
    BY DEF LibraryStep, InsertRow, MapTrack, DeleteRow, DeleteQueued, UnmapTrack,
           Advance, Dealing, Mapped, InLib
  <1>. DeckOK /\ DealtOK
    BY DEF Dealing
  <1>3. \A i \in 1 .. Len(deck) : deck[i] \in Ids /\ Mapped(deck[i])
    BY DEF DeckOK, AllMapped
  <1>4. DeckOK'
    BY <1>1, <1>2, <1>3 DEF DeckOK, AllMapped
  <1>5. DealtOK'
    <2>1. \A i \in 1 .. deckPos : InLib(deck[i])' => deck[i] \in drawn
      BY <1>1, <1>2, <1>3 DEF DealtOK, DeckOK
    <2>. QED
      BY <1>1, <2>1 DEF DealtOK
  <1>6. ASSUME NEW q \in Players PROVE PlayerOK(q)'
    <2>. LocalOK(q) /\ Locked(q) /\ ListingOK(q) /\ PassOK(q)
      BY DEF Dealing, PlayerOK
    <2>1. \A i \in 1 .. Len(pl[q].snap) : pl[q].snap[i] \in Ids /\ Mapped(pl[q].snap[i])
      BY DEF ListingOK, AllMapped
    <2>2. LocalOK(q)' /\ Locked(q)'
      BY <1>1 DEF LocalOK, Locked
    <2>3. ListingOK(q)'
      BY <1>1, <1>2, <2>1 DEF ListingOK, AllMapped
    <2>4. NoneLeft(pl[q].snap) => NoneLeft(pl[q].snap)'
      BY <1>1, <1>2, <2>1 DEF NoneLeft
    <2>5. \A i \in 1 .. deckPos : ~InLib(deck[i]) => ~InLib(deck[i])'
      BY <1>1, <1>2, <1>3 DEF DeckOK
    <2>6. PassOK(q)'
      BY <1>1, <2>4, <2>5 DEF PassOK
    <2>. QED
      BY <2>2, <2>3, <2>6 DEF PlayerOK
  <1>7. DealsOnce
    BY <1>1 DEF DealsOnce, Draws, DeckOK
  <1>. QED
    BY <1>1, <1>4, <1>5, <1>6, <1>7 DEF Dealing

(* Requests, and steps that change nothing. *)
LEMMA NothingDealt ==
    ASSUME Dealing, UNCHANGED <<track, mu, deck, deckPos, drawn, pl>>
    PROVE  Dealing' /\ DealsOnce
  <1>1. DeckOK' /\ DealtOK'
    BY DEF Dealing, DeckOK, DealtOK, AllMapped, Mapped, InLib
  <1>2. \A q \in Players : PlayerOK(q)'
    BY OtherPlayer DEF Dealing
  <1>3. DealsOnce
    BY DEF Dealing, DeckOK, DealsOnce, Draws
  <1>. QED
    BY <1>1, <1>2, <1>3 DEF Dealing

LEMMA NoDeck ==
    ASSUME track' \in [Ids -> Stages], pl' = [p \in Players |-> IdlePlayer],
           deck' = <<>>, deckPos' = 0, drawn' = {}
    PROVE  Dealing'
  <1>1. \A p \in Players : PlayerOK(p)'
    BY Idle
  <1>2. <<>> \in Seq(Ids) /\ Len(<<>>) = 0
    OBVIOUS
  <1>3. DeckOK' /\ DealtOK'
    BY <1>2 DEF DeckOK, DealtOK, AllMapped
  <1>. QED
    BY <1>1, <1>3 DEF Dealing

LEMMA RestartDeals ==
    ASSUME Dealing, Restart
    PROVE  Dealing' /\ DealsOnce
  <1>1. track' \in [Ids -> Stages]
    BY DEF Restart, Dealing, Stages
  <1>2. Dealing'
    BY <1>1, NoDeck DEF Restart
  <1>3. pl' = [p \in Players |-> IdlePlayer] /\ deck' = <<>>
    BY DEF Restart
  <1>. QED
    BY <1>2, <1>3 DEF DealsOnce, Draws, IdlePlayer

LEMMA InitDeals == Init => Dealing
  <1>. SUFFICES ASSUME Init PROVE Dealing
    OBVIOUS
  <1>1. <<>> \in Seq(Ids) /\ Len(<<>>) = 0
    OBVIOUS
  <1>2. ASSUME NEW p \in Players PROVE PlayerOK(p)
    <2>1. pl[p].pc = "idle" /\ pl[p].pass = 0 /\ pl[p].snap = <<>>
      BY DEF Init, IdlePlayer
    <2>2. LocalOK(p) /\ Locked(p) /\ PassOK(p)
      BY <2>1 DEF LocalOK, Locked, PassOK, IdlePlayer, Init
    <2>3. ListingOK(p)
      BY <1>1, <2>1 DEF ListingOK, AllMapped
    <2>. QED
      BY <2>2, <2>3 DEF PlayerOK
  <1>3. DeckOK /\ DealtOK
    BY <1>1 DEF Init, DeckOK, DealtOK, AllMapped
  <1>. QED
    BY <1>2, <1>3 DEF Init, Dealing, Stages

LEMMA NextDeals == Dealing /\ [Next]_vars => Dealing' /\ DealsOnce
  <1>. SUFFICES ASSUME Dealing, [Next]_vars PROVE Dealing' /\ DealsOnce
    OBVIOUS
  <1>1. CASE UNCHANGED vars
    BY <1>1, NothingDealt DEF vars, sched
  <1>2. ASSUME NEW p \in Players, PickStart(p) \/ PlayerStep(p)
        PROVE  Dealing' /\ DealsOnce
    BY <1>2, BeforeTheDeck, StartsDealing, CardDeals, Exhausts, AfterTheDeck DEF PlayerStep
  <1>3. ASSUME NEW a \in Admins, AdminStep(a)
        PROVE  Dealing' /\ DealsOnce
    <2>1. UNCHANGED <<track, mu, deck, deckPos, drawn, pl>>
      BY <1>3 DEF AdminStep, EnqueueLookup, Enqueue, Dequeue, MoveQueueItem,
                  SetMode, SaveMode, sched
    <2>. QED
      BY <2>1, NothingDealt
  <1>. QED
    BY <1>1, <1>2, <1>3, LibraryDeals, RestartDeals DEF Next

(* The comment on pickShuffle: each track plays exactly once per deck      *)
(* cycle, whatever other players, requests and removals do meanwhile.      *)
THEOREM AlwaysOncePerCycle == Spec => OncePerCycle
  <1>1. Dealing /\ [Next]_vars => Dealing'
    BY NextDeals
  <1>2. Dealing /\ [Next]_vars => [DealsOnce]_vars
    BY NextDeals
  <1>. QED
    BY InitDeals, <1>1, <1>2, PTL DEF Spec, OncePerCycle

(* Pick answers nil, and the engine plays silence, only when no track it   *)
(* listed is left in the library.                                          *)
THEOREM AlwaysNilOnlyIfGone == Spec => []NilOnlyIfGone
  <1>1. Dealing /\ [Next]_vars => Dealing'
    BY NextDeals
  <1>2. Dealing => NilOnlyIfGone
    BY DEF Dealing, PlayerOK, PassOK, NoneLeft, NilOnlyIfGone
  <1>. QED
    BY InitDeals, <1>1, <1>2, PTL DEF Spec
-----------------------------------------------------------------------------
(* The manual queue. *)

Present == {id \in Ids : HasRow(id)}

(* What is queued has been in the map, also what is about to be queued. *)
QueueOK ==
    /\ track \in [Ids -> Stages]
    /\ manual \in Seq(Ids) /\ AllMapped(manual)
    /\ dbQueue \in Seq(Ids) /\ AllMapped(dbQueue)
    /\ DOMAIN adm = Admins
    /\ \A a \in Admins : adm[a].pc = "enqueue" => adm[a].id \in Ids /\ Mapped(adm[a].id)

Queued == QueueOK /\ QueueDurable

(* The operators of the abstract queue are these. *)
LEMMA SameOperators ==
    /\ \A q, S : PlayQueue!Keep(q, S) = Keep(q, S)
    /\ \A q, i : PlayQueue!RemoveAt(q, i) = RemoveAt(q, i)
    /\ \A q, i, e : PlayQueue!InsertAt(q, i, e) = InsertAt(q, i, e)
  BY Zenon DEF Keep, RemoveAt, InsertAt, PlayQueue!Keep, PlayQueue!RemoveAt, PlayQueue!InsertAt

(* What the abstract queue allows, said of the entries that have a row.    *)
Queue == WithRow(manual)
Copy  == WithRow(dbQueue)

Follows ==
    \/ UNCHANGED <<Queue, Copy>>
    \/ (\E id \in Ids : Queue' = Append(Queue, id)) /\ Copy' = Queue'
    \/ (\E i \in 1 .. Len(Queue) : Queue' = RemoveAt(Queue, i)) /\ Copy' = Queue'
    \/ /\ \E i, j \in 1 .. Len(Queue) : Queue' = InsertAt(RemoveAt(Queue, i), j, Queue[i])
       /\ Copy' = Queue'
    \/ Queue # <<>> /\ Queue' = Tail(Queue) /\ Copy' \in {Queue', Copy}
    \/ Copy' = Queue /\ Queue' = Queue
    \/ \E id \in Ids : Queue' = Keep(Queue, Ids \ {id}) /\ Copy' = Keep(Copy, Ids \ {id})
    \/ Queue' = Copy /\ Copy' = Copy

LEMMA FollowsPlayQueue == Follows => [PlayQueue!Next]_(PlayQueue!vars)
  <1>. SUFFICES ASSUME Follows PROVE [PlayQueue!Next]_(PlayQueue!vars)
    OBVIOUS
  <1>. USE DEF Queue, Copy
  <1>1. CASE UNCHANGED <<Queue, Copy>>
    BY <1>1 DEF PlayQueue!vars
  <1>2. CASE (\E id \in Ids : Queue' = Append(Queue, id)) /\ Copy' = Queue'
    BY <1>2, Zenon DEF PlayQueue!Next, PlayQueue!Add
  <1>3. CASE (\E i \in 1 .. Len(Queue) : Queue' = RemoveAt(Queue, i)) /\ Copy' = Queue'
    BY <1>3, SameOperators, Zenon DEF PlayQueue!Next, PlayQueue!Cancel
  <1>4. CASE /\ \E i, j \in 1 .. Len(Queue) : Queue' = InsertAt(RemoveAt(Queue, i), j, Queue[i])
             /\ Copy' = Queue'
    BY <1>4, SameOperators, Zenon DEF PlayQueue!Next, PlayQueue!Rearrange
  <1>5. CASE Queue # <<>> /\ Queue' = Tail(Queue) /\ Copy' \in {Queue', Copy}
    BY <1>5, Zenon DEF PlayQueue!Next, PlayQueue!Take
  <1>6. CASE Copy' = Queue /\ Queue' = Queue
    BY <1>6, Zenon DEF PlayQueue!Next, PlayQueue!Resave
  <1>7. CASE \E id \in Ids : Queue' = Keep(Queue, Ids \ {id}) /\ Copy' = Keep(Copy, Ids \ {id})
    BY <1>7, SameOperators, Zenon DEF PlayQueue!Next, PlayQueue!Forget
  <1>8. CASE Queue' = Copy /\ Copy' = Copy
    BY <1>8, Zenon DEF PlayQueue!Next, PlayQueue!Restart
  <1>. QED
    BY <1>1, <1>2, <1>3, <1>4, <1>5, <1>6, <1>7, <1>8, Zenon DEF Follows
LEMMA Views ==
    /\ Queue = Keep(manual, Present) /\ Copy = Keep(dbQueue, Present)
    /\ Queue' = Keep(manual', Present') /\ Copy' = Keep(dbQueue', Present')
    /\ track' = track => Present' = Present
  BY DEF Queue, Copy, WithRow, Present, HasRow

(* A step that leaves tracks and queue alone. *)
LEMMA QueueUntouched ==
    ASSUME Queued, UNCHANGED <<track, manual, dbQueue, dirty>>,
           DOMAIN adm' = Admins,
           \A a \in Admins : adm'[a].pc = "enqueue" =>
                \/ adm'[a] = adm[a]
                \/ adm'[a].id \in Ids /\ Mapped(adm'[a].id)
    PROVE  Queued' /\ Follows
  <1>1. UNCHANGED <<Queue, Copy>>
    BY Views
  <1>2. QueueOK'
    BY DEF Queued, QueueOK, AllMapped, Mapped
  <1>3. QueueDurable'
    BY <1>1 DEF Queued, QueueDurable, Queue, Copy
  <1>. QED
    BY <1>1, <1>2, <1>3 DEF Queued, Follows

(* A step that changes the queue and saves it. *)
LEMMA QueueSaved ==
    ASSUME Queued, UNCHANGED track, manual' \in Seq(Ids), AllMapped(manual'), Saved(manual'),
           adm' = adm \/ \E a \in Admins : adm' = [adm EXCEPT ![a] = IdleAdmin]
    PROVE  Queued' /\ Copy' = Queue'
  <1>1. AllMapped(manual)' /\ dbQueue' = manual'
    BY DEF AllMapped, Mapped, Saved
  <1>2. DOMAIN adm' = Admins /\ \A a \in Admins : adm'[a].pc = "enqueue" => adm'[a] = adm[a]
    BY DEF Queued, QueueOK, IdleAdmin
  <1>3. QueueOK'
    BY <1>1, <1>2 DEF Queued, QueueOK, AllMapped, Mapped
  <1>4. QueueDurable'
    BY <1>1 DEF QueueDurable
  <1>. QED
    BY <1>1, <1>3, <1>4 DEF Queued, Queue, Copy

LEMMA EnqueueQueues ==
    ASSUME Queued, NEW a \in Admins, Enqueue(a)
    PROVE  Queued' /\ Follows
  <1>. DEFINE e == adm[a].id
  <1>1. e \in Ids /\ Mapped(e) /\ manual \in Seq(Ids) /\ AllMapped(manual)
    BY DEF Enqueue, Queued, QueueOK
  <1>2. adm' = [adm EXCEPT ![a] = IdleAdmin] /\ UNCHANGED track
    BY DEF Enqueue
  <1>3. CASE manual' = Append(manual, e) /\ Saved(manual')
    <2>1. manual' \in Seq(Ids) /\ AllMapped(manual')
      <3>1. manual' \in Seq(Ids) /\ Len(manual') = Len(manual) + 1 /\ manual'[Len(manual) + 1] = e
        BY <1>1, <1>3
      <3>2. \A i \in 1 .. Len(manual) : manual'[i] = manual[i]
        BY <1>1, <1>3
      <3>. QED
        BY <1>1, <3>1, <3>2 DEF AllMapped
    <2>2. Queued' /\ Copy' = Queue'
      BY <1>2, <1>3, <2>1, QueueSaved
    <2>3. /\ e \in Present => Keep(Append(manual, e), Present) = Append(Keep(manual, Present), e)
          /\ e \notin Present => Keep(Append(manual, e), Present) = Keep(manual, Present)
      BY <1>1, KeepAppend, Zenon
    <2>4. Queue = Keep(manual, Present) /\ Queue' = Keep(Append(manual, e), Present)
      BY <1>2, <1>3, Views
    <2>5. Queue' = Append(Queue, e) \/ Queue' = Queue
      BY <2>3, <2>4, Zenon
    <2>6. Queue' = Queue => UNCHANGED <<Queue, Copy>> \/ (Copy' = Queue /\ Queue' = Queue)
      BY <2>2
    <2>. QED
      BY <1>1, <2>2, <2>5, <2>6 DEF Follows
  <1>4. CASE UNCHANGED <<manual, dbMode, dbQueue, dirty>>
    <2>1. DOMAIN adm' = Admins /\ \A b \in Admins : adm'[b].pc = "enqueue" => adm'[b] = adm[b]
      BY <1>2 DEF Queued, QueueOK, IdleAdmin
    <2>. QED
      BY <1>2, <1>4, <2>1, QueueUntouched
  <1>. QED
    BY <1>3, <1>4 DEF Enqueue

LEMMA DequeueQueues ==
    ASSUME Queued, NEW i \in 1 .. MaxQueue, Dequeue(i)
    PROVE  Queued' /\ Follows
  <1>1. manual \in Seq(Ids) /\ AllMapped(manual) /\ i \in 1 .. Len(manual)
    BY DEF Dequeue, Queued, QueueOK
  <1>2. UNCHANGED <<track, adm>>
    BY DEF Dequeue
  <1>3. CASE manual' = RemoveAt(manual, i) /\ Saved(manual')
    <2>1. /\ manual' \in Seq(Ids) /\ Within(manual', manual)
          /\ \/ Queue' = Queue
             \/ \E k \in 1 .. Len(Queue) : Queue' = RemoveAt(Queue, k)
      <3>1. Queue = Keep(manual, Present) /\ Queue' = Keep(RemoveAt(manual, i), Present)
        BY <1>2, <1>3, Views
      <3>. QED
        BY <1>1, <1>3, <3>1, KeepRemove, Zenon
    <2>2. AllMapped(manual')
      BY <1>1, <2>1 DEF AllMapped, Within
    <2>3. Queued' /\ Copy' = Queue'
      BY <1>2, <1>3, <2>1, <2>2, QueueSaved
    <2>. QED
      BY <2>1, <2>3, Zenon DEF Follows
  <1>4. CASE UNCHANGED <<manual, dbMode, dbQueue, dirty>>
    BY <1>2, <1>4, QueueUntouched DEF Queued, QueueOK
  <1>. QED
    BY <1>3, <1>4 DEF Dequeue
LEMMA MoveQueues ==
    ASSUME Queued, NEW i \in 1 .. MaxQueue, NEW j \in 1 .. MaxQueue, NEW id \in Ids,
           MoveQueueItem(i, j, id)
    PROVE  Queued' /\ Follows
  <1>1. /\ manual \in Seq(Ids) /\ AllMapped(manual)
        /\ i \in 1 .. Len(manual) /\ j \in 1 .. Len(manual)
    BY DEF MoveQueueItem, Queued, QueueOK
  <1>2. UNCHANGED <<track, adm>>
    BY DEF MoveQueueItem
  <1>3. CASE manual' = InsertAt(RemoveAt(manual, i), j, manual[i]) /\ Saved(manual')
    <2>1. /\ manual' \in Seq(Ids) /\ Within(manual', manual)
          /\ \/ Queue' = Queue
             \/ \E k, l \in 1 .. Len(Queue) : Queue' = InsertAt(RemoveAt(Queue, k), l, Queue[k])
      <3>1. /\ Queue = Keep(manual, Present)
            /\ Queue' = Keep(InsertAt(RemoveAt(manual, i), j, manual[i]), Present)
        BY <1>2, <1>3, Views
      <3>. QED
        BY <1>1, <1>3, <3>1, KeepMove, Zenon
    <2>2. AllMapped(manual')
      BY <1>1, <2>1 DEF AllMapped, Within
    <2>3. Queued' /\ Copy' = Queue'
      BY <1>2, <1>3, <2>1, <2>2, QueueSaved
    <2>. QED
      BY <2>1, <2>3, Zenon DEF Follows
  <1>4. CASE UNCHANGED <<manual, dbMode, dbQueue, dirty>>
    BY <1>2, <1>4, QueueUntouched DEF Queued, QueueOK
  <1>. QED
    BY <1>3, <1>4 DEF MoveQueueItem

LEMMA DrainQueues ==
    ASSUME Queued, NEW p \in Players, DrainPop(p)
    PROVE  Queued' /\ Follows
  <1>1. manual \in Seq(Ids) /\ AllMapped(manual) /\ manual # <<>>
    BY DEF DrainPop, Queued, QueueOK
  <1>2. UNCHANGED <<track, adm>> /\ manual' = Tail(manual)
    BY DEF DrainPop
  <1>3. /\ manual' \in Seq(Ids) /\ Within(manual', manual)
        /\ Queue' = Queue \/ (Queue # <<>> /\ Queue' = Tail(Queue))
    <2>1. Queue = Keep(manual, Present) /\ Queue' = Keep(Tail(manual), Present)
      BY <1>2, Views
    <2>. QED
      BY <1>1, <1>2, <2>1, KeepTail, Zenon
  <1>4. AllMapped(manual')
    BY <1>1, <1>3 DEF AllMapped, Within
  <1>5. CASE Saved(Tail(manual))
    <2>1. Queued' /\ Copy' = Queue'
      BY <1>2, <1>3, <1>4, <1>5, QueueSaved
    <2>. QED
      BY <1>3, <2>1, Zenon DEF Follows
  <1>6. CASE dirty' = TRUE /\ UNCHANGED <<dbMode, dbQueue>>
    <2>1. Copy' = Copy
      BY <1>2, <1>6, Views
    <2>2. QueueOK'
      BY <1>2, <1>3, <1>4, <1>6 DEF Queued, QueueOK, AllMapped, Mapped
    <2>3. QueueDurable'
      BY <1>6 DEF QueueDurable
    <2>. QED
      BY <1>3, <2>1, <2>2, <2>3 DEF Follows, Queued
  <1>. QED
    BY <1>5, <1>6 DEF DrainPop

(* What the library does to the queue: a row that goes takes its entries   *)
(* along, a new one is in no entry yet.                                    *)
LEMMA LibraryQueues ==
    ASSUME Queued, NEW id \in Ids, LibraryStep(id)
    PROVE  Queued' /\ Follows
  <1>1. /\ manual \in Seq(Ids) /\ AllMapped(manual) /\ dbQueue \in Seq(Ids) /\ AllMapped(dbQueue)
        /\ track \in [Ids -> Stages]
    BY DEF Queued, QueueOK
  <1>2. UNCHANGED <<manual, adm, dirty>> /\ track' \in [Ids -> Stages]
    BY <1>1 DEF LibraryStep, InsertRow, MapTrack, DeleteRow, DeleteQueued, UnmapTrack,
           Advance, sched, db, Stages
  <1>3. \A x \in Ids : Mapped(x) => Mapped(x)'
    BY <1>1 DEF LibraryStep, InsertRow, MapTrack, DeleteRow, DeleteQueued, UnmapTrack,
           Advance, Mapped
  <1>4. \A s \in Seq(Ids) : AllMapped(s) => \A i \in 1 .. Len(s) : Mapped(s[i])'
    BY <1>3 DEF AllMapped
  <1>5. dbQueue' \in Seq(Ids) /\ Within(dbQueue', dbQueue)
    <2>1. CASE dbQueue' = dbQueue
      BY <1>1, <2>1 DEF Within
    <2>2. CASE dbQueue' = Keep(dbQueue, Ids \ {id})
      BY <1>1, <2>2, KeepSeq, KeptIsThere
    <2>. QED
      BY <2>1, <2>2 DEF LibraryStep, InsertRow, MapTrack, DeleteRow, DeleteQueued, UnmapTrack, db
  <1>6. QueueOK'
    <2>1. AllMapped(manual)'
      BY <1>1, <1>2, <1>4 DEF AllMapped
    <2>2. AllMapped(dbQueue)'
      BY <1>1, <1>4, <1>5 DEF AllMapped, Within
    <2>3. DOMAIN adm' = Admins /\ \A a \in Admins : adm'[a].pc = "enqueue" => adm[a].id \in Ids /\ Mapped(adm[a].id)'
      BY <1>2, <1>3 DEF Queued, QueueOK
    <2>. QED
      BY <1>1, <1>2, <1>5, <2>1, <2>2, <2>3 DEF QueueOK, Mapped
  <1>7. QueueDurable = (dirty \/ Copy = Queue) /\ QueueDurable' = (dirty' \/ Copy' = Queue')
    BY DEF QueueDurable, Queue, Copy
  <1>8. CASE MapTrack(id) \/ UnmapTrack(id)
    <2>1. Present' = Present /\ dbQueue' = dbQueue
      BY <1>1, <1>8 DEF MapTrack, UnmapTrack, Advance, Present, HasRow, db
    <2>. QED
      BY <1>2, <1>6, <1>7, <2>1, Views DEF Follows, Queued
  <1>9. CASE InsertRow(id)
    <2>1. Present' = Present \union {id} /\ ~Mapped(id) /\ dbQueue' = dbQueue
      BY <1>1, <1>9 DEF InsertRow, Advance, Present, HasRow, Mapped, db
    <2>2. AgreeOn(manual, Present, Present') /\ AgreeOn(dbQueue, Present, Present')
      BY <1>1, <2>1 DEF AgreeOn, AllMapped
    <2>3. UNCHANGED <<Queue, Copy>>
      BY <1>1, <1>2, <2>1, <2>2, Views, KeepSame
    <2>. QED
      BY <1>2, <1>6, <1>7, <2>3 DEF Follows, Queued
  <1>10. CASE DeleteRow(id)
    <2>1. Present' = Present \intersect (Ids \ {id}) /\ dbQueue' = dbQueue
      BY <1>1, <1>10 DEF DeleteRow, Advance, Present, HasRow, db
    <2>2. Queue' = Keep(Queue, Ids \ {id}) /\ Copy' = Keep(Copy, Ids \ {id})
      BY <1>1, <1>2, <2>1, Views, KeepKeep
    <2>. QED
      BY <1>2, <1>6, <1>7, <2>2 DEF Follows, Queued
  <1>11. CASE DeleteQueued(id)
    <2>1. /\ Present' = Present /\ Present = (Ids \ {id}) \intersect Present
          /\ dbQueue' \in {dbQueue, Keep(dbQueue, Ids \ {id})}
      BY <1>1, <1>11 DEF DeleteQueued, Fails, Advance, Present, HasRow
    <2>2. Keep(Keep(dbQueue, Ids \ {id}), Present) = Keep(dbQueue, (Ids \ {id}) \intersect Present)
      BY <1>1, KeepKeep
    <2>3. UNCHANGED <<Queue, Copy>>
      BY <1>2, <2>1, <2>2, Views
    <2>. QED
      BY <1>2, <1>6, <1>7, <2>3 DEF Follows, Queued
  <1>. QED
    BY <1>8, <1>9, <1>10, <1>11 DEF LibraryStep
LEMMA RestartQueues ==
    ASSUME Queued, Restart
    PROVE  Queued' /\ Follows
  <1>1. track \in [Ids -> Stages] /\ dbQueue \in Seq(Ids) /\ AllMapped(dbQueue)
    BY DEF Queued, QueueOK
  <1>2. /\ manual' = dbQueue /\ dbQueue' = dbQueue /\ adm' = [a \in Admins |-> IdleAdmin]
        /\ track' \in [Ids -> Stages] /\ \A id \in Ids : Mapped(id) => Mapped(id)'
        /\ Present' = Present
    BY <1>1 DEF Restart, Stages, Mapped, Present, HasRow
  <1>3. AllMapped(manual)' /\ AllMapped(dbQueue)'
    BY <1>1, <1>2 DEF AllMapped
  <1>4. QueueOK'
    BY <1>1, <1>2, <1>3 DEF QueueOK, IdleAdmin
  <1>5. QueueDurable' /\ Queue' = Copy /\ Copy' = Copy
    BY <1>2, Views DEF QueueDurable
  <1>. QED
    BY <1>4, <1>5 DEF Queued, Follows

LEMMA AdminQueues ==
    ASSUME Queued, NEW a \in Admins, AdminStep(a)
    PROVE  Queued' /\ Follows
  <1>. DOMAIN adm = Admins
    BY DEF Queued, QueueOK
  <1>1. ASSUME NEW id \in Ids, EnqueueLookup(a, id) PROVE Queued' /\ Follows
    <2>1. /\ UNCHANGED <<track, manual, dbQueue, dirty>> /\ Mapped(id)
          /\ adm' = [adm EXCEPT ![a] = [IdleAdmin EXCEPT !.pc = "enqueue", !.id = id]]
      BY <1>1 DEF EnqueueLookup, sched, db, InLib, Mapped
    <2>2. adm'[a].id = id
      BY <2>1 DEF IdleAdmin
    <2>. QED
      BY <2>1, <2>2, QueueUntouched
  <1>2. ASSUME NEW m \in AskedModes, SetMode(a, m) PROVE Queued' /\ Follows
    <2>1. /\ UNCHANGED <<track, manual, dbQueue, dirty>>
          /\ adm' = [adm EXCEPT ![a] = [IdleAdmin EXCEPT !.pc = "saveMode", !.mode = m]]
      BY <1>2 DEF SetMode, db
    <2>2. adm'[a].pc = "saveMode"
      BY <2>1 DEF IdleAdmin
    <2>. QED
      BY <2>1, <2>2, QueueUntouched
  <1>3. CASE SaveMode(a)
    <2>1. /\ UNCHANGED <<track, manual, dbQueue, dirty>>
          /\ adm' = [adm EXCEPT ![a] = IdleAdmin]
      BY <1>3 DEF SaveMode, sched
    <2>2. adm'[a].pc = "idle"
      BY <2>1 DEF IdleAdmin
    <2>. QED
      BY <2>1, <2>2, QueueUntouched
  <1>. QED
    BY <1>1, <1>2, <1>3, EnqueueQueues, DequeueQueues, MoveQueues DEF AdminStep

LEMMA NextQueues == Queued /\ [Next]_vars => Queued' /\ Follows
  <1>. SUFFICES ASSUME Queued, [Next]_vars PROVE Queued' /\ Follows
    OBVIOUS
  <1>. DOMAIN adm = Admins
    BY DEF Queued, QueueOK
  <1>1. CASE UNCHANGED vars
    BY <1>1, QueueUntouched DEF vars, sched, db
  <1>2. ASSUME NEW p \in Players, PickStart(p) \/ (PlayerStep(p) /\ ~DrainPop(p))
        PROVE  Queued' /\ Follows
    <2>1. UNCHANGED <<track, manual, dbQueue, dirty, adm>>
      BY <1>2 DEF PickStart, PlayerStep, DrainGet, DrainDone, TakeSnapshot, PickAuto, ShuffleLock,
             DrawCard, DeckExhausted, ShuffleGivesUp, StartFails, MarkPlaying, sched, db
    <2>. QED
      BY <2>1, QueueUntouched
  <1>. QED
    BY <1>1, <1>2, DrainQueues, AdminQueues, LibraryQueues, RestartQueues DEF Next

LEMMA InitQueues == Init => Queued /\ PlayQueue!Init
  <1>. SUFFICES ASSUME Init PROVE Queued /\ PlayQueue!Init
    OBVIOUS
  <1>1. <<>> \in Seq(Ids) /\ Len(<<>>) = 0
    OBVIOUS
  <1>2. manual = <<>> /\ dbQueue = <<>> /\ adm = [a \in Admins |-> IdleAdmin]
        /\ track \in [Ids -> Stages]
    BY DEF Init, Stages
  <1>3. WithRow(manual) = <<>> /\ WithRow(dbQueue) = <<>>
    BY <1>2, KeepEmpty DEF WithRow
  <1>4. QueueOK
    BY <1>1, <1>2 DEF QueueOK, AllMapped, IdleAdmin
  <1>. QED
    BY <1>3, <1>4 DEF Queued, QueueDurable, PlayQueue!Init

(* The reason persistQueueLocked runs under the lock: however requests,    *)
(* picks, removals and restarts interleave, what a restart would restore   *)
(* is the queue in memory, unless a save failed inside Pick.               *)
THEOREM AlwaysQueueDurable == Spec => []QueueDurable
  <1>1. Queued /\ [Next]_vars => Queued'
    BY NextQueues
  <1>2. Queued => QueueDurable
    BY DEF Queued
  <1>. QED
    BY InitQueues, <1>1, <1>2, PTL DEF Spec

(* No entry is lost, repeated or reordered in any other way than the       *)
(* abstract queue allows, for any number of players and requests.          *)
THEOREM QueueIsPlayQueue == Spec => ImplementsPlayQueue
  <1>1. Queued /\ [Next]_vars => Queued'
    BY NextQueues
  <1>2. Queued /\ [Next]_vars => [PlayQueue!Next]_(PlayQueue!vars)
    BY NextQueues, FollowsPlayQueue
  <1>. QED
    BY InitQueues, <1>1, <1>2, PTL DEF Spec, ImplementsPlayQueue, PlayQueue!Spec

-----------------------------------------------------------------------------
(* The mode.  The setting is that of the last request, while nothing fails *)
(* and there is one request at a time.                                     *)
ModeOK ==
    /\ faults \in Nat /\ DOMAIN adm = Admins
    /\ \A a \in Admins : adm[a].pc = "saveMode" => adm[a].mode \in AskedModes
    /\ faults = 0 =>
         /\ \A a \in Admins : adm[a].pc = "saveMode" => adm[a].mode = mode
         /\ (\A a \in Admins : adm[a].pc # "saveMode") => mode = RestoredMode

LEMMA ModeStep ==
    ASSUME \A a, b \in Admins : a = b
    PROVE  ModeOK /\ [Next]_vars => ModeOK'
  <1>. SUFFICES ASSUME ModeOK, [Next]_vars PROVE ModeOK'
    OBVIOUS
  <1>. USE DEF ModeOK
  <1>1. ASSUME UNCHANGED <<mode, dbMode, adm>>, faults' \in {faults, faults + 1}
        PROVE  ModeOK'
    BY <1>1 DEF RestoredMode
  <1>2. CASE UNCHANGED vars
    BY <1>1, <1>2 DEF vars, sched, db
  <1>3. ASSUME NEW p \in Players, PickStart(p) \/ PlayerStep(p) PROVE ModeOK'
    <2>1. UNCHANGED <<mode, dbMode, adm>> /\ faults' \in {faults, faults + 1}
      BY <1>3 DEF PickStart, PlayerStep, DrainPop, DrainGet, DrainDone, TakeSnapshot, PickAuto,
             ShuffleLock, DrawCard, DeckExhausted, ShuffleGivesUp, StartFails, MarkPlaying,
             Saved, Fails, sched, db
    <2>. QED
      BY <1>1, <2>1
  <1>4. ASSUME NEW id \in Ids, LibraryStep(id) PROVE ModeOK'
    <2>1. UNCHANGED <<mode, dbMode, adm>> /\ faults' \in {faults, faults + 1}
      BY <1>4 DEF LibraryStep, InsertRow, MapTrack, DeleteRow, DeleteQueued, UnmapTrack,
             Advance, Fails, sched, db
    <2>. QED
      BY <1>1, <2>1
  <1>5. CASE Restart
    BY <1>5 DEF Restart, IdleAdmin, RestoredMode
  <1>6. ASSUME NEW a \in Admins, AdminStep(a) PROVE ModeOK'
    <2>1. ASSUME NEW i \in 1 .. MaxQueue, Dequeue(i) PROVE ModeOK'
      BY <1>1, <2>1 DEF Dequeue, Saved, Fails
    <2>2. ASSUME NEW i \in 1 .. MaxQueue, NEW j \in 1 .. MaxQueue, NEW id \in Ids,
                 MoveQueueItem(i, j, id)
          PROVE  ModeOK'
      BY <1>1, <2>2 DEF MoveQueueItem, Saved, Fails
    <2>3. ASSUME NEW id \in Ids, EnqueueLookup(a, id) PROVE ModeOK'
      <3>1. /\ UNCHANGED <<mode, dbMode, faults>> /\ DOMAIN adm' = Admins /\ adm[a].pc = "idle"
            /\ \A b \in Admins : b = a /\ adm'[b].pc = "enqueue"
        BY <2>3 DEF EnqueueLookup, IdleAdmin, sched, db
      <3>. QED
        BY <3>1 DEF RestoredMode
    <2>4. CASE Enqueue(a)
      <3>1. /\ UNCHANGED <<mode, dbMode>> /\ DOMAIN adm' = Admins /\ adm[a].pc = "enqueue"
            /\ \A b \in Admins : b = a /\ adm'[b].pc = "idle"
            /\ faults' \in {faults, faults + 1}
        BY <2>4 DEF Enqueue, IdleAdmin, Saved, Fails
      <3>. QED
        BY <3>1 DEF RestoredMode
    <2>5. ASSUME NEW m \in AskedModes, SetMode(a, m) PROVE ModeOK'
      <3>1. /\ mode' = m /\ UNCHANGED <<dbMode, faults>> /\ DOMAIN adm' = Admins
            /\ \A b \in Admins : b = a /\ adm'[b].pc = "saveMode" /\ adm'[b].mode = m
        BY <2>5 DEF SetMode, IdleAdmin, db
      <3>. QED
        BY <1>6, <3>1
    <2>6. CASE SaveMode(a)
      <3>1. /\ UNCHANGED mode /\ DOMAIN adm' = Admins /\ adm[a].pc = "saveMode"
            /\ \A b \in Admins : b = a /\ adm'[b].pc = "idle"
        BY <2>6 DEF SaveMode, IdleAdmin, sched
      <3>2. adm[a].mode # Empty
        BY <3>1, SchedulerAssumption DEF SchedulerAssumption
      <3>3. \/ dbMode' = adm[a].mode /\ faults' = faults
            \/ faults' = faults + 1
        BY <2>6 DEF SaveMode, Fails
      <3>4. faults' = 0 => mode = RestoredMode'
        BY <3>1, <3>2, <3>3 DEF RestoredMode
      <3>. QED
        BY <3>1, <3>3, <3>4
    <2>. QED
      BY <1>6, <2>1, <2>2, <2>3, <2>4, <2>5, <2>6 DEF AdminStep
  <1>. QED
    BY <1>2, <1>3, <1>4, <1>5, <1>6 DEF Next

(* What a restart would restore is what is in force, the queue and, when   *)
(* requests come one at a time and no write has failed, the mode.          *)
THEOREM AlwaysStateDurable ==
    ASSUME \A a, b \in Admins : a = b
    PROVE  Spec => []StateDurable
  <1>1. Init => ModeOK
    BY DEF Init, ModeOK, IdleAdmin, RestoredMode
  <1>2. ModeOK /\ [Next]_vars => ModeOK'
    BY ModeStep
  <1>3. ModeOK => ModeSaved
    BY DEF ModeOK, ModeSaved
  <1>4. Spec => []ModeSaved
    BY <1>1, <1>2, <1>3, PTL DEF Spec
  <1>5. Spec => []QueueDurable
    BY AlwaysQueueDurable
  <1>. QED
    BY <1>4, <1>5, PTL DEF StateDurable
-----------------------------------------------------------------------------
(* Peek.  There is one listing, the order of the paths being total.        *)

LEMMA OneBefore == \A a, b : Before(a, b) => ~Before(b, a)
  <1>. SUFFICES ASSUME NEW a, NEW b, Before(a, b), Before(b, a) PROVE FALSE
    OBVIOUS
  <1>1. PICK i, j \in DOMAIN PathOrder : i < j /\ PathOrder[i] = a /\ PathOrder[j] = b
    BY DEF Before
  <1>2. PICK k, l \in DOMAIN PathOrder : k < l /\ PathOrder[k] = b /\ PathOrder[l] = a
    BY DEF Before
  <1>3. l = i /\ k = j
    BY <1>1, <1>2, SchedulerAssumption DEF SchedulerAssumption
  <1>4. DOMAIN PathOrder \subseteq Nat
    BY SchedulerAssumption DEF SchedulerAssumption
  <1>. QED
    BY <1>1, <1>2, <1>3, <1>4

LEMMA OneListing ==
    ASSUME NEW s \in Listings, NEW t \in Listings
    PROVE  s = t
  <1>. DEFINE Live == {id \in Ids : InLib(id)}  n == Cardinality(Live)
  <1>1. Live \in SUBSET Ids /\ s \in SetToSeqs(Live) /\ t \in SetToSeqs(Live)
    BY DEF Listings
  <1>2. IsFiniteSet(Live) /\ n \in Nat
    BY IdsFinite, FS_Subset, FS_CardinalityType
  <1>3. s \in [1 .. n -> Live] /\ t \in [1 .. n -> Live]
    BY <1>1 DEF SetToSeqs
  <1>4. /\ s \in Seq(Ids) /\ t \in Seq(Ids) /\ Range(s) = Live /\ Range(t) = Live
        /\ \A i, j \in 1 .. Len(s) : s[i] = s[j] => i = j
        /\ \A i, j \in 1 .. Len(t) : t[i] = t[j] => i = j
    BY <1>1, Permutation
  <1>5. Len(s) = n /\ Len(t) = n /\ DOMAIN s = 1 .. n /\ DOMAIN t = 1 .. n
    BY <1>2, <1>3, <1>4
  <1>6. /\ \A i, j \in 1 .. n : i < j => Before(s[i], s[j])
        /\ \A i, j \in 1 .. n : i < j => Before(t[i], t[j])
    BY <1>5 DEF Listings
  <1>. HIDE DEF Live, n
  <1>. DEFINE Differ == {i \in 1 .. n : s[i] # t[i]}
  <1>7. CASE Differ = {}
    <2>1. \A i \in 1 .. n : s[i] = t[i]
      BY <1>7
    <2>. QED
      BY <1>4, <1>5, <2>1, SeqEqual
  <1>8. CASE Differ # {}
    <2>0. Differ \subseteq Nat
      BY <1>2
    <2>1. PICK i \in Differ : \A j \in Differ : i <= j
      <3>. HIDE DEF Differ
      <3>. QED
        BY <1>8, <2>0, Smallest
    <2>2. i \in 1 .. n /\ s[i] # t[i] /\ \A j \in 1 .. n : j < i => s[j] = t[j]
      BY <1>2, <2>1
    <2>3. /\ \A x : x \in Live <=> \E j \in 1 .. n : x = s[j]
          /\ \A x : x \in Live <=> \E j \in 1 .. n : x = t[j]
      BY <1>4, <1>5, Elements
    <2>4. PICK j \in 1 .. n, k \in 1 .. n : t[j] = s[i] /\ s[k] = t[i]
      BY <2>2, <2>3
    <2>5. i < j /\ i < k
      BY <1>2, <1>4, <1>5, <2>2, <2>4
    <2>6. Before(t[i], s[i]) /\ Before(s[i], t[i])
      BY <1>6, <2>2, <2>4, <2>5
    <2>. QED
      BY <2>6, OneBefore
  <1>. QED
    BY <1>7, <1>8

LEMMA SnapshotIs == ASSUME NEW s \in Listings PROVE s = Snapshot
  <1>1. Snapshot \in Listings
    BY Zenon DEF Snapshot
  <1>. QED
    BY <1>1, OneListing

(* What Peek answered is, step by step, what Pick has still to find. *)
Promised(p) == promise[p] # None =>
    /\ pl[p].pc = "drain" => promise[p] = Peek
    /\ pl[p].pc = "popped" => promise[p] = pl[p].id /\ InLib(pl[p].id)
    /\ pl[p].pc = "snapshot" =>
         promise[p] = Peek /\ manual = <<>> /\ pl[p].mode = mode /\ pl[p].cur = current
    /\ pl[p].pc = "auto" => promise[p] = AutoPick(pl[p].mode, pl[p].cur, pl[p].snap)
    /\ pl[p].pc \in {"lock", "draw"} =>
         /\ pl[p].pass = 0 /\ deckPos < Len(deck)
         /\ InLib(deck[deckPos + 1]) /\ promise[p] = deck[deckPos + 1]
    /\ pl[p].pc = "picked" => promise[p] = pl[p].id

Promises == Dealing /\ \A p \in Players : Promised(p)

LEMMA PeekSame ==
    ASSUME UNCHANGED <<track, mode, current, manual, deck, deckPos>>
    PROVE  Peek' = Peek
  <1>1. \A id : InLib(id)' = InLib(id)
    BY DEF InLib
  <1>2. Listings' = Listings
    BY DEF Listings, InLib
  <1>3. Snapshot' = Snapshot
    BY <1>2 DEF Snapshot
  <1>4. AutoPick(mode, current, Snapshot)' = AutoPick(mode, current, Snapshot)
    BY <1>3 DEF AutoPick, InLib, SuccessorIn
  <1>. QED
    BY <1>3, <1>4 DEF Peek, InLib

(* AutoPick, of what it reads. *)
AutoOf(stages, m, cur, tracks) ==
    CASE m = "loop"       -> IF cur # None /\ stages[cur] \in {"live", "rowGone", "queueGone"}
                             THEN cur ELSE tracks[1]
      [] m = "sequential" -> SuccessorIn(tracks, cur)

LEMMA AutoIs ==
    ASSUME NEW p
    PROVE  /\ AutoPick(mode, current, Snapshot) = AutoOf(track, mode, current, Snapshot)
           /\ AutoPick(pl[p].mode, pl[p].cur, pl[p].snap)'
                = AutoOf(track', pl'[p].mode, pl'[p].cur, pl'[p].snap)
  BY Zenon DEF AutoPick, AutoOf, InLib

LEMMA DrainKeeps ==
    ASSUME Promises, NEW p \in Players, Promised(p), promise[p] # None, promise' [p] = promise[p],
           DrainPop(p) \/ DrainGet(p) \/ DrainDone(p)
    PROVE  Promised(p)'
  <1>. DOMAIN pl = Players /\ LocalOK(p)
    BY DEF Promises, Dealing, PlayerOK
  <1>1. CASE DrainPop(p)
    <2>1. promise[p] = Peek /\ manual # <<>>
      BY <1>1 DEF DrainPop, Promised
    <2>2. promise[p] = Head(manual) /\ InLib(Head(manual))
      BY <2>1 DEF Peek
    <2>3. pl'[p].pc = "popped" /\ pl'[p].id = Head(manual) /\ track' = track
      BY <1>1 DEF DrainPop, LocalOK
    <2>. QED
      BY <2>2, <2>3 DEF Promised, InLib
  <1>2. CASE DrainGet(p)
    <2>1. promise[p] = pl[p].id /\ InLib(pl[p].id)
      BY <1>2 DEF DrainGet, Promised
    <2>2. pl'[p].pc = "picked" /\ pl'[p].id = pl[p].id
      BY <1>2, <2>1 DEF DrainGet, Return, IdlePlayer
    <2>. QED
      BY <2>1, <2>2 DEF Promised
  <1>3. CASE DrainDone(p)
    <2>1. promise[p] = Peek /\ manual = <<>>
      BY <1>3 DEF DrainDone, Promised
    <2>2. /\ pl'[p].pc = "snapshot" /\ pl'[p].mode = mode /\ pl'[p].cur = current
          /\ UNCHANGED <<track, mode, current, manual, deck, deckPos>>
      BY <1>3 DEF DrainDone, LocalOK, sched
    <2>3. Peek' = Peek
      BY <2>2, PeekSame
    <2>. QED
      BY <2>1, <2>2, <2>3 DEF Promised
  <1>. QED
    BY <1>1, <1>2, <1>3

LEMMA ListKeeps ==
    ASSUME Promises, NEW p \in Players, Promised(p), promise[p] # None, promise' [p] = promise[p],
           TakeSnapshot(p) \/ PickAuto(p)
    PROVE  Promised(p)'
  <1>. DOMAIN pl = Players /\ LocalOK(p) /\ PassOK(p)
    BY DEF Promises, Dealing, PlayerOK
  <1>1. CASE TakeSnapshot(p)
    <2>1. /\ promise[p] = Peek /\ manual = <<>> /\ pl[p].mode = mode /\ pl[p].cur = current
          /\ pl[p].pass = 0
      BY <1>1 DEF TakeSnapshot, Promised, PassOK
    <2>2. Snapshot # <<>>
      BY <2>1 DEF Peek
    <2>3. /\ pl' = [pl EXCEPT ![p].snap = Snapshot,
                              ![p].pc = IF pl[p].mode = "shuffle" THEN "lock" ELSE "auto"]
          /\ UNCHANGED <<track, deck, deckPos>>
      BY <1>1, <2>2, SnapshotIs DEF TakeSnapshot, sched
    <2>4. CASE mode = "shuffle"
      <3>1. pl'[p].pc = "lock" /\ pl'[p].pass = 0
        BY <2>1, <2>3, <2>4 DEF LocalOK
      <3>2. /\ deckPos < Len(deck) /\ InLib(deck[deckPos + 1])
            /\ promise[p] = deck[deckPos + 1]
        BY <2>1, <2>2, <2>4 DEF Peek
      <3>. QED
        BY <2>3, <3>1, <3>2 DEF Promised, InLib
    <2>5. CASE mode # "shuffle"
      <3>1. /\ pl'[p].pc = "auto" /\ pl'[p].mode = mode /\ pl'[p].cur = current
            /\ pl'[p].snap = Snapshot
        BY <2>1, <2>3, <2>5 DEF LocalOK
      <3>2. promise[p] = AutoPick(mode, current, Snapshot)
        BY <2>1, <2>2, <2>5 DEF Peek
      <3>3. AutoPick(mode, current, Snapshot) = AutoPick(pl[p].mode, pl[p].cur, pl[p].snap)'
        BY <2>3, <3>1, AutoIs, Zenon
      <3>. QED
        BY <3>1, <3>2, <3>3 DEF Promised
    <2>. QED
      BY <2>4, <2>5
  <1>2. CASE PickAuto(p)
    <2>1. pl'[p].pc = "picked" /\ pl'[p].id = AutoPick(pl[p].mode, pl[p].cur, pl[p].snap)
      BY <1>2 DEF PickAuto, Return, IdlePlayer
    <2>. QED
      BY <1>2, <2>1 DEF PickAuto, Promised
  <1>. QED
    BY <1>1, <1>2

LEMMA DeckKeeps ==
    ASSUME Promises, NEW p \in Players, Promised(p), promise[p] # None, promise' [p] = promise[p],
           \/ ShuffleLock(p) \/ DrawCard(p) \/ DeckExhausted(p) \/ ShuffleGivesUp(p)
           \/ StartFails(p) \/ MarkPlaying(p)
    PROVE  Promised(p)'
  <1>. DOMAIN pl = Players /\ LocalOK(p) /\ deckPos \in Nat /\ Len(deck) \in Nat
    BY DEF Promises, Dealing, PlayerOK, DeckOK
  <1>1. CASE ShuffleLock(p)
    <2>1. /\ pl[p].pass = 0 /\ deckPos < Len(deck) /\ InLib(deck[deckPos + 1])
          /\ promise[p] = deck[deckPos + 1]
      BY <1>1 DEF ShuffleLock, Promised
    <2>2. pl'[p].pc = "draw" /\ pl'[p].pass = 0 /\ UNCHANGED <<deck, deckPos, track>>
      BY <1>1, <2>1 DEF ShuffleLock, Goto, LocalOK
    <2>. QED
      BY <2>1, <2>2 DEF Promised, InLib
  <1>2. CASE DrawCard(p)
    <2>1. InLib(deck[deckPos + 1]) /\ promise[p] = deck[deckPos + 1]
      BY <1>2 DEF DrawCard, Promised
    <2>2. pl'[p].pc = "picked" /\ pl'[p].id = deck[deckPos + 1]
      BY <1>2, <2>1 DEF DrawCard, Return, IdlePlayer
    <2>. QED
      BY <2>1, <2>2 DEF Promised
  <1>3. CASE DeckExhausted(p) \/ ShuffleGivesUp(p)
    BY <1>3 DEF DeckExhausted, ShuffleGivesUp, Promised
  <1>4. CASE StartFails(p) \/ MarkPlaying(p)
    <2>1. pl'[p].pc = "idle"
      BY <1>4 DEF StartFails, MarkPlaying, IdlePlayer
    <2>. QED
      BY <2>1 DEF Promised
  <1>. QED
    BY <1>1, <1>2, <1>3, <1>4

LEMMA NextPromises == Promises /\ [Next]_vars => Promises'
  <1>. SUFFICES ASSUME Promises, [Next]_vars PROVE Promises'
    OBVIOUS
  <1>1. Dealing'
    BY NextDeals DEF Promises
  <1>2. CASE UNCHANGED vars
    <2>1. Peek' = Peek
      BY <1>2, PeekSame DEF vars, sched
    <2>2. ASSUME NEW p \in Players PROVE Promised(p)'
      <3>1. AutoPick(pl[p].mode, pl[p].cur, pl[p].snap)' = AutoPick(pl[p].mode, pl[p].cur, pl[p].snap)
        BY <1>2 DEF vars, AutoPick, InLib
      <3>. QED
        BY <1>2, <2>1, <3>1 DEF vars, sched, Promises, Promised, InLib
    <2>. QED
      BY <1>1, <2>2 DEF Promises
  <1>3. CASE NoPromise
    BY <1>1, <1>3 DEF NoPromise, Promises, Promised
  <1>4. ASSUME NEW p \in Players, PickStart(p) PROVE Promises'
    <2>1. /\ pl'[p].pc = "drain" /\ promise'[p] = Peek
          /\ \A q \in Players : q # p => promise'[q] = None
          /\ UNCHANGED <<track, mode, current, manual, deck, deckPos>>
      BY <1>4 DEF PickStart, Goto, Promises, Dealing, PlayerOK, LocalOK, sched
    <2>2. Peek' = Peek
      BY <2>1, PeekSame
    <2>3. Promised(p)'
      BY <2>1, <2>2 DEF Promised
    <2>. QED
      BY <1>1, <2>1, <2>3 DEF Promises, Promised
  <1>5. ASSUME NEW p \in Players, PlayerStep(p) PROVE Promises'
    <2>1. promise'[p] = promise[p] /\ \A q \in Players : q # p => promise'[q] = None
      BY <1>5 DEF PlayerStep
    <2>2. CASE promise[p] # None
      <3>1. Promised(p)'
        BY <1>5, <2>1, <2>2, DrainKeeps, ListKeeps, DeckKeeps DEF PlayerStep, Promises
      <3>. QED
        BY <1>1, <2>1, <3>1 DEF Promises, Promised
    <2>3. CASE promise[p] = None
      BY <1>1, <2>1, <2>3 DEF Promises, Promised
    <2>. QED
      BY <2>2, <2>3
  <1>. QED
    BY <1>2, <1>3, <1>4, <1>5 DEF Next

(* What the admin page shows as up next is what Pick returns, in every     *)
(* mode, unless somebody else takes a step in between.                     *)
THEOREM AlwaysPeekIsNext == Spec => []PeekIsNext
  <1>1. Init => Promises
    BY InitDeals DEF Init, Promises, Promised
  <1>2. Promises => PeekIsNext
    BY DEF Promises, Promised, PeekIsNext
  <1>. QED
    BY <1>1, <1>2, NextPromises, PTL DEF Spec
=============================================================================
