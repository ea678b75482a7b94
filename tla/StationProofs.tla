--------------------------- MODULE StationProofs ---------------------------
(***************************************************************************)
(* Proofs about the hub, the HLS supervisor and the whole process, each    *)
(* built on the one before.                                                *)
(*                                                                         *)
(* The hub: for every number of subscribers, every channel depth, cap and  *)
(* burst, and any number of goroutines calling Close, up to the refinement *)
(* of Broadcast.                                                           *)
(*                                                                         *)
(* The supervisor, for any number of restarts of ffmpeg: its steps are     *)
(* steps of the hub, so that all that is proved of the hub holds with it,  *)
(* and no chunk is segmented twice.                                        *)
(*                                                                         *)
(* The process: with main, which decides when the context ends and when    *)
(* the hub is closed, the supervisor still is that of HLS, so that all of  *)
(* this holds of the station; and the shutdown closes the hub in order.    *)
(***************************************************************************)
EXTENDS Station, TLAPS, FiniteSetTheorems, SequenceTheorems

-----------------------------------------------------------------------------
(* The hub. *)

(* Every step is one of these; each proof below has one case per disjunct. *)
LEMMA NextCases ==
    ASSUME Next
    PROVE  /\ ~panicked
           /\ \/ Write
              \/ \E s \in Subs : Subscribe(s)
              \/ \E s \in Subs : Refuse(s)
              \/ \E s \in Subs : Receive(s)
              \/ \E s \in Subs : WriteFails(s)
              \/ \E s \in Subs : FeederStops(s)
              \/ \E s \in Subs : Drained(s)
              \/ \E a \in Closers : Close(a)
              \/ \E a \in Actors, s \in Subs : Unsubscribe(a, s)
              \/ \E a \in Actors, s \in Subs : CloseChan(a, s)
  BY DEF Next, OwnerStep, Cleanup

-----------------------------------------------------------------------------
(* The first pieces of a channel: at most one, a well-formed one. *)
LEMMA FirstPiecesType ==
    ASSUME pos \in Nat, NEW s \in Subs
    PROVE  FirstPieces(s) \in Seq(Piece)
  <1>1. BurstLo \in Nat \ {0}
    BY HubAssumption DEF BurstLo, HubAssumption
  <1>2. pos # 0 => [lo |-> BurstLo, hi |-> pos] \in Piece
    BY <1>1 DEF Piece
  <1>. QED
    BY <1>2 DEF FirstPieces, Burst

LEMMA TypeInit == Init => TypeOK
  <1>. SUFFICES ASSUME Init PROVE TypeOK
    OBVIOUS
  <1>1. sent \in [Subs -> Seq(Piece)]
    BY DEF Init
  <1>2. pos \in 0..MaxWrites
    BY HubAssumption DEF Init, HubAssumption
  <1>. QED
    <2>1. closed \in BOOLEAN /\ panicked \in BOOLEAN
      BY DEF Init
    <2>2. /\ todo \in [Actors -> SUBSET Subs] /\ shut \in [Actors -> SUBSET Subs]
          /\ chan \in [Subs -> {"none", "open", "closed"}]
          /\ owner \in [Subs -> {"new", "refused", "serving", "left"}]
          /\ rcvd \in [Subs -> Nat] /\ joinedAt \in [Subs -> Nat]
          /\ subs \in SUBSET Subs /\ clients \in Int
      BY DEF Init
    <2>. QED
      BY <1>1, <1>2, <2>1, <2>2 DEF TypeOK

LEMMA TypeStep == TypeOK /\ [Next]_vars => TypeOK'
  <1>. SUFFICES ASSUME TypeOK, [Next]_vars PROVE TypeOK'
    OBVIOUS
  <1>. USE HubAssumption DEF HubAssumption
  <1>1. CASE Write
    <2>1. pos' \in 0..MaxWrites /\ [lo |-> pos + 1, hi |-> pos + 1] \in Piece
      BY <1>1 DEF Write, TypeOK, Piece
    <2>2. \A s \in Subs : sent'[s] \in Seq(Piece)
      BY <1>1, <2>1 DEF Write, FanOut, TypeOK
    <2>3. sent' \in [Subs -> Seq(Piece)]
      BY <1>1, <2>2 DEF Write, FanOut
    <2>4. todo' \in [Actors -> SUBSET Subs]
      BY <1>1 DEF Write, FanOut, TypeOK
    <2>. QED
      BY <1>1, <2>1, <2>2, <2>3, <2>4 DEF Write, TypeOK
  <1>2. ASSUME NEW s \in Subs, Subscribe(s) PROVE TypeOK'
    <2>1. FirstPieces(s) \in Seq(Piece)
      BY FirstPiecesType DEF TypeOK
    <2>2. sent' \in [Subs -> Seq(Piece)]
      BY <1>2, <2>1 DEF Subscribe, TypeOK
    <2>. QED
      BY <1>2, <2>1, <2>2 DEF Subscribe, TypeOK
  <1>3. ASSUME NEW s \in Subs, Refuse(s) PROVE TypeOK'
    BY <1>3 DEF Refuse, TypeOK, chanVars
  <1>4. ASSUME NEW s \in Subs, Receive(s) PROVE TypeOK'
    BY <1>4 DEF Receive, TypeOK
  <1>5. ASSUME NEW s \in Subs, WriteFails(s) PROVE TypeOK'
    BY <1>5 DEF WriteFails, Leaving, TypeOK, Actors
  <1>6. ASSUME NEW s \in Subs, FeederStops(s) PROVE TypeOK'
    BY <1>6 DEF FeederStops, Leaving, TypeOK, Actors
  <1>7. ASSUME NEW s \in Subs, Drained(s) PROVE TypeOK'
    BY <1>7 DEF Drained, Leaving, TypeOK, Actors
  <1>8. ASSUME NEW a \in Closers, Close(a) PROVE TypeOK'
    BY <1>8 DEF Close, TypeOK, Actors, chanVars
  <1>9. ASSUME NEW a \in Actors, NEW s \in Subs, Unsubscribe(a, s) PROVE TypeOK'
    <2>1. CASE s \in subs
      <3>1. subs' \in SUBSET Subs
        BY <1>9, <2>1 DEF Unsubscribe, TypeOK
      <3>2. clients' \in Int
        <4>1. clients' = IF s \in Clients THEN clients - 1 ELSE clients
          BY <1>9, <2>1 DEF Unsubscribe
        <4>. QED
          BY <4>1 DEF TypeOK
      <3>3. shut' \in [Actors -> SUBSET Subs]
        <4>1. shut' = [shut EXCEPT ![a] = {s}] /\ {s} \in SUBSET Subs
          BY <1>9, <2>1 DEF Unsubscribe
        <4>. QED
          BY <4>1 DEF TypeOK
      <3>4. todo' \in [Actors -> SUBSET Subs]
        BY <1>9 DEF Unsubscribe, TypeOK
      <3>. QED
        BY <1>9, <3>1, <3>2, <3>3, <3>4 DEF Unsubscribe, TypeOK, chanVars
    <2>2. CASE s \notin subs
      BY <1>9, <2>2 DEF Unsubscribe, TypeOK, chanVars
    <2>. QED
      BY <2>1, <2>2
  <1>10. ASSUME NEW a \in Actors, NEW s \in Subs, CloseChan(a, s) PROVE TypeOK'
    BY <1>10 DEF CloseChan, TypeOK
  <1>11. CASE UNCHANGED vars
    BY <1>11 DEF vars, chanVars, TypeOK
  <1>. QED
    BY NextCases, <1>1, <1>2, <1>3, <1>4, <1>5, <1>6, <1>7, <1>8, <1>9, <1>10, <1>11

(* The variables of the hub keep their types. *)
THEOREM TypeCorrect == Spec => []TypeOK
  <1>. QED
    BY TypeInit, TypeStep, PTL DEF Spec

-----------------------------------------------------------------------------
(***************************************************************************)
(* Who closes what.  NoPanic and OneCloser are not inductive: that a close *)
(* never hits a closed channel rests on the hand-over of each channel from *)
(* the map to the list (shut) of the one goroutine that removed it.        *)
(***************************************************************************)
SubsOpen == \A s \in subs : chan[s] = "open"

Unborn == \A s \in Subs : owner[s] \in {"new", "refused"} <=> chan[s] = "none"

(* A goroutine that calls Close never unsubscribes, and closes only once. *)
CloserIdle == \A a \in Closers : /\ todo[a] = {}
                                 /\ ~closed => shut[a] = {}

ShutOpen == \A a \in Actors : \A s \in shut[a] : chan[s] = "open" /\ s \notin subs

ShutApart == \A a, b \in Actors : a # b => shut[a] \intersect shut[b] = {}

OpenIsHeld == \A s \in Subs : (chan[s] = "open" /\ s \notin subs)
                                 => \E a \in Actors : s \in shut[a]

Handover == /\ SubsOpen /\ Unborn /\ CloserIdle
            /\ ShutOpen /\ ShutApart /\ OpenIsHeld
            /\ ClosedIsEmpty /\ NoPanic

LEMMA HandoverInit == Init => Handover
  BY DEF Init, Handover, SubsOpen, Unborn, CloserIdle, ShutOpen, ShutApart,
         OpenIsHeld, ClosedIsEmpty, NoPanic, Actors

LEMMA HandoverWrite == ASSUME TypeOK, Handover, Write PROVE Handover'
  <1>1. todo'[Pump] = {s \in subs : ~HasRoom(s)}
        /\ \A a \in Closers : todo'[a] = todo[a]
    BY HubAssumption DEF Write, FanOut, TypeOK, Actors, HubAssumption
  <1>2. NoPanic'
    BY DEF Handover, SubsOpen, NoPanic, Write
  <1>. QED
    BY <1>1, <1>2 DEF Write, Handover, SubsOpen, Unborn, CloserIdle, ShutOpen,
                      ShutApart, OpenIsHeld, ClosedIsEmpty

LEMMA HandoverSubscribe ==
    ASSUME TypeOK, Handover, NEW s \in Subs, Subscribe(s)
    PROVE  Handover'
  <1>1. s \notin subs /\ \A a \in Actors : s \notin shut[a]
    BY DEF Subscribe, Handover, Unborn, SubsOpen, ShutOpen
  <1>2. SubsOpen' /\ Unborn'
    BY DEF Subscribe, Handover, SubsOpen, Unborn, TypeOK
  <1>3. ShutOpen' /\ ShutApart' /\ CloserIdle'
    BY <1>1 DEF Subscribe, Handover, ShutOpen, ShutApart, CloserIdle, TypeOK
  <1>4. OpenIsHeld'
    BY DEF Subscribe, Handover, OpenIsHeld, TypeOK
  <1>5. ClosedIsEmpty' /\ NoPanic'
    BY DEF Subscribe, Handover, ClosedIsEmpty, NoPanic
  <1>. QED
    BY <1>2, <1>3, <1>4, <1>5 DEF Handover

LEMMA HandoverLeaving ==
    ASSUME TypeOK, Handover, NEW s \in Subs, owner[s] = "serving", Leaving(s)
    PROVE  Handover'
  <1>1. CloserIdle'
    BY HubAssumption DEF Leaving, Handover, CloserIdle, TypeOK, Actors, HubAssumption
  <1>2. Unborn'
    BY DEF Leaving, Handover, Unborn, TypeOK
  <1>. QED
    BY <1>1, <1>2 DEF Leaving, Handover, SubsOpen, ShutOpen, ShutApart,
                      OpenIsHeld, ClosedIsEmpty, NoPanic

LEMMA HandoverUnsubscribe ==
    ASSUME TypeOK, Handover, NEW a \in Actors, NEW s \in Subs, Unsubscribe(a, s)
    PROVE  Handover'
  <1>1. a \notin Closers
    <2>1. s \in todo[a]
      BY DEF Unsubscribe
    <2>2. \A b \in Closers : todo[b] = {}
      BY DEF Handover, CloserIdle
    <2>. QED
      BY <2>1, <2>2
  <1>2. Unborn' /\ NoPanic' /\ UNCHANGED <<closed, chan>>
    BY DEF Unsubscribe, Handover, Unborn, NoPanic, chanVars
  <1>3. \A b \in Closers : todo'[b] = todo[b] /\ shut'[b] = shut[b]
    BY <1>1 DEF Unsubscribe, TypeOK, Actors
  <1>4. CloserIdle'
    BY <1>2, <1>3 DEF Handover, CloserIdle
  <1>5. CASE s \in subs
    <2>1. /\ subs' = subs \ {s}
          /\ shut' = [shut EXCEPT ![a] = {s}]
          /\ shut[a] = {}
          /\ ~closed /\ chan[s] = "open"
          /\ \A b \in Actors : s \notin shut[b]
      BY <1>5 DEF Unsubscribe, Handover, SubsOpen, ShutOpen, ClosedIsEmpty
    <2>2. \A b \in Actors : shut'[b] = IF b = a THEN {s} ELSE shut[b]
      BY <2>1 DEF TypeOK
    <2>3. SubsOpen' /\ ShutOpen' /\ ShutApart'
      BY <1>2, <2>1, <2>2 DEF Handover, SubsOpen, ShutOpen, ShutApart
    <2>4. OpenIsHeld'
      BY <1>2, <2>1, <2>2 DEF Handover, OpenIsHeld
    <2>5. ClosedIsEmpty'
      BY <1>2, <2>1 DEF ClosedIsEmpty
    <2>. QED
      BY <1>2, <1>4, <2>3, <2>4, <2>5 DEF Handover
  <1>6. CASE s \notin subs
    <2>1. UNCHANGED <<closed, chan, subs, clients, shut>>
      BY <1>2, <1>6 DEF Unsubscribe
    <2>. QED
      BY <1>2, <1>4, <2>1 DEF Handover, SubsOpen, ShutOpen, ShutApart,
                              OpenIsHeld, ClosedIsEmpty
  <1>. QED
    BY <1>5, <1>6

LEMMA HandoverCloseChan ==
    ASSUME TypeOK, Handover, NEW a \in Actors, NEW s \in Subs, CloseChan(a, s)
    PROVE  Handover'
  <1>1. /\ chan[s] = "open" /\ s \notin subs
        /\ \A b \in Actors : b # a => s \notin shut[b]
    BY DEF CloseChan, Handover, ShutOpen, ShutApart
  <1>2. /\ \A b \in Actors : shut'[b] = IF b = a THEN shut[a] \ {s} ELSE shut[b]
        /\ \A t \in Subs : chan'[t] = IF t = s THEN "closed" ELSE chan[t]
    BY DEF CloseChan, TypeOK
  <1>3. UNCHANGED <<closed, subs, clients, owner, todo>>
    BY DEF CloseChan
  <1>4. NoPanic'
    BY <1>1 DEF CloseChan, NoPanic
  <1>5. SubsOpen' /\ Unborn' /\ ClosedIsEmpty'
    BY <1>1, <1>2, <1>3 DEF Handover, SubsOpen, Unborn, ClosedIsEmpty, TypeOK
  <1>6. ShutApart'
    BY <1>2 DEF Handover, ShutApart
  <1>9. ShutOpen'
    BY <1>1, <1>2, <1>3 DEF Handover, ShutOpen, TypeOK
  <1>8. OpenIsHeld'
    <2>. SUFFICES ASSUME NEW t \in Subs, chan'[t] = "open", t \notin subs
                  PROVE  \E b \in Actors : t \in shut'[b]
      BY <1>3 DEF OpenIsHeld
    <2>1. t # s /\ chan[t] = "open"
      BY <1>2
    <2>. QED
      BY <1>2, <2>1 DEF Handover, OpenIsHeld
  <1>7. CloserIdle'
    BY <1>2, <1>3 DEF Handover, CloserIdle, Actors
  <1>. QED
    BY <1>4, <1>5, <1>6, <1>7, <1>8, <1>9 DEF Handover

LEMMA HandoverClose ==
    ASSUME TypeOK, Handover, NEW a \in Closers, Close(a)
    PROVE  Handover'
  <1>1. /\ subs' = {} /\ closed' = TRUE /\ clients' = 0
        /\ UNCHANGED <<chan, owner, todo, panicked>>
    BY DEF Close, chanVars
  <1>6. a \in Actors /\ shut[a] = {}
    BY DEF Close, Handover, CloserIdle, Actors
  <1>2. \A b \in Actors : shut'[b] = IF b = a THEN subs ELSE shut[b]
    BY <1>6 DEF Close, TypeOK
  <1>3. SubsOpen' /\ Unborn' /\ CloserIdle' /\ ClosedIsEmpty' /\ NoPanic'
    BY <1>1 DEF Handover, SubsOpen, Unborn, CloserIdle, ClosedIsEmpty, NoPanic
  <1>4. ShutOpen' /\ ShutApart'
    BY <1>1, <1>2, <1>6 DEF Handover, SubsOpen, ShutOpen, ShutApart
  <1>5. OpenIsHeld'
    BY <1>1, <1>2, <1>6 DEF Handover, OpenIsHeld
  <1>. QED
    BY <1>3, <1>4, <1>5 DEF Handover

LEMMA HandoverStep == TypeOK /\ Handover /\ [Next]_vars => Handover'
  <1>. SUFFICES ASSUME TypeOK, Handover, [Next]_vars PROVE Handover'
    OBVIOUS
  <1>1. CASE Write
    BY <1>1, HandoverWrite
  <1>2. ASSUME NEW s \in Subs, Subscribe(s) PROVE Handover'
    BY <1>2, HandoverSubscribe
  <1>3. ASSUME NEW s \in Subs, Refuse(s) PROVE Handover'
    <2>1. Unborn'
      BY <1>3 DEF Refuse, Handover, Unborn, TypeOK, chanVars
    <2>. QED
      BY <1>3, <2>1 DEF Refuse, Handover, SubsOpen, CloserIdle, ShutOpen, ShutApart,
                        OpenIsHeld, ClosedIsEmpty, NoPanic, chanVars
  <1>4. ASSUME NEW s \in Subs, Receive(s) PROVE Handover'
    BY <1>4 DEF Receive, Handover, SubsOpen, Unborn, CloserIdle, ShutOpen, ShutApart,
                OpenIsHeld, ClosedIsEmpty, NoPanic
  <1>5. ASSUME NEW s \in Subs, WriteFails(s) PROVE Handover'
    BY <1>5, HandoverLeaving DEF WriteFails
  <1>6. ASSUME NEW s \in Subs, FeederStops(s) PROVE Handover'
    BY <1>6, HandoverLeaving DEF FeederStops
  <1>7. ASSUME NEW s \in Subs, Drained(s) PROVE Handover'
    BY <1>7, HandoverLeaving DEF Drained
  <1>8. ASSUME NEW a \in Closers, Close(a) PROVE Handover'
    BY <1>8, HandoverClose
  <1>9. ASSUME NEW a \in Actors, NEW s \in Subs, Unsubscribe(a, s) PROVE Handover'
    BY <1>9, HandoverUnsubscribe
  <1>10. ASSUME NEW a \in Actors, NEW s \in Subs, CloseChan(a, s) PROVE Handover'
    BY <1>10, HandoverCloseChan
  <1>11. CASE UNCHANGED vars
    BY <1>11 DEF vars, chanVars, Handover, SubsOpen, Unborn, CloserIdle, ShutOpen,
                 ShutApart, OpenIsHeld, ClosedIsEmpty, NoPanic
  <1>. QED
    BY NextCases, <1>1, <1>2, <1>3, <1>4, <1>5, <1>6, <1>7, <1>8, <1>9, <1>10, <1>11

LEMMA HandoverAlways == Spec => [](TypeOK /\ Handover)
  BY TypeInit, TypeStep, HandoverInit, HandoverStep, PTL DEF Spec

(* No channel is closed twice and nothing is sent on a closed one. *)
THEOREM NeverPanics == Spec => []NoPanic
  <1>1. Handover => NoPanic
    BY DEF Handover
  <1>. QED
    BY <1>1, HandoverAlways, PTL

(* A closed hub has no subscriber, and gets none; a channel taken out of   *)
(* the map is on the list of exactly one goroutine.                        *)
THEOREM AlwaysNobodyStranded == Spec => []NobodyStranded
  <1>1. TypeOK /\ Handover => OneCloser
    <2>. SUFFICES ASSUME TypeOK, Handover, NEW s \in Subs, chan[s] = "open", s \notin subs
                  PROVE  \E a \in Actors : s \in shut[a] /\ \A b \in Actors \ {a} : s \notin shut[b]
      BY DEF OneCloser
    <2>1. PICK a \in Actors : s \in shut[a]
      BY DEF Handover, OpenIsHeld
    <2>. QED
      BY <2>1 DEF Handover, ShutApart
  <1>2. Handover => ClosedIsEmpty
    BY DEF Handover
  <1>. QED
    BY <1>1, <1>2, HandoverAlways, PTL DEF NobodyStranded

-----------------------------------------------------------------------------
(***************************************************************************)
(* What is sent.  The three stream properties are inductive together: a    *)
(* Write extends a log that ends at the live edge (LiveEdge), which keeps  *)
(* it gap-free and makes a first piece start at the edge.                  *)
(***************************************************************************)
Fresh == \A s \in Subs : chan[s] = "none" => sent[s] = <<>> /\ rcvd[s] = 0

RcvdSent == \A s \in Subs : rcvd[s] <= Len(sent[s])

Stream == Fresh /\ RcvdSent /\ GapFree /\ StartsAtEdge /\ LiveEdge

LEMMA StreamInit == Init => Stream
  <1>. SUFFICES ASSUME Init PROVE Stream
    OBVIOUS
  <1>1. \A s \in Subs : sent[s] = <<>> /\ Len(sent[s]) = 0 /\ rcvd[s] = 0
    BY DEF Init
  <1>2. subs = {}
    BY DEF Init
  <1>. QED
    BY <1>1, <1>2 DEF Stream, Fresh, RcvdSent, GapFree, StartsAtEdge, LiveEdge

(* The first pieces of a channel end at the live edge. *)
LEMMA FirstPiecesEdge ==
    ASSUME TypeOK, NEW s \in Subs
    PROVE  \/ FirstPieces(s) = <<>>
           \/ \E lo \in Nat : /\ FirstPieces(s) = << [lo |-> lo, hi |-> pos] >>
                               /\ s \in Clients
                               /\ lo <= pos /\ lo > pos - BurstLen
  <1>1. CASE s \in Clients /\ BurstLen # 0 /\ pos # 0
    <2>1. BurstLo \in Nat /\ BurstLo <= pos /\ BurstLo > pos - BurstLen
      BY <1>1, HubAssumption DEF BurstLo, TypeOK, HubAssumption
    <2>2. FirstPieces(s) = << [lo |-> BurstLo, hi |-> pos] >>
      BY <1>1 DEF FirstPieces, Burst
    <2>. QED
      BY <1>1, <2>1, <2>2
  <1>2. CASE ~(s \in Clients /\ BurstLen # 0 /\ pos # 0)
    BY <1>2 DEF FirstPieces, Burst
  <1>. QED
    BY <1>1, <1>2

LEMMA StreamWrite == ASSUME TypeOK, Handover, Stream, Write PROVE Stream'
  <1>. DEFINE piece == [lo |-> pos + 1, hi |-> pos + 1]
  <1>0. /\ pos \in Nat /\ pos' = pos + 1 /\ todo[Pump] = {} /\ Pump \in Actors
        /\ UNCHANGED <<subs, chan, rcvd, joinedAt>>
    BY HubAssumption DEF Write, TypeOK, Actors, HubAssumption
  <1>1. /\ \A s \in Subs : sent'[s] = IF s \in subs /\ HasRoom(s) THEN Append(sent[s], piece)
                                                              ELSE sent[s]
        /\ todo'[Pump] = {s \in subs : ~HasRoom(s)}
    BY <1>0 DEF Write, FanOut, TypeOK
  <1>2. \A s \in Subs : sent[s] \in Seq(Piece) /\ joinedAt[s] \in Nat /\ rcvd[s] \in Nat
    BY DEF TypeOK
  <1>3. ASSUME NEW s \in Subs, s \in subs, HasRoom(s)
        PROVE  /\ Len(sent'[s]) = Len(sent[s]) + 1
               /\ sent'[s][Len(sent'[s])] = piece
               /\ \A i \in 1 .. Len(sent[s]) : sent'[s][i] = sent[s][i]
               /\ sent[s] # <<>> => Len(sent[s]) \in 1 .. Len(sent[s])
    <2>1. sent'[s] = Append(sent[s], piece) /\ sent[s] \in Seq(Piece)
      BY <1>1, <1>2, <1>3
    <2>. QED
      BY <2>1
  <1>4. \A s \in Subs : ~(s \in subs /\ HasRoom(s)) => sent'[s] = sent[s]
    BY <1>1
  <1>5. \A s \in subs : s \in Subs /\ s \notin todo[Pump]
    BY <1>0 DEF TypeOK
  <1>6. GapFree'
    <2>. SUFFICES ASSUME NEW s \in Subs, NEW i \in 1 .. Len(sent'[s]) - 1
                  PROVE  sent'[s][i + 1].lo = sent'[s][i].hi + 1
      BY DEF GapFree
    <2>1. CASE s \in subs /\ HasRoom(s)
      <3>1. CASE i = Len(sent[s])
        <4>1. sent[s] # <<>> /\ sent'[s][i] = sent[s][i] /\ sent'[s][i + 1] = piece
          BY <1>2, <1>3, <2>1, <3>1
        <4>2. sent[s][i].hi = pos
          BY <1>5, <2>1, <3>1, <4>1 DEF Stream, LiveEdge
        <4>. QED
          BY <4>1, <4>2, <1>0
      <3>2. CASE i # Len(sent[s])
        <4>1. i \in 1 .. Len(sent[s]) - 1 /\ i + 1 \in 1 .. Len(sent[s])
          BY <1>2, <1>3, <2>1, <3>2
        <4>2. sent'[s][i] = sent[s][i] /\ sent'[s][i + 1] = sent[s][i + 1]
          BY <1>2, <1>3, <2>1, <4>1
        <4>. QED
          BY <4>1, <4>2 DEF Stream, GapFree
      <3>. QED
        BY <3>1, <3>2
    <2>2. CASE ~(s \in subs /\ HasRoom(s))
      BY <1>4, <2>2 DEF Stream, GapFree
    <2>. QED
      BY <2>1, <2>2
  <1>7. StartsAtEdge'
    <2>. SUFFICES ASSUME NEW s \in Subs, sent'[s] # <<>>
                  PROVE  /\ sent'[s][1].lo <= joinedAt[s] + 1
                         /\ sent'[s][1].lo > joinedAt[s] - (IF s \in Clients THEN BurstLen ELSE 0)
      BY <1>0 DEF StartsAtEdge
    <2>1. CASE s \in subs /\ HasRoom(s) /\ sent[s] = <<>>
      <3>1. sent'[s][1].lo = pos + 1
        BY <1>3, <2>1
      <3>2. joinedAt[s] = pos
        BY <1>5, <2>1 DEF Stream, LiveEdge
      <3>. QED
        BY <1>0, <3>1, <3>2, HubAssumption DEF HubAssumption
    <2>2. CASE s \in subs /\ HasRoom(s) /\ sent[s] # <<>>
      <3>1. sent'[s][1] = sent[s][1]
        BY <1>2, <1>3, <2>2
      <3>. QED
        BY <2>2, <3>1 DEF Stream, StartsAtEdge
    <2>3. CASE ~(s \in subs /\ HasRoom(s))
      BY <1>4, <2>3 DEF Stream, StartsAtEdge
    <2>. QED
      BY <2>1, <2>2, <2>3
  <1>8. LiveEdge'
    <2>. SUFFICES ASSUME NEW s \in subs, HasRoom(s)
                  PROVE  /\ sent'[s] # <<>> => sent'[s][Len(sent'[s])].hi = pos + 1
                         /\ sent'[s] = <<>> => joinedAt[s] = pos + 1
                         /\ Len(sent'[s]) - rcvd[s] <= Cap
      BY <1>0, <1>1 DEF LiveEdge
    <2>1. sent'[s] # <<>> /\ sent'[s][Len(sent'[s])] = piece
      BY <1>2, <1>3, <1>5
    <2>2. Len(sent'[s]) - rcvd[s] <= Cap
      BY <1>2, <1>3, <1>5, HubAssumption DEF HasRoom, HubAssumption
    <2>. QED
      BY <2>1, <2>2
  <1>9. Fresh' /\ RcvdSent'
    <2>1. RcvdSent'
      BY <1>0, <1>2, <1>3, <1>4 DEF Stream, RcvdSent
    <2>2. Fresh'
      BY <1>0, <1>4 DEF Stream, Fresh, Handover, SubsOpen
    <2>. QED
      BY <2>1, <2>2
  <1>. QED
    BY <1>6, <1>7, <1>8, <1>9 DEF Stream
LEMMA StreamSubscribe ==
    ASSUME TypeOK, Handover, Stream, NEW s \in Subs, Subscribe(s)
    PROVE  Stream'
  <1>1. /\ \A t \in Subs : /\ sent'[t] = IF t = s THEN FirstPieces(s) ELSE sent[t]
                           /\ chan'[t] = IF t = s THEN "open" ELSE chan[t]
                           /\ joinedAt'[t] = IF t = s THEN pos ELSE joinedAt[t]
        /\ subs' = subs \union {s}
        /\ UNCHANGED <<pos, rcvd, todo>>
        /\ chan[s] = "none"
    BY DEF Subscribe, TypeOK, Handover, Unborn
  <1>2. rcvd[s] = 0 /\ pos \in Nat
    BY <1>1 DEF Stream, Fresh, TypeOK
  <1>3. /\ Len(sent'[s]) \in {0, 1}
        /\ sent'[s] # <<>> => /\ Len(sent'[s]) = 1
                              /\ sent'[s][1].hi = pos
                              /\ s \in Clients
                              /\ sent'[s][1].lo <= pos /\ sent'[s][1].lo > pos - BurstLen
    <2>1. CASE FirstPieces(s) = <<>>
      BY <1>1, <2>1
    <2>2. ASSUME NEW lo \in Nat, FirstPieces(s) = << [lo |-> lo, hi |-> pos] >>,
                 s \in Clients, lo <= pos, lo > pos - BurstLen
          PROVE  <1>3!1 /\ <1>3!2
      BY <1>1, <2>2
    <2>. QED
      BY <2>1, <2>2, FirstPiecesEdge
  <1>4. Fresh' /\ RcvdSent'
    BY <1>1, <1>2, <1>3 DEF Stream, Fresh, RcvdSent
  <1>5. GapFree'
    BY <1>1, <1>3 DEF Stream, GapFree
  <1>6. StartsAtEdge'
    <2>. SUFFICES ASSUME NEW t \in Subs, sent'[t] # <<>>
                  PROVE  /\ sent'[t][1].lo <= joinedAt'[t] + 1
                         /\ sent'[t][1].lo > joinedAt'[t] - (IF t \in Clients THEN BurstLen ELSE 0)
      BY DEF StartsAtEdge
    <2>1. CASE t = s
      <3>1. s \in Clients /\ sent'[s][1].lo <= pos /\ sent'[s][1].lo > pos - BurstLen /\ joinedAt'[s] = pos
        BY <1>1, <1>3, <2>1
      <3>2. sent'[s] \in Seq(Piece)
        BY <1>1, FirstPiecesType DEF TypeOK
      <3>3. sent'[s][1].lo \in Nat
        <4>1. sent'[s][1] \in Piece
          BY <1>3, <2>1, <3>2
        <4>. QED
          BY <4>1 DEF Piece
      <3>. QED
        BY <1>2, <2>1, <3>1, <3>3
    <2>2. CASE t # s
      BY <1>1, <2>2 DEF Stream, StartsAtEdge
    <2>. QED
      BY <2>1, <2>2
  <1>7. LiveEdge'
    <2>. SUFFICES ASSUME NEW t \in subs' \ todo'[Pump]
                  PROVE  /\ sent'[t] # <<>> => sent'[t][Len(sent'[t])].hi = pos
                         /\ sent'[t] = <<>> => joinedAt'[t] = pos
                         /\ Len(sent'[t]) - rcvd[t] <= Cap
      BY <1>1 DEF LiveEdge
    <2>1. CASE t = s
      <3>1. sent'[s] # <<>> => sent'[s][Len(sent'[s])].hi = pos
        BY <1>3
      <3>2. joinedAt'[s] = pos
        BY <1>1
      <3>3. Len(sent'[s]) - rcvd[s] <= Cap
        <4>1. \A n \in {0, 1} : n - 0 <= Cap
          BY HubAssumption DEF HubAssumption
        <4>. QED
          BY <1>2, <1>3, <4>1
      <3>. QED
        BY <2>1, <3>1, <3>2, <3>3
    <2>2. CASE t # s
      BY <1>1, <2>2 DEF Stream, LiveEdge, TypeOK
    <2>. QED
      BY <2>1, <2>2
  <1>. QED
    BY <1>4, <1>5, <1>6, <1>7 DEF Stream

(* Steps that send nothing, add nobody and let no one escape the pump's    *)
(* list of dropped subscribers preserve the stream properties.             *)
LEMMA StreamQuiet ==
    ASSUME TypeOK, Stream, UNCHANGED <<pos, sent, joinedAt>>,
           \A s \in Subs : /\ chan'[s] = "none" => chan[s] = "none"
                           /\ rcvd'[s] \in Nat
                           /\ rcvd'[s] = rcvd[s] \/ (chan[s] # "none" /\ rcvd'[s] = rcvd[s] + 1)
                           /\ rcvd'[s] <= Len(sent[s]),
           subs' \ todo'[Pump] \subseteq subs \ todo[Pump]
    PROVE  Stream'
  <1>1. GapFree' /\ StartsAtEdge'
    BY DEF Stream, GapFree, StartsAtEdge
  <1>2. Fresh' /\ RcvdSent'
    BY DEF Stream, Fresh, RcvdSent
  <1>3. LiveEdge'
    <2>. SUFFICES ASSUME NEW s \in subs \ todo[Pump]
                  PROVE  /\ sent[s] # <<>> => sent[s][Len(sent[s])].hi = pos
                         /\ sent[s] = <<>> => joinedAt[s] = pos
                         /\ Len(sent[s]) - rcvd'[s] <= Cap
      BY DEF LiveEdge
    <2>1. s \in Subs /\ sent[s] \in Seq(Piece) /\ rcvd[s] \in Nat
      BY DEF TypeOK
    <2>2. rcvd'[s] = rcvd[s] \/ rcvd'[s] = rcvd[s] + 1
      BY <2>1
    <2>3. Len(sent[s]) \in Nat /\ Len(sent[s]) - rcvd[s] <= Cap
      BY <2>1 DEF Stream, LiveEdge
    <2>4. Len(sent[s]) - rcvd'[s] <= Cap
      BY <2>1, <2>2, <2>3, HubAssumption DEF HubAssumption
    <2>. QED
      BY <2>4 DEF Stream, LiveEdge
  <1>. QED
    BY <1>1, <1>2, <1>3 DEF Stream
LEMMA StreamStep == TypeOK /\ Handover /\ Stream /\ [Next]_vars => Stream'
  <1>. SUFFICES ASSUME TypeOK, Handover, Stream, [Next]_vars PROVE Stream'
    OBVIOUS
  <1>0. \A s \in Subs : rcvd[s] \in Nat /\ rcvd[s] <= Len(sent[s])
    BY DEF TypeOK, Stream, RcvdSent
  <1>1. CASE Write
    BY <1>1, StreamWrite
  <1>2. ASSUME NEW s \in Subs, Subscribe(s) PROVE Stream'
    BY <1>2, StreamSubscribe
  <1>3. ASSUME NEW s \in Subs, Refuse(s) PROVE Stream'
    BY <1>0, <1>3, StreamQuiet DEF Refuse, chanVars
  <1>4. ASSUME NEW s \in Subs, Receive(s) PROVE Stream'
    <2>1. chan[s] # "none" /\ sent[s] \in Seq(Piece)
      BY <1>4 DEF Receive, Handover, Unborn, TypeOK
    <2>2. \A t \in Subs : rcvd'[t] = IF t = s THEN rcvd[s] + 1 ELSE rcvd[t]
      BY <1>4 DEF Receive, TypeOK
    <2>3. rcvd[s] + 1 <= Len(sent[s])
      BY <1>0, <1>4, <2>1 DEF Receive
    <2>. QED
      BY <1>0, <1>4, <2>1, <2>2, <2>3, StreamQuiet DEF Receive
  <1>5. ASSUME NEW s \in Subs, WriteFails(s) PROVE Stream'
    <2>1. chan[s] # "none" /\ sent[s] \in Seq(Piece)
      BY <1>5 DEF WriteFails, Handover, Unborn, TypeOK
    <2>2. \A t \in Subs : rcvd'[t] = IF t = s THEN rcvd[s] + 1 ELSE rcvd[t]
      BY <1>5 DEF WriteFails, TypeOK
    <2>3. rcvd[s] + 1 <= Len(sent[s])
      BY <1>0, <1>5, <2>1 DEF WriteFails
    <2>4. todo'[Pump] = todo[Pump]
      BY <1>5, HubAssumption DEF WriteFails, Leaving, TypeOK, Actors, HubAssumption
    <2>. QED
      BY <1>0, <1>5, <2>1, <2>2, <2>3, <2>4, StreamQuiet DEF WriteFails, Leaving
  <1>6. ASSUME NEW s \in Subs, FeederStops(s) \/ Drained(s) PROVE Stream'
    <2>1. todo'[Pump] = todo[Pump]
      BY <1>6, HubAssumption DEF FeederStops, Drained, Leaving, TypeOK, Actors, HubAssumption
    <2>. QED
      BY <1>0, <1>6, <2>1, StreamQuiet DEF FeederStops, Drained, Leaving
  <1>7. ASSUME NEW a \in Closers, Close(a) PROVE Stream'
    BY <1>0, <1>7, StreamQuiet DEF Close, chanVars
  <1>8. ASSUME NEW a \in Actors, NEW s \in Subs, Unsubscribe(a, s) PROVE Stream'
    <2>1. subs' \ todo'[Pump] \subseteq subs \ todo[Pump]
      BY <1>8, HubAssumption DEF Unsubscribe, TypeOK, Actors, HubAssumption
    <2>. QED
      BY <1>0, <1>8, <2>1, StreamQuiet DEF Unsubscribe, chanVars
  <1>9. ASSUME NEW a \in Actors, NEW s \in Subs, CloseChan(a, s) PROVE Stream'
    <2>1. \A t \in Subs : chan'[t] = "none" => chan[t] = "none"
      BY <1>9 DEF CloseChan, TypeOK
    <2>. QED
      BY <1>0, <1>9, <2>1, StreamQuiet DEF CloseChan
  <1>10. CASE UNCHANGED vars
    BY <1>0, <1>10, StreamQuiet DEF vars, chanVars
  <1>. QED
    BY NextCases, <1>1, <1>2, <1>3, <1>4, <1>5, <1>6, <1>7, <1>8, <1>9, <1>10

LEMMA StreamAlways == Spec => [](TypeOK /\ Handover /\ Stream)
  BY TypeInit, TypeStep, HandoverInit, HandoverStep, StreamInit, StreamStep, PTL DEF Spec

(* Every listener's log is one gap-free stretch of the broadcast. *)
THEOREM AlwaysGapFree == Spec => []GapFree
  <1>1. Stream => GapFree
    BY DEF Stream
  <1>. QED
    BY <1>1, StreamAlways, PTL

(* It starts at the live edge, or at most a burst before it for a client. *)
THEOREM AlwaysStartsAtEdge == Spec => []StartsAtEdge
  <1>1. Stream => StartsAtEdge
    BY DEF Stream
  <1>. QED
    BY <1>1, StreamAlways, PTL

(* Who has not been dropped has been sent everything, within its channel. *)
THEOREM AlwaysLiveEdge == Spec => []LiveEdge
  <1>1. Stream => LiveEdge
    BY DEF Stream
  <1>. QED
    BY <1>1, StreamAlways, PTL
-----------------------------------------------------------------------------
(***************************************************************************)
(* The listener figure.  h.clients is exact because the map and the count  *)
(* change in the same critical section and a removal happens only once.    *)
(***************************************************************************)
LEMMA CountInit == Init => ClientsExact
  <1>. SUFFICES ASSUME Init PROVE ClientsExact
    OBVIOUS
  <1>1. Cardinality(subs \intersect Clients) = 0
    BY FS_EmptySet DEF Init
  <1>. QED
    BY <1>1, HubAssumption DEF Init, ClientsExact, HubAssumption

LEMMA CountStep == TypeOK /\ Handover /\ ClientsExact /\ [Next]_vars => ClientsExact'
  <1>. SUFFICES ASSUME TypeOK, Handover, ClientsExact, [Next]_vars PROVE ClientsExact'
    OBVIOUS
  <1>0. /\ IsFiniteSet(subs \intersect Clients)
        /\ Cardinality(subs \intersect Clients) = clients
        /\ MaxListeners \in Nat
    BY HubAssumption, FS_Subset DEF HubAssumption, TypeOK, ClientsExact
  <1>1. ASSUME NEW s \in Subs, Subscribe(s) PROVE ClientsExact'
    <2>1. s \notin subs /\ subs' = subs \union {s}
      BY <1>1 DEF Subscribe, Handover, Unborn, SubsOpen
    <2>2. CASE s \in Clients
      <3>1. subs' \intersect Clients = (subs \intersect Clients) \union {s}
        BY <2>1, <2>2
      <3>2. Cardinality(subs' \intersect Clients) = clients + 1
        BY <1>0, <2>1, <3>1, FS_AddElement
      <3>3. clients' = clients + 1 /\ (MaxListeners = 0 \/ clients < MaxListeners)
        BY <1>1, <2>2, HubAssumption DEF Subscribe, Admits, HubAssumption
      <3>. QED
        BY <1>0, <3>2, <3>3 DEF ClientsExact, TypeOK
    <2>3. CASE s \notin Clients
      <3>1. subs' \intersect Clients = subs \intersect Clients /\ clients' = clients
        BY <1>1, <2>1, <2>3 DEF Subscribe
      <3>. QED
        BY <3>1 DEF ClientsExact
    <2>. QED
      BY <2>2, <2>3
  <1>2. ASSUME NEW a \in Actors, NEW s \in Subs, Unsubscribe(a, s) PROVE ClientsExact'
    <2>1. CASE s \in subs /\ s \in Clients
      <3>1. /\ subs' \intersect Clients = (subs \intersect Clients) \ {s}
            /\ clients' = clients - 1
        BY <1>2, <2>1 DEF Unsubscribe
      <3>2. Cardinality(subs' \intersect Clients) = clients - 1
        BY <1>0, <2>1, <3>1, FS_RemoveElement
      <3>. QED
        BY <1>0, <3>1, <3>2 DEF ClientsExact, TypeOK
    <2>2. CASE ~(s \in subs /\ s \in Clients)
      <3>1. subs' \intersect Clients = subs \intersect Clients /\ clients' = clients
        BY <1>2, <2>2 DEF Unsubscribe
      <3>. QED
        BY <3>1 DEF ClientsExact
    <2>. QED
      BY <2>1, <2>2
  <1>3. ASSUME NEW a \in Closers, Close(a) PROVE ClientsExact'
    <2>1. clients' = 0 /\ subs' \intersect Clients = {}
      BY <1>3 DEF Close
    <2>. QED
      BY <1>0, <2>1, FS_EmptySet DEF ClientsExact
  <1>4. CASE UNCHANGED <<subs, clients>>
    BY <1>4 DEF ClientsExact
  <1>. QED
    BY NextCases, <1>1, <1>2, <1>3, <1>4
    DEF Write, Refuse, Receive, WriteFails, FeederStops, Drained, Leaving, CloseChan, vars

(* The listener figure is the number of clients in the map, within the cap. *)
THEOREM AlwaysClientsExact == Spec => []ClientsExact
  <1>. QED
    BY TypeInit, TypeStep, HandoverInit, HandoverStep, CountInit, CountStep, PTL DEF Spec

-----------------------------------------------------------------------------
(***************************************************************************)
(* The hub implements Broadcast.  Each step is a step of it or a stutter:  *)
(* the step at which a piece is received is the one at which it is heard.  *)
(***************************************************************************)

(* A piece is made of chunks that have been written. *)
Within == \A s \in Subs : \A i \in 1 .. Len(sent[s]) :
             sent[s][i].lo <= sent[s][i].hi /\ sent[s][i].hi <= pos

LEMMA WithinInit == Init => Within
  <1>. SUFFICES ASSUME Init PROVE Within
    OBVIOUS
  <1>1. \A s \in Subs : Len(sent[s]) = 0
    BY DEF Init
  <1>. QED
    BY <1>1 DEF Within

LEMMA WithinStep == TypeOK /\ Within /\ [Next]_vars => Within'
  <1>. SUFFICES ASSUME TypeOK, Within, [Next]_vars PROVE Within'
    OBVIOUS
  <1>0. pos \in Nat /\ \A s \in Subs : sent[s] \in Seq(Piece)
    BY HubAssumption DEF TypeOK, HubAssumption
  <1>01. ASSUME NEW s \in Subs, NEW i \in 1 .. Len(sent[s]) PROVE sent[s][i].hi \in Nat
    <2>1. sent[s][i] \in Piece
      BY <1>0
    <2>. QED
      BY <2>1 DEF Piece
  <1>1. CASE Write
    <2>. SUFFICES ASSUME NEW s \in Subs, NEW i \in 1 .. Len(sent'[s])
                  PROVE  sent'[s][i].lo <= sent'[s][i].hi /\ sent'[s][i].hi <= pos'
      BY DEF Within
    <2>. DEFINE piece == [lo |-> pos + 1, hi |-> pos + 1]
    <2>1. pos' = pos + 1
      BY <1>1 DEF Write
    <2>2. CASE s \in subs /\ HasRoom(s)
      <3>1. sent'[s] = Append(sent[s], piece)
        BY <1>1, <2>2 DEF Write, FanOut
      <3>2. CASE i <= Len(sent[s])
        <4>1. i \in 1 .. Len(sent[s]) /\ sent'[s][i] = sent[s][i]
          BY <1>0, <3>1, <3>2
        <4>. QED
          BY <1>0, <1>01, <2>1, <4>1 DEF Within
      <3>3. CASE ~(i <= Len(sent[s]))
        BY <1>0, <2>1, <3>1, <3>3
      <3>. QED
        BY <3>2, <3>3
    <2>3. CASE ~(s \in subs /\ HasRoom(s))
      <3>1. sent'[s] = sent[s]
        BY <1>1, <2>3 DEF Write, FanOut
      <3>2. i \in 1 .. Len(sent[s]) /\ sent[s][i].hi \in Nat
        BY <1>01, <3>1
      <3>. QED
        BY <1>0, <2>1, <3>1, <3>2 DEF Within
    <2>. QED
      BY <2>2, <2>3
  <1>2. ASSUME NEW s \in Subs, Subscribe(s) PROVE Within'
    <2>1. /\ sent'[s] = FirstPieces(s) /\ pos' = pos
          /\ \A q \in Subs : q # s => sent'[q] = sent[q]
      BY <1>2 DEF Subscribe, TypeOK
    <2>2. \A i \in 1 .. Len(FirstPieces(s)) :
             FirstPieces(s)[i].lo <= FirstPieces(s)[i].hi /\ FirstPieces(s)[i].hi <= pos
      BY <1>0, FirstPiecesEdge
    <2>. QED
      BY <2>1, <2>2 DEF Within
  <1>3. CASE UNCHANGED <<sent, pos>>
    BY <1>3 DEF Within
  <1>. QED
    BY NextCases, <1>1, <1>2, <1>3
    DEF Refuse, Receive, WriteFails, FeederStops, Drained, Leaving, CloseChan, Unsubscribe,
        Close, chanVars, vars

Heard(s) == SubSeq(sent[s], 1, rcvd[s])

(* Pieces sent later do not change what was heard. *)
LEMMA HeardBefore ==
    ASSUME NEW q \in Seq(Piece), NEW n \in 0 .. Len(q), NEW e \in Piece
    PROVE  SubSeq(Append(q, e), 1, n) = SubSeq(q, 1, n)
  OBVIOUS

LEMMA HeardNext ==
    ASSUME NEW q \in Seq(Piece), NEW n \in Nat, n < Len(q)
    PROVE  /\ SubSeq(q, 1, n + 1) = Append(SubSeq(q, 1, n), q[n + 1])
           /\ Len(SubSeq(q, 1, n)) = n
           /\ \A i \in 1 .. n : SubSeq(q, 1, n)[i] = q[i]
  OBVIOUS

(* What Receive makes of the log is what Hear allows.                      *)
LEMMA ReceiveHears ==
    ASSUME TypeOK, Handover, Stream, Within, NEW s \in Subs,
           owner[s] = "serving", rcvd[s] < Len(sent[s]),
           rcvd' = [rcvd EXCEPT ![s] = @ + 1],
           UNCHANGED <<closed, subs, clients, pos, chan, sent, joinedAt>>
    PROVE  Broadcast!Hear(s)
  <1>. DEFINE piece == sent[s][rcvd[s] + 1]
              since == [q \in Subs |-> IF chan[q] = "none" THEN -1 ELSE joinedAt[q]]
              heard == [q \in Subs |-> SubSeq(sent[q], 1, rcvd[q])]
              burst == IF s \in Clients THEN BurstLen ELSE 0
  <1>0. /\ sent[s] \in Seq(Piece) /\ rcvd[s] \in Nat /\ joinedAt[s] \in Nat /\ pos \in Nat
        /\ BurstLen \in Nat
    BY HubAssumption DEF TypeOK, HubAssumption
  <1>1. chan[s] # "none" /\ since[s] = joinedAt[s] /\ since[s] # -1
    BY <1>0 DEF Handover, Unborn
  <1>2. \E lo, hi \in Nat \ {0} : piece = [lo |-> lo, hi |-> hi] /\ lo <= hi /\ hi <= pos
    <2>1. piece \in Piece /\ rcvd[s] + 1 \in 1 .. Len(sent[s])
      BY <1>0
    <2>2. piece.lo <= piece.hi /\ piece.hi <= pos
      BY <2>1 DEF Within
    <2>. QED
      BY <2>1, <2>2 DEF Piece
  <1>. PICK lo, hi \in Nat \ {0} : piece = [lo |-> lo, hi |-> hi] /\ lo <= hi /\ hi <= pos
    BY <1>2
  <1>9. sent[s][rcvd[s] + 1].lo = lo
    OBVIOUS
  <1>3. /\ Len(heard[s]) = rcvd[s]
        /\ \A i \in 1 .. rcvd[s] : heard[s][i] = sent[s][i]
        /\ heard'[s] = Append(heard[s], piece)
    <2>1. heard'[s] = SubSeq(sent[s], 1, rcvd[s] + 1)
      BY DEF TypeOK
    <2>. QED
      BY <1>0, <2>1, HeardNext
  <1>4. heard' = [heard EXCEPT ![s] = Append(@, [lo |-> lo, hi |-> hi])]
    <2>1. \A q \in Subs : q # s => heard'[q] = heard[q]
      BY DEF TypeOK
    <2>2. heard' = [heard EXCEPT ![s] = Append(heard[s], piece)]
      BY <1>3, <2>1
    <2>. QED
      BY <1>2, <2>2
  <1>5. heard[s] = <<>> => lo \in (since[s] + 1 - burst) .. (since[s] + 1)
    <2>. SUFFICES ASSUME heard[s] = <<>>
                  PROVE  lo \in (since[s] + 1 - burst) .. (since[s] + 1)
      OBVIOUS
    <2>0. rcvd[s] = 0
      BY <1>0, <1>3
    <2>1. sent[s][1].lo = lo /\ sent[s] # <<>>
      BY <1>0, <1>9, <2>0
    <2>2. lo <= joinedAt[s] + 1 /\ lo > joinedAt[s] - burst
      BY <2>1 DEF Stream, StartsAtEdge
    <2>. QED
      BY <1>0, <1>1, <1>2, <2>1, <2>2
  <1>6. heard[s] # <<>> => lo = heard[s][Len(heard[s])].hi + 1
    <2>. SUFFICES ASSUME heard[s] # <<>>
                  PROVE  lo = heard[s][Len(heard[s])].hi + 1
      OBVIOUS
    <2>1. rcvd[s] # 0
      BY <1>0, SubSeqEmpty
    <2>2. heard[s][Len(heard[s])] = sent[s][rcvd[s]]
      BY <1>0, <1>3, <2>1
    <2>3. rcvd[s] \in 1 .. Len(sent[s]) - 1
      BY <1>0, <2>1
    <2>. QED
      BY <1>9, <2>2, <2>3 DEF Stream, GapFree
  <1>7. lo \in Broadcast!NextStart(s)
    BY <1>5, <1>6 DEF Broadcast!NextStart
  <1>8. UNCHANGED <<~closed, pos, subs, clients, since>>
    OBVIOUS
  <1>. QED
    <2>1. 1 <= lo /\ lo <= hi /\ hi \in 1 .. pos
      BY <1>0
    <2>. QED
      BY <1>1, <1>4, <1>7, <1>8, <2>1, Zenon DEF Broadcast!Hear

(* Whether s has joined and when, and what it has heard.                   *)
Since == [s \in Subs |-> IF chan[s] = "none" THEN -1 ELSE joinedAt[s]]
HeardBy == [s \in Subs |-> SubSeq(sent[s], 1, rcvd[s])]

LEMMA WritePublishes ==
    ASSUME TypeOK, RcvdSent, Write
    PROVE  Broadcast!Publish
  <1>. DEFINE piece == [lo |-> pos + 1, hi |-> pos + 1]
  <1>1. ~closed /\ pos' = pos + 1 /\ UNCHANGED <<closed, subs, clients, chan, joinedAt, rcvd>>
    BY DEF Write
  <1>2. ASSUME NEW s \in Subs PROVE SubSeq(sent'[s], 1, rcvd'[s]) = SubSeq(sent[s], 1, rcvd[s])
    <2>1. /\ sent[s] \in Seq(Piece) /\ rcvd[s] \in 0 .. Len(sent[s]) /\ rcvd'[s] = rcvd[s]
          /\ piece \in Piece
      BY <1>1, HubAssumption DEF TypeOK, RcvdSent, Piece, HubAssumption
    <2>2. sent'[s] \in {sent[s], Append(sent[s], piece)}
      BY DEF Write, FanOut
    <2>. QED
      BY <2>1, <2>2, HeardBefore
  <1>3. UNCHANGED <<Since, HeardBy>>
    BY <1>1, <1>2 DEF Since, HeardBy
  <1>. QED
    BY <1>1, <1>3, Zenon DEF Broadcast!Publish, Since, HeardBy

LEMMA SubscribeTunesIn ==
    ASSUME TypeOK, Handover, Fresh, ClientsExact', NEW s \in Subs, Subscribe(s)
    PROVE  Broadcast!TuneIn(s)
  <1>1. /\ ~closed /\ subs' = subs \union {s} /\ UNCHANGED <<closed, pos, rcvd>>
        /\ chan[s] = "none" /\ sent[s] = <<>> /\ rcvd[s] = 0
    BY DEF Subscribe, Handover, Unborn, Fresh
  <1>2. s \in Clients /\ MaxListeners > 0 => clients < MaxListeners
    BY HubAssumption DEF Subscribe, Admits, HubAssumption
  <1>3. clients' = Cardinality(subs' \intersect Clients)
    BY DEF ClientsExact
  <1>4. Since[s] = -1 /\ Since' = [Since EXCEPT ![s] = pos]
    BY <1>1 DEF Since, Subscribe, TypeOK
  <1>5. HeardBy' = HeardBy
    <2>1. ASSUME NEW q \in Subs PROVE SubSeq(sent'[q], 1, rcvd'[q]) = SubSeq(sent[q], 1, rcvd[q])
      <3>1. CASE q = s
        BY <1>1, <3>1, SubSeqEmpty
      <3>2. CASE q # s
        BY <1>1, <3>2 DEF Subscribe, TypeOK
      <3>. QED
        BY <3>1, <3>2
    <2>. QED
      BY <2>1 DEF HeardBy
  <1>. QED
    BY <1>1, <1>2, <1>3, <1>4, <1>5, Zenon DEF Broadcast!TuneIn, Since, HeardBy,
                                            Cardinality, Broadcast!Cardinality

LEMMA UnsubscribeTunesOut ==
    ASSUME ClientsExact', NEW a \in Actors, NEW s \in Subs, Unsubscribe(a, s), s \in subs
    PROVE  Broadcast!TuneOut(s)
  <1>1. subs' = subs \ {s} /\ UNCHANGED <<closed, pos, chan, sent, rcvd, joinedAt>>
    BY DEF Unsubscribe, chanVars
  <1>2. clients' = Cardinality(subs' \intersect Clients)
    BY DEF ClientsExact
  <1>3. UNCHANGED <<Since, HeardBy>>
    BY <1>1 DEF Since, HeardBy
  <1>. QED
    BY <1>1, <1>2, <1>3, Zenon DEF Broadcast!TuneOut, Since, HeardBy,
                                       Cardinality, Broadcast!Cardinality

LEMMA CloseSignsOff ==
    ASSUME NEW a \in Closers, Close(a)
    PROVE  Broadcast!SignOff
  <1>1. /\ ~closed /\ closed' = TRUE /\ subs' = {} /\ clients' = 0
        /\ UNCHANGED <<pos, chan, sent, rcvd, joinedAt>>
    BY DEF Close, chanVars
  <1>2. UNCHANGED <<Since, HeardBy>>
    BY <1>1 DEF Since, HeardBy
  <1>. QED
    BY <1>1, <1>2, Zenon DEF Broadcast!SignOff, Since, HeardBy

(* Removals after the fact, closed channels and refusals are not heard.    *)
LEMMA Unheard ==
    ASSUME UNCHANGED <<closed, pos, subs, clients, sent, rcvd, joinedAt>>,
           \A s \in Subs : chan'[s] = "none" <=> chan[s] = "none"
    PROVE  UNCHANGED Broadcast!vars
  <1>1. UNCHANGED <<Since, HeardBy>>
    BY DEF Since, HeardBy
  <1>. QED
    BY <1>1, Zenon DEF Broadcast!vars, Since, HeardBy

Promised == TypeOK /\ Handover /\ Stream /\ Within /\ ClientsExact

LEMMA StepImplements == Promised /\ Promised' /\ [Next]_vars => [Broadcast!Next]_(Broadcast!vars)
  <1>. SUFFICES ASSUME Promised, Promised', [Next]_vars
                PROVE  Broadcast!Next \/ UNCHANGED Broadcast!vars
    OBVIOUS
  <1>. TypeOK /\ Handover /\ Stream /\ Within /\ Fresh /\ RcvdSent /\ ClientsExact'
    BY DEF Promised, Stream
  <1>1. CASE Write
    BY <1>1, WritePublishes DEF Broadcast!Next
  <1>2. ASSUME NEW s \in Subs, Subscribe(s) PROVE Broadcast!Next
    BY <1>2, SubscribeTunesIn DEF Broadcast!Next, Broadcast!All, Subs
  <1>3. ASSUME NEW s \in Subs, Receive(s) \/ WriteFails(s) PROVE Broadcast!Next
    <2>1. Broadcast!Hear(s)
      BY <1>3, ReceiveHears DEF Receive, WriteFails, Leaving
    <2>. QED
      BY <2>1 DEF Broadcast!Next, Broadcast!All, Subs
  <1>4. ASSUME NEW a \in Closers, Close(a) PROVE Broadcast!Next
    BY <1>4, CloseSignsOff DEF Broadcast!Next
  <1>5. ASSUME NEW a \in Actors, NEW s \in Subs, Unsubscribe(a, s)
        PROVE  Broadcast!Next \/ UNCHANGED Broadcast!vars
    <2>1. CASE s \in subs
      BY <1>5, <2>1, UnsubscribeTunesOut DEF Broadcast!Next, Broadcast!All, Subs
    <2>2. CASE s \notin subs
      BY <1>5, <2>2, Unheard DEF Unsubscribe, chanVars
    <2>. QED
      BY <2>1, <2>2
  <1>6. ASSUME NEW a \in Actors, NEW s \in Subs, CloseChan(a, s)
        PROVE  UNCHANGED Broadcast!vars
    <2>1. chan[s] = "open" /\ \A q \in Subs : q # s => chan'[q] = chan[q]
      BY <1>6 DEF CloseChan, Handover, ShutOpen, TypeOK
    <2>2. chan'[s] = "closed"
      BY <1>6 DEF CloseChan, TypeOK
    <2>. QED
      BY <1>6, <2>1, <2>2, Unheard DEF CloseChan
  <1>7. ASSUME NEW s \in Subs, Refuse(s) \/ FeederStops(s) \/ Drained(s)
        PROVE  UNCHANGED Broadcast!vars
    BY <1>7, Unheard DEF Refuse, FeederStops, Drained, Leaving, chanVars
  <1>8. CASE UNCHANGED vars
    BY <1>8, Unheard DEF vars, chanVars
  <1>. QED
    BY NextCases, <1>1, <1>2, <1>3, <1>4, <1>5, <1>6, <1>7, <1>8

LEMMA InitImplements == Init => Broadcast!Init
  <1>. SUFFICES ASSUME Init PROVE Broadcast!Init
    OBVIOUS
  <1>1. closed = FALSE /\ pos = 0 /\ subs = {} /\ clients = 0
    BY DEF Init
  <1>2. Since = [s \in Subs |-> -1]
    BY DEF Init, Since
  <1>3. HeardBy = [s \in Subs |-> <<>>]
    BY SubSeqEmpty DEF Init, HeardBy
  <1>. QED
    BY <1>1, <1>2, <1>3, Zenon DEF Broadcast!Init, Broadcast!All, Since, HeardBy, Subs

(* However the pump, the handlers and the shutdown interleave, the hub is  *)
(* a broadcast: what a subscriber receives from its channel is one         *)
(* contiguous stretch of what was written, begun near the live edge.       *)
THEOREM HubIsBroadcast == Spec => ImplementsBroadcast
  <1>1. Spec => []Promised
    BY StreamAlways, AlwaysClientsExact, WithinInit, WithinStep, TypeCorrect, PTL
       DEF Promised, Spec
  <1>. QED
    BY <1>1, InitImplements, StepImplements, PTL DEF Spec, ImplementsBroadcast, Broadcast!Spec

-----------------------------------------------------------------------------
(* The supervisor. *)

(* The steps, one by one. *)
LEMMA HLSCases ==
    ASSUME HLSNext
    PROVE  /\ ~panicked
           /\ \/ HubStep
              \/ \E f \in Feeders : StartOk(f)
              \/ \E f \in Feeders : StartRefused(f)
              \/ Launch \/ StartFails \/ Feed \/ ChannelEnds \/ Exits
              \/ RunOnceReturns \/ BackoffEnds \/ Stops \/ Cancel
  BY DEF HLSNext, HLSStep

(* Each step of the supervisor is a step of the hub or leaves it alone.    *)
LEMMA StepOnHub == HLSTypeOK /\ [HLSNext]_allVars => [Next]_vars
  <1>. SUFFICES ASSUME HLSTypeOK, HLSNext PROVE [Next]_vars
    BY DEF allVars, vars, chanVars
  <1>0. ~panicked /\ Clients \subseteq Subs /\ Feeders \subseteq Subs
    BY HLSCases DEF Subs
  <1>1. CASE HubStep
    BY <1>0, <1>1 DEF HubStep, Next
  <1>2. ASSUME NEW f \in Feeders, StartOk(f) PROVE [Next]_vars
    BY <1>0, <1>2 DEF StartOk, Next, OwnerStep
  <1>3. ASSUME NEW f \in Feeders, StartRefused(f) PROVE [Next]_vars
    BY <1>0, <1>3 DEF StartRefused, Next, OwnerStep
  <1>4. CASE Feed
    <2>1. feeder \in Subs
      BY <1>0, <1>4 DEF Feed, HLSTypeOK
    <2>. QED
      BY <1>0, <1>4, <2>1 DEF Feed, Next, OwnerStep
  <1>5. ASSUME FeederStops(feeder) PROVE [Next]_vars
    <2>1. feeder \in Subs
      BY <1>0, <1>5 DEF FeederStops
    <2>. QED
      BY <1>0, <1>5, <2>1 DEF Next, OwnerStep
  <1>6. CASE RunOnceReturns
    BY <1>5, <1>6 DEF RunOnceReturns
  <1>7. CASE Stops
    BY <1>5, <1>7 DEF Stops
  <1>8. CASE Launch \/ StartFails \/ ChannelEnds \/ Exits \/ BackoffEnds \/ Cancel
    BY <1>8 DEF Launch, StartFails, ChannelEnds, Exits, BackoffEnds, Cancel
  <1>. QED
    BY <1>1, <1>2, <1>3, <1>4, <1>6, <1>7, <1>8, HLSCases

-----------------------------------------------------------------------------
(* Types. *)

LEMMA HLSTypeInit == HLSInit => HLSTypeOK
  <1>1. <<>> \in Seq(Piece)
    OBVIOUS
  <1>. QED
    BY <1>1 DEF HLSInit, HLSTypeOK

(* What the feeder goroutine takes from the channel is the next piece. *)
LEMMA FedPiece ==
    ASSUME TypeOK, HLSTypeOK, Feed
    PROVE  /\ feeder \in Feeders /\ feeder \in Subs
           /\ rcvd[feeder] \in Nat /\ rcvd[feeder] + 1 \in 1 .. Len(sent[feeder])
           /\ sent[feeder][rcvd[feeder] + 1] \in Piece
  <1>1. feeder \in Feeders /\ feeder \in Subs
    BY DEF Feed, HLSTypeOK, Subs
  <1>2. sent[feeder] \in Seq(Piece) /\ rcvd[feeder] \in Nat /\ rcvd[feeder] < Len(sent[feeder])
    BY <1>1 DEF Feed, Receive, TypeOK
  <1>3. rcvd[feeder] + 1 \in 1 .. Len(sent[feeder])
    BY <1>2
  <1>. QED
    BY <1>1, <1>2, <1>3

LEMMA HLSTypeStep == TypeOK /\ HLSTypeOK /\ [HLSNext]_allVars => HLSTypeOK'
  <1>. SUFFICES ASSUME TypeOK, HLSTypeOK, [HLSNext]_allVars PROVE HLSTypeOK'
    OBVIOUS
  <1>0. CASE UNCHANGED allVars
    BY <1>0 DEF allVars, hlsVars, HLSTypeOK
  <1>1. CASE HubStep
    BY <1>1 DEF HubStep, hlsVars, HLSTypeOK
  <1>2. ASSUME NEW f \in Feeders, StartOk(f) PROVE HLSTypeOK'
    BY <1>2 DEF StartOk, HLSTypeOK
  <1>3. ASSUME NEW f \in Feeders, StartRefused(f) PROVE HLSTypeOK'
    BY <1>3 DEF StartRefused, HLSTypeOK
  <1>4. CASE Feed
    <2>1. fed' \in Seq(Piece)
      BY <1>4, FedPiece DEF Feed, HLSTypeOK
    <2>. QED
      BY <1>4, <2>1 DEF Feed, HLSTypeOK
  <1>5. CASE Launch \/ StartFails \/ ChannelEnds \/ Exits \/ BackoffEnds \/ Cancel
    BY <1>5 DEF Launch, StartFails, ChannelEnds, Exits, BackoffEnds, Cancel, HLSTypeOK
  <1>6. CASE RunOnceReturns \/ Stops
    BY <1>6 DEF RunOnceReturns, Stops, HLSTypeOK
  <1>. QED
    BY <1>0, <1>1, <1>2, <1>3, <1>4, <1>5, <1>6, HLSCases

LEMMA HLSTypes == HLSSpec => [](TypeOK /\ HLSTypeOK)
  <1>1. HLSInit => TypeOK /\ HLSTypeOK
    BY TypeInit, HLSTypeInit DEF HLSInit
  <1>2. TypeOK /\ HLSTypeOK /\ [HLSNext]_allVars => (TypeOK /\ HLSTypeOK)'
    BY TypeStep, HLSTypeStep, StepOnHub
  <1>. QED
    BY <1>1, <1>2, PTL DEF HLSSpec

(* Every reachable state of the supervisor has its type. *)
THEOREM HLSTypeCorrect == HLSSpec => []HLSTypeOK
  BY HLSTypes, PTL

(* With the supervisor for its feeder the hub still is the hub: every      *)
(* theorem about the hub above holds of HLSSpec too.                       *)
THEOREM HLSOnHub == HLSSpec => Spec
  <1>1. HLSInit => Init
    BY DEF HLSInit
  <1>. QED
    BY <1>1, HLSTypes, StepOnHub, PTL DEF HLSSpec, Spec

-----------------------------------------------------------------------------
(* A subscriber whose goroutine has left is being unsubscribed or is out.  *)
LeftIsOut == \A s \in Subs : owner[s] = "left" => s \in todo[s] \/ s \notin subs

LEMMA LeftIsOutStep == TypeOK /\ LeftIsOut /\ [Next]_vars => LeftIsOut'
  <1>. SUFFICES ASSUME TypeOK, LeftIsOut, [Next]_vars PROVE LeftIsOut'
    OBVIOUS
  <1>0. Subs \subseteq Actors /\ Pump \notin Subs
    BY HubAssumption DEF Actors, HubAssumption
  <1>1. CASE Write
    <2>1. \A s \in Subs : todo'[s] = todo[s]
      BY <1>0, <1>1 DEF Write, FanOut, TypeOK
    <2>. QED
      BY <1>1, <2>1 DEF Write, LeftIsOut
  <1>2. ASSUME NEW s \in Subs, Subscribe(s) PROVE LeftIsOut'
    <2>1. \A t \in Subs : t # s => owner'[t] = owner[t] /\ (t \in subs' <=> t \in subs)
      BY <1>2 DEF Subscribe, TypeOK
    <2>2. owner'[s] = "serving"
      BY <1>2 DEF Subscribe, TypeOK
    <2>. QED
      BY <1>2, <2>1, <2>2 DEF Subscribe, LeftIsOut
  <1>3. ASSUME NEW s \in Subs, Refuse(s) PROVE LeftIsOut'
    <2>1. \A t \in Subs : owner'[t] = "left" => owner[t] = "left"
      BY <1>3 DEF Refuse, TypeOK
    <2>. QED
      BY <1>3, <2>1 DEF Refuse, LeftIsOut
  <1>4. ASSUME NEW s \in Subs, Receive(s) PROVE LeftIsOut'
    BY <1>4 DEF Receive, LeftIsOut
  <1>5. ASSUME NEW s \in Subs, Leaving(s) PROVE LeftIsOut'
    <2>1. /\ \A t \in Subs : t # s => owner'[t] = owner[t] /\ todo'[t] = todo[t]
          /\ s \in todo'[s] /\ subs' = subs
      BY <1>0, <1>5 DEF Leaving, TypeOK
    <2>. QED
      BY <2>1 DEF LeftIsOut
  <1>6. ASSUME NEW s \in Subs, WriteFails(s) \/ FeederStops(s) \/ Drained(s) PROVE LeftIsOut'
    BY <1>5, <1>6 DEF WriteFails, FeederStops, Drained
  <1>7. ASSUME NEW a \in Closers, Close(a) PROVE LeftIsOut'
    BY <1>7 DEF Close, LeftIsOut
  <1>8. ASSUME NEW a \in Actors, NEW s \in Subs, Unsubscribe(a, s) PROVE LeftIsOut'
    <2>1. /\ s \notin subs' /\ subs' \subseteq subs /\ owner' = owner
          /\ \A t \in Subs : t # s => (t \in todo'[t] <=> t \in todo[t])
      BY <1>0, <1>8 DEF Unsubscribe, TypeOK
    <2>. QED
      BY <2>1 DEF LeftIsOut
  <1>9. ASSUME NEW a \in Actors, NEW s \in Subs, CloseChan(a, s) PROVE LeftIsOut'
    BY <1>9 DEF CloseChan, LeftIsOut
  <1>10. CASE UNCHANGED vars
    BY <1>10 DEF vars, LeftIsOut
  <1>. QED
    BY <1>1, <1>2, <1>3, <1>4, <1>6, <1>7, <1>8, <1>9, <1>10, NextCases

(* The log of a feeder is the chunks after the one it joined at, one by    *)
(* one, and none of them is still to be written.                           *)
FeederLog ==
    \A s \in Feeders :
        /\ joinedAt[s] + Len(sent[s]) <= pos
        /\ \A i \in 1 .. Len(sent[s]) :
              sent[s][i].lo = joinedAt[s] + i /\ sent[s][i].hi = joinedAt[s] + i

LEMMA FeederLogStep == TypeOK /\ Handover /\ Stream /\ FeederLog /\ [Next]_vars => FeederLog'
  <1>. SUFFICES ASSUME TypeOK, Handover, Stream, FeederLog, [Next]_vars PROVE FeederLog'
    OBVIOUS
  <1>0. /\ \A s \in Feeders : s \in Subs /\ sent[s] \in Seq(Piece) /\ joinedAt[s] \in Nat
                              /\ Len(sent[s]) \in Nat
        /\ pos \in Nat
    BY HubAssumption DEF TypeOK, Subs, HubAssumption
  <1>1. CASE Write
    <2>. SUFFICES ASSUME NEW s \in Feeders
                  PROVE  /\ joinedAt'[s] + Len(sent'[s]) <= pos'
                         /\ \A i \in 1 .. Len(sent'[s]) :
                               sent'[s][i].lo = joinedAt'[s] + i /\ sent'[s][i].hi = joinedAt'[s] + i
      BY DEF FeederLog
    <2>. DEFINE piece == [lo |-> pos + 1, hi |-> pos + 1]
    <2>1. joinedAt' = joinedAt /\ pos' = pos + 1 /\ todo[Pump] = {}
      BY <1>1 DEF Write
    <2>2. CASE s \in subs /\ HasRoom(s)
      <3>1. sent'[s] = Append(sent[s], piece)
        BY <1>0, <1>1, <2>2 DEF Write, FanOut
      <3>2. joinedAt[s] + Len(sent[s]) = pos
        <4>1. CASE sent[s] = <<>>
          BY <1>0, <2>1, <2>2, <4>1 DEF Stream, LiveEdge
        <4>2. CASE sent[s] # <<>>
          <5>1. Len(sent[s]) \in 1 .. Len(sent[s])
            BY <1>0, <4>2
          <5>2. sent[s][Len(sent[s])].hi = pos
            BY <2>1, <2>2, <4>2 DEF Stream, LiveEdge
          <5>. QED
            BY <5>1, <5>2 DEF FeederLog
        <4>. QED
          BY <4>1, <4>2
      <3>3. /\ Len(sent'[s]) = Len(sent[s]) + 1
            /\ sent'[s][Len(sent[s]) + 1] = piece
            /\ \A i \in 1 .. Len(sent[s]) : sent'[s][i] = sent[s][i]
        BY <1>0, <3>1
      <3>4. \A i \in 1 .. Len(sent'[s]) : i \in 1 .. Len(sent[s]) \/ i = Len(sent[s]) + 1
        BY <1>0, <3>3
      <3>5. \A i \in 1 .. Len(sent[s]) :
               sent'[s][i].lo = joinedAt[s] + i /\ sent'[s][i].hi = joinedAt[s] + i
        BY <3>3 DEF FeederLog
      <3>6. piece.lo = joinedAt[s] + (Len(sent[s]) + 1) /\ piece.hi = joinedAt[s] + (Len(sent[s]) + 1)
        BY <1>0, <3>2
      <3>7. joinedAt[s] + Len(sent'[s]) <= pos'
        BY <1>0, <2>1, <3>2, <3>3
      <3>8. \A i \in 1 .. Len(sent'[s]) :
               sent'[s][i].lo = joinedAt[s] + i /\ sent'[s][i].hi = joinedAt[s] + i
        BY <3>3, <3>4, <3>5, <3>6
      <3>. QED
        BY <2>1, <3>7, <3>8
    <2>3. CASE ~(s \in subs /\ HasRoom(s))
      <3>1. sent'[s] = sent[s]
        BY <1>0, <1>1, <2>3 DEF Write, FanOut
      <3>2. joinedAt[s] + Len(sent[s]) <= pos
        BY DEF FeederLog
      <3>3. joinedAt[s] + Len(sent[s]) <= pos + 1
        BY <1>0, <3>2
      <3>. QED
        BY <2>1, <3>1, <3>3 DEF FeederLog
    <2>. QED
      BY <2>2, <2>3
  <1>2. ASSUME NEW s \in Subs, Subscribe(s) PROVE FeederLog'
    <2>1. \A t \in Feeders : t # s => sent'[t] = sent[t] /\ joinedAt'[t] = joinedAt[t]
      BY <1>0, <1>2 DEF Subscribe, TypeOK
    <2>2. s \in Feeders => sent'[s] = <<>> /\ joinedAt'[s] = pos
      BY <1>2, HubAssumption DEF Subscribe, TypeOK, FirstPieces, HubAssumption
    <2>3. s \in Feeders => Len(sent'[s]) = 0
      BY <2>2
    <2>4. pos' = pos
      BY <1>2 DEF Subscribe
    <2>. QED
      BY <1>0, <2>1, <2>2, <2>3, <2>4 DEF FeederLog
  <1>3. CASE UNCHANGED <<pos, sent, joinedAt>>
    BY <1>3 DEF FeederLog
  <1>4. ASSUME NEW s \in Subs, \/ Refuse(s) \/ Receive(s) \/ WriteFails(s) \/ FeederStops(s) \/ Drained(s)
        PROVE  UNCHANGED <<pos, sent, joinedAt>>
    BY <1>4 DEF Refuse, Receive, WriteFails, FeederStops, Drained, Leaving, chanVars
  <1>5. ASSUME NEW a \in Closers, Close(a) PROVE UNCHANGED <<pos, sent, joinedAt>>
    BY <1>5 DEF Close, chanVars
  <1>6. ASSUME NEW a \in Actors, NEW s \in Subs, Unsubscribe(a, s) \/ CloseChan(a, s)
        PROVE  UNCHANGED <<pos, sent, joinedAt>>
    BY <1>6 DEF Unsubscribe, CloseChan, chanVars
  <1>7. CASE UNCHANGED vars
    BY <1>3, <1>7 DEF vars, chanVars
  <1>. QED
    BY <1>1, <1>2, <1>3, <1>4, <1>5, <1>6, <1>7, NextCases

(* The hub invariants the supervisor relies on. *)
OnHub == TypeOK /\ Handover /\ Stream /\ LeftIsOut /\ FeederLog

LEMMA OnHubAlways == Spec => []OnHub
  <1>1. Init => LeftIsOut
    BY DEF Init, LeftIsOut
  <1>2. Init => FeederLog
    <2>. SUFFICES ASSUME Init PROVE FeederLog
      OBVIOUS
    <2>1. \A s \in Feeders : sent[s] = <<>> /\ joinedAt[s] = 0 /\ pos = 0
      BY DEF Init, Subs
    <2>2. \A s \in Feeders : Len(sent[s]) = 0
      BY <2>1
    <2>. QED
      BY <2>1, <2>2 DEF FeederLog
  <1>. QED
    BY <1>1, <1>2, StreamAlways, LeftIsOutStep, FeederLogStep, PTL DEF OnHub, Spec

-----------------------------------------------------------------------------
(* At most the feeder at hand is subscribed, and between two lives of      *)
(* ffmpeg its goroutine has left.                                          *)
OnlyFeeder ==
    /\ subs \intersect Feeders \subseteq {feeder}
    /\ sup # "running" /\ feeder # None => owner[feeder] = "left"

LEMMA OnlyFeederStep ==
    OnHub /\ HLSTypeOK /\ OnlyFeeder /\ [HLSNext]_allVars => OnlyFeeder'
  <1>. SUFFICES ASSUME OnHub, HLSTypeOK, OnlyFeeder, [HLSNext]_allVars PROVE OnlyFeeder'
    OBVIOUS
  <1>0. /\ \A f \in Feeders : f \in Subs /\ f \notin Clients
        /\ TypeOK /\ (feeder # None => feeder \in Feeders)
    BY HubAssumption DEF OnHub, HLSTypeOK, Subs, HubAssumption
  <1>1. CASE HubStep
    <2>1. UNCHANGED <<sup, feeder>>
      BY <1>1 DEF HubStep, hlsVars
    <2>2. /\ subs' \intersect Feeders \subseteq subs \intersect Feeders
          /\ \A f \in Feeders : owner'[f] = owner[f]
      <3>1. CASE Write
        BY <3>1 DEF Write
      <3>2. ASSUME NEW s \in Clients, OwnerStep(s)
            PROVE  /\ subs' \subseteq subs \union {s}
                   /\ \A f \in Feeders : owner'[f] = owner[f]
        <4>1. s \notin Feeders
          BY <1>0
        <4>. QED
          BY <1>0, <3>2, <4>1 DEF OwnerStep, Subscribe, Refuse, Receive, WriteFails,
                                  FeederStops, Drained, Leaving, TypeOK
      <3>3. ASSUME NEW a \in Closers, Close(a) PROVE subs' = {} /\ owner' = owner
        BY <3>3 DEF Close
      <3>4. ASSUME NEW a \in Actors, Cleanup(a) PROVE subs' \subseteq subs /\ owner' = owner
        BY <3>4 DEF Cleanup, Unsubscribe, CloseChan
      <3>. QED
        BY <1>0, <1>1, <3>1, <3>2, <3>3, <3>4 DEF HubStep
    <2>. QED
      BY <1>0, <2>1, <2>2 DEF OnlyFeeder
  <1>2. ASSUME NEW f \in Feeders, StartOk(f) PROVE OnlyFeeder'
    <2>1. subs \intersect Feeders = {}
      <3>1. CASE feeder = None
        BY <1>0, <3>1, HLSAssumption DEF OnlyFeeder, HLSAssumption
      <3>2. CASE feeder # None
        <4>1. owner[feeder] = "left" /\ todo[feeder] = {} /\ feeder \in Subs
          BY <1>0, <1>2, <3>2 DEF StartOk, Unsubscribed, OnlyFeeder
        <4>. QED
          BY <4>1 DEF OnHub, LeftIsOut, OnlyFeeder
      <3>. QED
        BY <3>1, <3>2
    <2>. QED
      BY <1>2, <2>1 DEF StartOk, Subscribe, OnlyFeeder
  <1>3. ASSUME NEW f \in Feeders, StartRefused(f) PROVE OnlyFeeder'
    <2>1. /\ subs' = subs /\ feeder' = feeder /\ sup = "launching" /\ sup' = "backoff"
          /\ \A s \in Subs : owner[s] = "left" => owner'[s] = "left"
      BY <1>0, <1>3 DEF StartRefused, Refuse, TypeOK
    <2>. QED
      BY <1>0, <2>1 DEF OnlyFeeder
  <1>4. CASE Feed
    BY <1>4 DEF Feed, Receive, OnlyFeeder
  <1>5. ASSUME FeederStops(feeder), feeder' = feeder PROVE OnlyFeeder'
    <2>1. subs' = subs /\ owner'[feeder] = "left"
      BY <1>0, <1>5 DEF FeederStops, Leaving, TypeOK
    <2>. QED
      BY <1>5, <2>1 DEF OnlyFeeder
  <1>6. CASE RunOnceReturns
    BY <1>5, <1>6 DEF RunOnceReturns
  <1>7. CASE Stops
    <2>1. CASE sup = "running"
      BY <1>5, <1>7, <2>1 DEF Stops
    <2>2. CASE sup # "running"
      BY <1>7, <2>2 DEF Stops, OnlyFeeder, vars
    <2>. QED
      BY <2>1, <2>2
  <1>8. CASE Launch \/ StartFails \/ ChannelEnds \/ Exits \/ BackoffEnds \/ Cancel
    BY <1>8 DEF Launch, StartFails, ChannelEnds, Exits, BackoffEnds, Cancel, OnlyFeeder, vars
  <1>9. CASE UNCHANGED allVars
    BY <1>9 DEF allVars, hlsVars, vars, OnlyFeeder
  <1>. QED
    BY <1>1, <1>2, <1>3, <1>4, <1>6, <1>7, <1>8, <1>9, HLSCases

LEMMA OnHubHLS == HLSSpec => [](OnHub /\ HLSTypeOK)
  BY HLSOnHub, OnHubAlways, HLSTypes, PTL

(* A restart of ffmpeg never overlaps its predecessor in the hub. *)
THEOREM AlwaysOneFeeder == HLSSpec => []OneFeeder
  <1>1. HLSInit => OnlyFeeder
    BY DEF HLSInit, Init, OnlyFeeder
  <1>2. OnHub /\ OnlyFeeder => OneFeeder
    <2>. SUFFICES ASSUME OnlyFeeder PROVE Cardinality(subs \intersect Feeders) <= 1
      BY DEF OneFeeder, OnlyFeeder
    <2>1. /\ IsFiniteSet({feeder}) /\ Cardinality({feeder}) = 1
      BY FS_Singleton
    <2>2. subs \intersect Feeders \subseteq {feeder}
      BY DEF OnlyFeeder
    <2>. QED
      BY <2>1, <2>2, FS_Subset
  <1>. QED
    BY <1>1, <1>2, OnHubHLS, OnlyFeederStep, PTL DEF HLSSpec

-----------------------------------------------------------------------------
(* What has been fed is in the past, and behind what this life of ffmpeg   *)
(* takes next.                                                             *)
Fed ==
    /\ NeverFedTwice
    /\ \A i \in 1 .. Len(fed) : fed[i].hi <= pos
    /\ feeder # None => \A i \in 1 .. Len(fed) : fed[i].hi <= joinedAt[feeder] + rcvd[feeder]

LEMMA FedStep == OnHub /\ HLSTypeOK /\ Fed /\ [HLSNext]_allVars => Fed'
  <1>. SUFFICES ASSUME OnHub, HLSTypeOK, Fed, [HLSNext]_allVars PROVE Fed'
    OBVIOUS
  <1>0. /\ \A f \in Feeders : f \in Subs /\ f \notin Clients
        /\ TypeOK /\ (feeder # None => feeder \in Feeders)
        /\ pos \in Nat /\ fed \in Seq(Piece)
        /\ \A f \in Feeders : joinedAt[f] \in Nat /\ rcvd[f] \in Nat
    BY HubAssumption DEF OnHub, TypeOK, HLSTypeOK, Subs, HubAssumption
  <1>01. \A i \in 1 .. Len(fed) : fed[i].hi \in Nat
    <2>1. \A i \in 1 .. Len(fed) : fed[i] \in Piece
      BY <1>0
    <2>. QED
      BY <2>1 DEF Piece
  <1>1. ASSUME UNCHANGED <<feeder, fed>>, pos' \in Nat, pos <= pos',
               \A f \in Feeders : joinedAt'[f] = joinedAt[f] /\ rcvd'[f] = rcvd[f]
        PROVE  Fed'
    <2>1. NeverFedTwice'
      BY <1>1 DEF Fed, NeverFedTwice
    <2>2. \A i \in 1 .. Len(fed) : fed[i].hi <= pos'
      BY <1>0, <1>01, <1>1 DEF Fed
    <2>. QED
      BY <1>0, <1>1, <2>1, <2>2 DEF Fed
  <1>2. CASE HubStep
    <2>1. UNCHANGED <<feeder, fed>>
      BY <1>2 DEF HubStep, hlsVars
    <2>2. CASE Write
      BY <1>0, <1>1, <2>1, <2>2 DEF Write
    <2>3. ASSUME NEW s \in Clients, OwnerStep(s)
          PROVE  pos' = pos /\ \A f \in Feeders : joinedAt'[f] = joinedAt[f] /\ rcvd'[f] = rcvd[f]
      <3>1. s \notin Feeders
        BY <1>0
      <3>. QED
        BY <1>0, <2>3, <3>1 DEF OwnerStep, Subscribe, Refuse, Receive, WriteFails,
                                FeederStops, Drained, Leaving, TypeOK, chanVars
    <2>4. ASSUME NEW a \in Closers, Close(a) PROVE UNCHANGED <<pos, joinedAt, rcvd>>
      BY <2>4 DEF Close, chanVars
    <2>5. ASSUME NEW a \in Actors, Cleanup(a) PROVE UNCHANGED <<pos, joinedAt, rcvd>>
      BY <2>5 DEF Cleanup, Unsubscribe, CloseChan, chanVars
    <2>. QED
      BY <1>0, <1>1, <1>2, <2>1, <2>2, <2>3, <2>4, <2>5 DEF HubStep
  <1>3. ASSUME NEW f \in Feeders, StartOk(f) PROVE Fed'
    <2>1. UNCHANGED <<fed, pos, rcvd>> /\ feeder' = f /\ joinedAt'[f] = pos
      BY <1>0, <1>3 DEF StartOk, Subscribe, TypeOK
    <2>2. \A i \in 1 .. Len(fed) : fed[i].hi <= pos + rcvd[f]
      BY <1>0, <1>01 DEF Fed
    <2>. QED
      BY <2>1, <2>2 DEF Fed, NeverFedTwice
  <1>4. ASSUME NEW f \in Feeders, StartRefused(f) PROVE Fed'
    BY <1>0, <1>1, <1>4 DEF StartRefused, Refuse, chanVars
  <1>5. CASE Feed
    <2>. DEFINE r == rcvd[feeder] + 1
                piece == sent[feeder][r]
    <2>1. /\ feeder \in Feeders /\ r \in 1 .. Len(sent[feeder]) /\ piece \in Piece
      BY <1>0, <1>5, FedPiece
    <2>2. /\ fed' = Append(fed, piece) /\ rcvd'[feeder] = r
          /\ UNCHANGED <<feeder, pos, joinedAt>>
      BY <1>0, <1>5, <2>1 DEF Feed, Receive, TypeOK
    <2>3. piece.lo = joinedAt[feeder] + r /\ piece.hi = joinedAt[feeder] + r
      BY <2>1 DEF OnHub, FeederLog
    <2>4. sent[feeder] \in Seq(Piece) /\ joinedAt[feeder] + Len(sent[feeder]) <= pos
      BY <1>0, <2>1 DEF OnHub, FeederLog, TypeOK
    <2>5. piece.hi <= pos
      BY <1>0, <2>1, <2>3, <2>4
    <2>6. feeder # None
      BY <1>0, <2>1, HLSAssumption DEF HLSAssumption
    <2>7. \A i \in 1 .. Len(fed) : fed[i].hi < joinedAt[feeder] + r
      BY <1>0, <1>01, <2>1, <2>6 DEF Fed
    <2>8. /\ Len(fed') = Len(fed) + 1 /\ Len(fed) \in Nat /\ fed'[Len(fed) + 1] = piece
          /\ \A i \in 1 .. Len(fed) : fed'[i] = fed[i]
      BY <1>0, <2>1, <2>2
    <2>9. NeverFedTwice'
      <3>. SUFFICES ASSUME NEW i \in 1 .. Len(fed') - 1
                    PROVE  fed'[i].hi < fed'[i + 1].lo
        BY DEF NeverFedTwice
      <3>1. CASE i = Len(fed)
        BY <2>3, <2>7, <2>8, <3>1
      <3>2. CASE i # Len(fed)
        <4>1. i \in 1 .. Len(fed) - 1 /\ i \in 1 .. Len(fed) /\ i + 1 \in 1 .. Len(fed)
          BY <2>8, <3>2
        <4>. QED
          BY <2>8, <4>1 DEF Fed, NeverFedTwice
      <3>. QED
        BY <3>1, <3>2
    <2>10. \A i \in 1 .. Len(fed') : i \in 1 .. Len(fed) \/ i = Len(fed) + 1
      BY <2>8
    <2>11. \A i \in 1 .. Len(fed') : fed'[i].hi <= pos
      BY <2>5, <2>8, <2>10 DEF Fed
    <2>12. \A i \in 1 .. Len(fed') : fed'[i].hi <= joinedAt[feeder] + r
      <3>1. \A i \in 1 .. Len(fed) : fed[i].hi <= joinedAt[feeder] + r
        BY <1>0, <1>01, <2>1, <2>7
      <3>2. piece.hi <= joinedAt[feeder] + r
        BY <1>0, <2>1, <2>3
      <3>. QED
        BY <2>8, <2>10, <3>1, <3>2
    <2>. QED
      BY <2>2, <2>9, <2>11, <2>12 DEF Fed
  <1>6. ASSUME FeederStops(feeder), UNCHANGED <<feeder, fed>> PROVE Fed'
    BY <1>0, <1>1, <1>6 DEF FeederStops, Leaving
  <1>7. CASE RunOnceReturns
    BY <1>6, <1>7 DEF RunOnceReturns
  <1>8. CASE Stops
    BY <1>0, <1>1, <1>6, <1>8 DEF Stops, vars, chanVars
  <1>9. CASE Launch \/ StartFails \/ ChannelEnds \/ Exits \/ BackoffEnds \/ Cancel
    BY <1>0, <1>1, <1>9 DEF Launch, StartFails, ChannelEnds, Exits, BackoffEnds, Cancel, vars, chanVars
  <1>10. CASE UNCHANGED allVars
    BY <1>0, <1>1, <1>10 DEF allVars, hlsVars, vars, chanVars
  <1>. QED
    BY <1>2, <1>3, <1>4, <1>5, <1>7, <1>8, <1>9, <1>10, HLSCases

(* Over all the lives of ffmpeg no chunk is segmented twice or out of      *)
(* order.                                                                  *)
THEOREM AlwaysNeverFedTwice == HLSSpec => []NeverFedTwice
  <1>1. HLSInit => Fed
    BY DEF HLSInit, Fed, NeverFedTwice
  <1>2. Fed => NeverFedTwice
    BY DEF Fed
  <1>. QED
    BY <1>1, <1>2, OnHubHLS, FedStep, PTL DEF HLSSpec

-----------------------------------------------------------------------------
(* The process. *)

LEMMA StationCases ==
    ASSUME StationNext
    PROVE  /\ ~panicked /\ Running
           /\ \/ Broadcasting /\ UNCHANGED stationVars
              \/ HLSStep /\ UNCHANGED stationVars
              \/ Signal \/ DrainEnds \/ WaitEnds \/ CloseHub \/ Exit
              \/ \E w \in busy : WorkerReturns(w)
  BY DEF StationNext, Shutdown

(* Each step of the station is a step of HLS or leaves it alone.           *)
LEMMA StepOnHLS == [StationNext]_everything => [HLSNext]_allVars
  <1>. SUFFICES ASSUME StationNext PROVE [HLSNext]_allVars
    BY DEF everything
  <1>1. CASE Broadcasting
    <2>1. HubStep
      BY <1>1 DEF Broadcasting, HubStep, OwnerStep
    <2>. QED
      BY <2>1, StationCases DEF HLSNext
  <1>2. CASE HLSStep
    BY <1>2, StationCases DEF HLSNext
  <1>3. CASE DrainEnds
    BY <1>3, StationCases DEF DrainEnds, HLSNext
  <1>4. CASE CloseHub
    <2>1. HubStep
      BY <1>4, StationAssumption DEF CloseHub, HubStep, StationAssumption
    <2>. QED
      BY <2>1, StationCases DEF HLSNext
  <1>5. CASE Signal \/ WaitEnds \/ Exit \/ \E w \in busy : WorkerReturns(w)
    BY <1>5 DEF Signal, WaitEnds, Exit, WorkerReturns
  <1>. QED
    BY <1>1, <1>2, <1>3, <1>4, <1>5, StationCases

(* The station implements the supervisor on a hub that anybody may close   *)
(* and a context that may end at any time, so that each theorem of         *)
(* this module is one about the process.                                   *)
THEOREM StationOnHLS == StationSpec => HLSSpec
  <1>1. StationInit => HLSInit
    BY DEF StationInit
  <1>. QED
    BY <1>1, StepOnHLS, PTL DEF StationSpec, HLSSpec

(* What listeners and HLS are promised while main shuts the process down.  *)
THEOREM StationKeepsBroadcast ==
    StationSpec => [](NoPanic /\ ClientsExact /\ NobodyStranded /\ GapFree /\ NeverFedTwice)
  BY StationOnHLS, HLSOnHub, NeverPanics, AlwaysClientsExact, AlwaysNobodyStranded, AlwaysGapFree,
     AlwaysNeverFedTwice, PTL

(* The whole process is a broadcast: main, its two bounded waits and a     *)
(* signal at any time change nothing of what a listener hears.             *)
THEOREM StationIsBroadcast == StationSpec => ImplementsBroadcast
  BY StationOnHLS, HLSOnHub, HubIsBroadcast

-----------------------------------------------------------------------------
LEMMA StationTypeInit == StationInit => StationTypeOK
  BY TypeInit, HLSTypeInit DEF StationInit, StationTypeOK, HLSInit

LEMMA StationTypeStep == StationTypeOK /\ [StationNext]_everything => StationTypeOK'
  <1>. SUFFICES ASSUME StationTypeOK, [StationNext]_everything PROVE StationTypeOK'
    OBVIOUS
  <1>1. TypeOK' /\ HLSTypeOK'
    BY TypeStep, HLSTypeStep, StepOnHub, StepOnHLS DEF StationTypeOK
  <1>2. CASE UNCHANGED stationVars
    BY <1>1, <1>2 DEF StationTypeOK, stationVars
  <1>3. CASE Signal \/ DrainEnds \/ WaitEnds \/ Exit \/ \E w \in busy : WorkerReturns(w)
    BY <1>1, <1>3 DEF StationTypeOK, Signal, DrainEnds, WaitEnds, Exit, WorkerReturns
  <1>4. CASE CloseHub
    BY <1>2, <1>4 DEF CloseHub
  <1>. QED
    BY <1>2, <1>3, <1>4, StationCases DEF everything

LEMMA StationTypes == StationSpec => []StationTypeOK
  BY StationTypeInit, StationTypeStep, PTL DEF StationSpec

(* Every reachable state of the station has its type. *)
THEOREM StationTypeCorrect == StationSpec => []StationTypeOK
  BY StationTypes

-----------------------------------------------------------------------------
(* Why the shutdown is in order: a worker that has returned, and a         *)
(* supervisor that has, leave nothing to be done, and nothing starts them  *)
(* again once the context has ended.                                       *)
InOrder ==
    /\ phase \in {"waiting", "closing", "exited"} => ~ctx
    /\ Pump \notin busy => todo[Pump] = {} /\ shut[Pump] = {}
    /\ sup # "running" => ffmpeg = "none"
    /\ phase \in {"closing", "exited"} /\ ~gaveUp => Finished

LEMMA InOrderInit == StationInit => InOrder
  BY StationAssumption DEF StationInit, HLSInit, InOrder, StationAssumption

(* Whoever has nothing to remove or close gets nothing from the clean-up.  *)
LEMMA CleanupStays ==
    ASSUME TypeOK, NEW a \in Actors, Cleanup(a), NEW b \in Actors, todo[b] = {}, shut[b] = {}
    PROVE  todo'[b] = {} /\ shut'[b] = {}
  <1>1. ASSUME NEW s \in Subs, Unsubscribe(a, s) PROVE todo'[b] = {} /\ shut'[b] = {}
    BY <1>1 DEF Unsubscribe, TypeOK
  <1>2. ASSUME NEW s \in Subs, CloseChan(a, s) PROVE todo'[b] = {} /\ shut'[b] = {}
    BY <1>2 DEF CloseChan, TypeOK
  <1>. QED
    BY <1>1, <1>2 DEF Cleanup

(* What a subscriber's own step leaves alone. *)
LEMMA OwnStep ==
    ASSUME TypeOK, NEW s \in Subs,
           Subscribe(s) \/ Refuse(s) \/ Receive(s) \/ WriteFails(s) \/ FeederStops(s) \/ Drained(s)
    PROVE  shut' = shut /\ \A b \in Actors : b # s => todo'[b] = todo[b]
  BY DEF Subscribe, Refuse, Receive, WriteFails, FeederStops, Drained, Leaving, TypeOK

LEMMA InOrderStep == StationTypeOK /\ InOrder /\ [StationNext]_everything => InOrder'
  <1>. SUFFICES ASSUME StationTypeOK, InOrder, [StationNext]_everything PROVE InOrder'
    OBVIOUS
  <1>0. /\ TypeOK /\ HLSTypeOK
        /\ Pump \in Actors /\ Pump \notin Subs /\ Main \in Actors /\ Main \notin Subs /\ Main # Pump
        /\ Subs \subseteq Actors /\ Clients \subseteq Subs /\ Feeders \subseteq Subs
        /\ \A s \in Clients : s \notin Feeders
        /\ feeder # None => feeder \in Feeders
    BY HubAssumption, StationAssumption
    DEF StationTypeOK, HLSTypeOK, Actors, Subs, HubAssumption, StationAssumption
  <1>1. ASSUME UNCHANGED hlsVars, UNCHANGED stationVars,
               \A b \in Actors : (b = Pump \/ b \in Feeders) /\ todo[b] = {} /\ shut[b] = {}
                                    => todo'[b] = {} /\ shut'[b] = {}
        PROVE  InOrder'
    BY <1>0, <1>1 DEF hlsVars, stationVars, InOrder, Finished, Unsubscribed
  <1>2. CASE Broadcasting /\ UNCHANGED stationVars
    <2>1. UNCHANGED hlsVars
      BY <1>2 DEF Broadcasting
    <2>2. CASE Write /\ Pump \in busy
      BY <1>2, <2>1, <2>2 DEF hlsVars, stationVars, InOrder, Finished
    <2>3. ASSUME NEW s \in Clients,
                 Subscribe(s) \/ Refuse(s) \/ Receive(s) \/ WriteFails(s) \/ Drained(s)
          PROVE  InOrder'
      <3>1. s \in Subs /\ s # Pump /\ s \notin Feeders
        BY <1>0
      <3>2. shut' = shut /\ \A b \in Actors : b # s => todo'[b] = todo[b]
        BY <1>0, <2>3, <3>1, OwnStep
      <3>. QED
        BY <1>1, <1>2, <2>1, <3>1, <3>2
    <2>4. ASSUME NEW a \in Actors, Cleanup(a) PROVE InOrder'
      <3>1. \A b \in Actors : todo[b] = {} /\ shut[b] = {} => todo'[b] = {} /\ shut'[b] = {}
        BY <1>0, <2>4, CleanupStays
      <3>. QED
        BY <1>1, <1>2, <2>1, <3>1
    <2>. QED
      BY <1>2, <2>2, <2>3, <2>4 DEF Broadcasting
  <1>3. CASE HLSStep /\ UNCHANGED stationVars
    <2>1. ASSUME NEW s \in Feeders, Subscribe(s) \/ Refuse(s) \/ Receive(s) \/ FeederStops(s)
          PROVE  todo'[Pump] = todo[Pump] /\ shut'[Pump] = shut[Pump]
      <3>1. s \in Subs /\ s # Pump
        BY <1>0
      <3>. QED
        BY <1>0, <2>1, <3>1, OwnStep
    <2>2. sup # "returned"
      BY <1>3 DEF HLSStep, StartOk, StartRefused, Launch, StartFails, Feed, ChannelEnds, Exits,
                  RunOnceReturns, BackoffEnds, Stops, InOrder
    <2>3. ~(phase \in {"closing", "exited"} /\ ~gaveUp)
      BY <2>2 DEF InOrder, Finished
    <2>4. \/ \E f \in Feeders : StartOk(f) \/ StartRefused(f)
          \/ Feed \/ RunOnceReturns \/ Stops
          \/ Launch \/ StartFails \/ ChannelEnds \/ Exits \/ BackoffEnds
      BY <1>3 DEF HLSStep
    <2>5. todo'[Pump] = todo[Pump] /\ shut'[Pump] = shut[Pump]
      <3>1. CASE \E f \in Feeders : StartOk(f) \/ StartRefused(f)
        BY <2>1, <3>1 DEF StartOk, StartRefused
      <3>2. CASE Feed \/ RunOnceReturns \/ (Stops /\ sup = "running")
        <4>1. feeder \in Feeders
          BY <1>0, <3>2 DEF Feed, RunOnceReturns, HLSTypeOK
        <4>. QED
          BY <2>1, <3>2, <4>1 DEF Feed, RunOnceReturns, Stops
      <3>3. CASE Launch \/ StartFails \/ ChannelEnds \/ Exits \/ BackoffEnds \/ (Stops /\ sup # "running")
        BY <3>3 DEF Launch, StartFails, ChannelEnds, Exits, BackoffEnds, Stops, vars
      <3>. QED
        BY <2>4, <3>1, <3>2, <3>3
    <2>6. sup' # "running" => ffmpeg' = "none"
      BY <1>3 DEF HLSStep, StartOk, StartRefused, Launch, StartFails, Feed, ChannelEnds, Exits,
                  RunOnceReturns, BackoffEnds, Stops, InOrder
    <2>7. ctx' = ctx
      BY <1>3 DEF HLSStep, StartOk, StartRefused, Launch, StartFails, Feed, ChannelEnds, Exits,
                  RunOnceReturns, BackoffEnds, Stops
    <2>. QED
      BY <1>3, <2>3, <2>5, <2>6, <2>7 DEF stationVars, InOrder
  <1>4. CASE Signal \/ Exit
    BY <1>4 DEF Signal, Exit, allVars, vars, hlsVars, InOrder, Finished, Unsubscribed
  <1>5. CASE DrainEnds
    BY <1>5 DEF DrainEnds, Cancel, vars, InOrder, Finished, Unsubscribed
  <1>6. CASE WaitEnds
    BY <1>6 DEF WaitEnds, allVars, vars, hlsVars, InOrder, Finished, Unsubscribed
  <1>7. CASE CloseHub
    <2>1. \A b \in Actors : b # Main => todo'[b] = todo[b] /\ shut'[b] = shut[b]
      BY <1>0, <1>7 DEF CloseHub, Close, TypeOK
    <2>2. \A b \in Actors : b = Pump \/ b \in Feeders => b # Main
      BY <1>0
    <2>. QED
      BY <1>1, <1>7, <2>1, <2>2 DEF CloseHub
  <1>8. ASSUME NEW w \in busy, WorkerReturns(w) PROVE InOrder'
    BY <1>8 DEF WorkerReturns, allVars, vars, hlsVars, InOrder, Finished, Unsubscribed
  <1>9. CASE UNCHANGED everything
    BY <1>9 DEF everything, allVars, vars, hlsVars, stationVars, InOrder, Finished, Unsubscribed
  <1>. QED
    BY <1>2, <1>3, <1>4, <1>5, <1>6, <1>7, <1>8, <1>9, StationCases

(* Unless the wait was given up the hub is closed over nobody, and no      *)
(* ffmpeg is left behind.                                                  *)
THEOREM AlwaysClosedInOrder == StationSpec => []ClosedInOrder
  <1>1. OnHub /\ HLSTypeOK /\ OnlyFeeder /\ InOrder => ClosedInOrder
    <2>. SUFFICES ASSUME OnHub, HLSTypeOK, OnlyFeeder, InOrder,
                         phase \in {"closing", "exited"}, ~gaveUp
                  PROVE  /\ ffmpeg = "none" /\ subs \intersect Feeders = {}
                         /\ todo[Pump] = {} /\ shut[Pump] = {}
      BY DEF ClosedInOrder
    <2>1. Finished
      BY DEF InOrder
    <2>2. ffmpeg = "none" /\ todo[Pump] = {} /\ shut[Pump] = {}
      BY <2>1 DEF InOrder, Finished
    <2>3. ASSUME NEW f \in subs \intersect Feeders PROVE FALSE
      <3>1. f = feeder /\ f \in Subs /\ f # None
        BY <2>3, HLSAssumption DEF OnlyFeeder, Subs, HLSAssumption
      <3>2. owner[f] = "left" /\ todo[f] = {}
        BY <2>1, <3>1 DEF OnlyFeeder, Finished, Unsubscribed
      <3>. QED
        BY <2>3, <3>1, <3>2 DEF OnHub, LeftIsOut
    <2>. QED
      BY <2>2, <2>3
  <1>2. HLSInit => OnlyFeeder
    BY DEF HLSInit, Init, OnlyFeeder
  <1>3. HLSSpec => []OnlyFeeder
    BY <1>2, OnHubHLS, OnlyFeederStep, PTL DEF HLSSpec
  <1>4. StationSpec => []InOrder
    BY InOrderInit, InOrderStep, StationTypes, PTL DEF StationSpec
  <1>. QED
    BY <1>1, <1>3, <1>4, StationOnHLS, OnHubHLS, PTL
=============================================================================
