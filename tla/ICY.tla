-------------------------------- MODULE ICY --------------------------------
(***************************************************************************)
(* internal/broadcast/icy.go: ICYStream inserts a metadata block after     *)
(* every MetaInt bytes of audio, and the player at the other end (external *)
(* to the program) tells audio from metadata by counting bytes.  The title *)
(* is changed by the engine at any moment.  A byte of audio is its         *)
(* position in the encoder's output.                                       *)
(*                                                                         *)
(* A title is a sequence of runes: one byte ("a"), Wide bytes ("w"), a     *)
(* delimiter of the StreamTitle key ("'" or ";") or what it becomes, a      *)
(* control code ("^").                                                     *)
(***************************************************************************)
EXTENDS Integers, Sequences, FiniteSetsExt, Filters

CONSTANTS
    MetaInt,                \* ICYMetaInt
    Titles, Station,        \* titles the engine sets; the station name
    Prefix, Suffix,         \* len(icyPrefix), len(icySuffix)
    Unit, MaxUnits,         \* 16, and the 255 a length byte can count
    Wide                    \* bytes of a wide rune

Runes == {"a", "w", "'", ";", "^", " ", ","}

ASSUME ICYAssumption ==
    /\ MetaInt \in Nat \ {0}
    /\ Unit \in Nat \ {0} /\ MaxUnits \in Nat
    /\ Prefix \in Nat \ {0} /\ Suffix \in Nat /\ Prefix + Suffix <= Unit * MaxUnits
    /\ Wide \in Nat \ {0} /\ Station # <<>>
    /\ \A t \in Titles \union {Station} : t \in Seq(Runes)

VARIABLES
    meta,        \* hub.meta, <<>> until the engine sets it
    wantMeta,    \* the listener asked for metadata
    lastTitle,   \* local variables of ICYStream: the last title sent,
    until,       \* bytesUntilMeta,
    chunk,       \* what is left of the chunk
    rxUntil,     \* the player: audio bytes before the next block,
    rxTitle,     \* the title it shows,
    rxLost,      \* whether it ever took audio for metadata or the reverse,
    heard,       \* the audio it was sent
    atSlot       \* history: the title in force at the last block

serverVars == <<meta, wantMeta, lastTitle, until, chunk>>
playerVars == <<rxUntil, rxTitle, rxLost, heard, atSlot>>
icyVars == <<serverVars, playerVars>>

Bytes(t) == Len(t) + (Wide - 1) * Len(Keep(t, {"w"}))

maxICYPayload    == Unit * MaxUnits
(* Mutant: the framing is not accounted for. *)
maxICYTitleBytes_NoFraming == maxICYPayload

maxICYTitleBytes == maxICYPayload - Prefix - Suffix

(* The longest prefix of whole runes that fits. *)
truncateUTF8(t, max) ==
    SubSeq(t, 1, Max({n \in 0 .. Len(t) : Bytes(SubSeq(t, 1, n)) <= max}))

sanitizeMeta(t) ==
    LET printable == Keep(t, Runes \ {"^"})
        Replace(r) == CASE r = "'" -> " " [] r = ";" -> "," [] OTHER -> r
    IN  [i \in 1 .. Len(printable) |-> Replace(printable[i])]

Wire(t) == truncateUTF8(sanitizeMeta(t), maxICYTitleBytes)

(* Length of the block after its length byte: padded to whole units. *)
PayloadLen(t) == LET n == Prefix + Bytes(Wire(t)) + Suffix
                 IN  ((n + Unit - 1) \div Unit) * Unit

(* byte(len/16): what a single byte keeps of it. *)
LenByte(t) == (PayloadLen(t) \div Unit) % (MaxUnits + 1)

titleFn == IF meta = <<>> THEN Station ELSE meta

(* Mutant: the title a listener joins under counts as already sent. *)
ICYInit_TitleKnown ==
    /\ meta = <<>> /\ wantMeta \in BOOLEAN
    /\ lastTitle = Station /\ until = MetaInt /\ chunk = <<>>
    /\ rxUntil = MetaInt /\ rxTitle = <<>> /\ rxLost = FALSE
    /\ heard = <<>> /\ atSlot = <<>>

ICYInit ==
    /\ meta = <<>> /\ wantMeta \in BOOLEAN
    /\ lastTitle = <<>> /\ until = MetaInt /\ chunk = <<>>
    /\ rxUntil = MetaInt /\ rxTitle = <<>> /\ rxLost = FALSE
    /\ heard = <<>> /\ atSlot = <<>>

SetMetadata(t) ==
    /\ meta' = t
    /\ UNCHANGED <<wantMeta, lastTitle, until, chunk, playerVars>>

NextChunk(bytes) ==
    /\ chunk = <<>>
    /\ chunk' = bytes
    /\ UNCHANGED <<meta, wantMeta, lastTitle, until, playerVars>>

(* The block due before the next audio byte: the title if it has changed,  *)
(* an empty one (a zero length byte) otherwise.                            *)
WriteBlock ==
    /\ wantMeta /\ chunk # <<>> /\ until = 0
    /\ IF titleFn # lastTitle
         THEN /\ lastTitle' = titleFn
              /\ rxTitle' = IF LenByte(titleFn) = 0 THEN rxTitle ELSE Wire(titleFn)
              /\ rxLost' = (rxLost \/ rxUntil # 0 \/ LenByte(titleFn) * Unit # PayloadLen(titleFn))
         ELSE /\ rxLost' = (rxLost \/ rxUntil # 0)
              /\ UNCHANGED <<lastTitle, rxTitle>>
    /\ until' = MetaInt
    /\ rxUntil' = MetaInt
    /\ atSlot' = titleFn
    /\ UNCHANGED <<meta, wantMeta, chunk, heard>>

(* Audio up to the next block.  A player without metadata does not count.  *)
WriteAudio ==
    /\ chunk # <<>> /\ ~(wantMeta /\ until = 0)
    /\ LET n == IF wantMeta /\ Len(chunk) > until THEN until ELSE Len(chunk) IN
         /\ chunk' = SubSeq(chunk, n + 1, Len(chunk))
         /\ heard' = heard \o SubSeq(chunk, 1, n)
         /\ IF wantMeta
              THEN /\ until' = until - n
                   /\ rxLost' = (rxLost \/ n > rxUntil)
                   /\ rxUntil' = IF n > rxUntil THEN 0 ELSE rxUntil - n
              ELSE UNCHANGED <<until, rxLost, rxUntil>>
    /\ UNCHANGED <<meta, wantMeta, lastTitle, rxTitle, atSlot>>

-----------------------------------------------------------------------------
(* No title breaks out of its quotes or is cut inside a rune, and a block  *)
(* with its framing always fits, so the terminator is never cut off.       *)
WellFramed ==
    /\ \A i \in 1 .. Len(rxTitle) : rxTitle[i] \notin {"'", ";", "^"}
    /\ \E n \in 0 .. Len(atSlot) : rxTitle = sanitizeMeta(SubSeq(atSlot, 1, n))
    /\ Prefix + Bytes(rxTitle) + Suffix <= maxICYPayload

(* What the player shows is the title that was in force at its last block, *)
(* although an unchanged title is not sent again, and it is well framed.   *)
ShowsTitleAtSlot == rxTitle = Wire(atSlot) /\ WellFramed
=============================================================================
