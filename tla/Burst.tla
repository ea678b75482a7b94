------------------------------- MODULE Burst -------------------------------
(***************************************************************************)
(* internal/broadcast/burst.go: the ring that keeps the newest bytes of    *)
(* the encoder's output for a joining listener.  The n-th byte of the      *)
(* stream is the number n; frames are FrameLen bytes long, so byte n is    *)
(* the first of a frame header when n % FrameLen = 0 and the second when   *)
(* it is 1.  Offsets in buf count from 0 as in the code.  The ring is made *)
(* once, with the configured size, before the encoder starts.              *)
(***************************************************************************)
EXTENDS Integers, Sequences, SequencesExt

CONSTANTS
    BytesPerSecond,   \* of the encoder's output
    MaxBurstSeconds,
    Seconds,          \* values of the configured burst, any integers
    FrameLen,         \* at least the two bytes of a header
    MaxChunk, MaxBytes  \* bounds: length of a write, bytes produced

ASSUME BurstAssumption ==
    /\ BytesPerSecond \in Nat /\ MaxBurstSeconds \in Nat /\ Seconds \subseteq Int
    /\ FrameLen \in Nat /\ FrameLen >= 2
    /\ MaxChunk \in Nat /\ MaxBytes \in Nat

VARIABLES
    size,     \* len(b.buf)
    buf,      \* [0 .. size-1 -> stream position, -1 if not written]
    pos,      \* b.pos
    wrapped,  \* b.wrapped
    total     \* bytes the encoder has produced

ringVars == <<size, buf, pos, wrapped, total>>

Least(a, b) == IF a < b THEN a ELSE b

burstBytes(seconds) == IF seconds <= 0 THEN 0
                       ELSE BytesPerSecond * Least(seconds, MaxBurstSeconds)

newBurstBuffer(n) ==
    /\ size = n
    /\ buf = [i \in 0 .. n - 1 |-> -1]
    /\ pos = 0 /\ wrapped = FALSE

(* SetBurstSeconds, at start-up. *)
RingInit == (\E s \in Seconds : newBurstBuffer(burstBytes(s))) /\ total = 0

(* copy(buf[at:], p[from:]) for a p of n bytes that starts at total.       *)
Copied(b, at, from, n) ==
    [i \in 0 .. size - 1 |-> IF at <= i /\ i < at + (n - from) THEN total + from + (i - at) ELSE b[i]]

(* Mutant: pos is not reset by a long chunk. *)
WriteLong_KeepsPos(n) ==
    /\ n >= size
    /\ buf' = Copied(buf, 0, n - size, n)
    /\ wrapped' = TRUE
    /\ UNCHANGED pos

(* Only the tail of a chunk at least as long as the ring is kept. *)
WriteLong(n) ==
    /\ n >= size
    /\ buf' = Copied(buf, 0, n - size, n)
    /\ pos' = 0 /\ wrapped' = TRUE

(* The chunk runs over the end of the ring. *)
WriteOver(n) ==
    /\ n < size /\ n > size - pos
    /\ buf' = Copied(Copied(buf, pos, 0, n), 0, size - pos, n)
    /\ pos' = n - (size - pos) /\ wrapped' = TRUE

WriteWithin(n) ==
    /\ n < size /\ n <= size - pos
    /\ buf' = Copied(buf, pos, 0, n)
    /\ pos' = IF pos + n = size THEN 0 ELSE pos + n
    /\ wrapped' = (wrapped \/ pos + n = size)

write(n) ==
    /\ total + n <= MaxBytes
    /\ total' = total + n
    /\ IF size = 0 \/ n = 0
         THEN UNCHANGED <<buf, pos, wrapped>>
         ELSE WriteLong(n) \/ WriteOver(n) \/ WriteWithin(n)
    /\ UNCHANGED size

Slice(from, to) == [i \in 1 .. to - from |-> buf[from + i - 1]]

snapshot == IF wrapped THEN Slice(pos, size) \o Slice(0, pos) ELSE Slice(0, pos)

IsHeader(b, i) == b[i] % FrameLen = 0 /\ b[i + 1] % FrameLen = 1

alignToFrame(b) ==
    LET headers == {i \in 1 .. Len(b) - 1 : IsHeader(b, i)}
    IN  IF headers = {} THEN b
        ELSE LET first == CHOOSE i \in headers : \A j \in headers : i <= j
             IN  SubSeq(b, first, Len(b))

-----------------------------------------------------------------------------
(* The comment on burstBuffer: the ring keeps the most recent bytes.  What *)
(* a joining listener is handed is, oldest first, the last bytes produced, *)
(* as many as the ring holds but for less than a frame at their front, and *)
(* it opens with a frame header whenever the ring is longer than a frame:  *)
(* no byte missing, stale or out of order, whatever the lengths written.   *)
BurstIsLatest ==
    LET kept  == Least(size, total)
        burst == alignToFrame(snapshot)
    IN  /\ \E cut \in 0 .. FrameLen - 1 :
              burst = [i \in 1 .. kept - cut |-> total - kept + cut + i - 1]
        /\ kept > FrameLen => burst[1] % FrameLen = 0
=============================================================================
