--------------------------- MODULE ListenerProofs ---------------------------
(***************************************************************************)
(* Proofs about one listener, for every size of the ring, of the chunks,   *)
(* of frames and of metadata blocks, and for every title: what a joining   *)
(* listener is handed is the newest part of the stream, from then on it    *)
(* hears every byte once, and its player shows the title in force.         *)
(***************************************************************************)
EXTENDS Listener, FiltersProofs, SequenceTheorems, TLAPS

-----------------------------------------------------------------------------
(* A part of the stream, from the byte a up to, but not with, the byte b.  *)
Seg(a, b) == [i \in 1 .. b - a |-> a + i - 1]

LEMMA SegFacts ==
    ASSUME NEW a \in Nat, NEW b \in Nat, a <= b
    PROVE  /\ Seg(a, b) \in Seq(Nat) /\ Len(Seg(a, b)) = b - a
           /\ \A i \in 1 .. b - a : Seg(a, b)[i] = a + i - 1
           /\ Seg(a, b) = <<>> <=> a = b
  <1>1. Len(Seg(a, b)) = b - a /\ Seg(a, b) \in Seq(Nat)
    BY DEF Seg
  <1>. QED
    BY <1>1 DEF Seg

LEMMA SegConcat ==
    ASSUME NEW a \in Nat, NEW b \in Nat, NEW c \in Nat, a <= b, b <= c
    PROVE  Seg(a, b) \o Seg(b, c) = Seg(a, c)
  <1>1. /\ Seg(a, b) \in Seq(Nat) /\ Seg(b, c) \in Seq(Nat) /\ Seg(a, c) \in Seq(Nat)
        /\ Len(Seg(a, b)) = b - a /\ Len(Seg(b, c)) = c - b /\ Len(Seg(a, c)) = c - a
    <2>1. a <= c
      OBVIOUS
    <2>. QED
      BY <2>1, SegFacts, Zenon
  <1>2. \A i \in 1 .. c - a : (Seg(a, b) \o Seg(b, c))[i] = Seg(a, c)[i]
    BY <1>1 DEF Seg
  <1>3. /\ Seg(a, b) \o Seg(b, c) \in Seq(Nat)
        /\ Len(Seg(a, b) \o Seg(b, c)) = Len(Seg(a, b)) + Len(Seg(b, c))
    BY <1>1, ConcatProperties
  <1>4. Len(Seg(a, b) \o Seg(b, c)) = c - a
    BY <1>1, <1>3
  <1>. QED
    BY <1>1, <1>2, <1>3, <1>4, SeqEqual

LEMMA SegCut ==
    ASSUME NEW a \in Nat, NEW b \in Nat, a <= b, NEW n \in 0 .. b - a
    PROVE  /\ SubSeq(Seg(a, b), 1, n) = Seg(a, a + n)
           /\ SubSeq(Seg(a, b), n + 1, Len(Seg(a, b))) = Seg(a + n, b)
  <1>1. Seg(a, b) \in Seq(Nat) /\ Len(Seg(a, b)) = b - a
    BY SegFacts
  <1>2. /\ SubSeq(Seg(a, b), 1, n) = [i \in 1 .. n |-> Seg(a, b)[i]]
        /\ SubSeq(Seg(a, b), n + 1, b - a) = [i \in 1 .. b - a - n |-> Seg(a, b)[i + n]]
    BY <1>1
  <1>. QED
    BY <1>1, <1>2 DEF Seg

-----------------------------------------------------------------------------
(* What is in the ring: before it is full the stream so far, then the      *)
(* newest bytes, the oldest of them at pos.                                *)
RingType ==
    /\ size \in Nat /\ total \in Nat /\ buf \in [0 .. size - 1 -> Int] /\ wrapped \in BOOLEAN
    /\ size = 0 => pos = 0 /\ ~wrapped
    /\ size > 0 => pos \in 0 .. size - 1
RingHolds ==
    /\ size > 0 /\ ~wrapped => pos = total /\ \A i \in 0 .. pos - 1 : buf[i] = i
    /\ wrapped => /\ total >= size
                  /\ \A i \in 0 .. size - 1 :
                        buf[i] = IF i < pos THEN total - pos + i ELSE total - pos - size + i
Ring == RingType /\ RingHolds

LEMMA RingStarts == RingInit => Ring
  <1>. SUFFICES ASSUME NEW s \in Seconds, newBurstBuffer(burstBytes(s)), total = 0 PROVE Ring
    BY DEF RingInit
  <1>1. burstBytes(s) \in Nat
    BY BurstAssumption DEF burstBytes, Least, BurstAssumption
  <1>2. /\ size \in Nat /\ buf \in [0 .. size - 1 -> Int] /\ pos = 0 /\ wrapped = FALSE
    BY <1>1 DEF newBurstBuffer
  <1>3. size > 0 => pos \in 0 .. size - 1
    BY <1>2
  <1>4. ~wrapped /\ total = 0 /\ pos = 0
    BY <1>2
  <1>5. RingType
    <2>1. total \in Nat
      BY <1>4
    <2>2. wrapped \in BOOLEAN
      BY <1>2, Zenon
    <2>. QED
      BY <1>2, <1>3, <1>4, <2>1, <2>2, Zenon DEF RingType
  <1>6. RingHolds
    BY <1>2, <1>4 DEF RingHolds
  <1>. QED
    BY <1>5, <1>6 DEF Ring

LEMMA RingWrite ==
    ASSUME Ring, NEW n \in Nat, write(n) PROVE Ring'
  <1>0. size \in Nat /\ total \in Nat /\ buf \in [0 .. size - 1 -> Int] /\ size' = size
        /\ total' = total + n /\ wrapped \in BOOLEAN
    BY DEF Ring, RingType, write
  <1>1. CASE size = 0 \/ n = 0
    <2>1. UNCHANGED <<buf, pos, wrapped, size>>
      BY <1>1 DEF write
    <2>2. CASE size = 0
      BY <1>0, <2>1, <2>2 DEF Ring, RingType, RingHolds
    <2>3. CASE n = 0
      <3>1. total' = total
        BY <1>0, <2>3
      <3>. QED
        BY <2>1, <3>1 DEF Ring, RingType, RingHolds
    <2>. QED
      BY <1>1, <2>2, <2>3
  <1>2. CASE size > 0 /\ n > 0
    <2>0. pos \in 0 .. size - 1
      BY <1>2 DEF Ring, RingType
    <2>1. CASE WriteLong(n)
      <3>1. \A i \in 0 .. size - 1 : buf'[i] = total + n - size + i
        BY <1>0, <2>1 DEF WriteLong, Copied
      <3>2. buf' \in [0 .. size - 1 -> Int]
        BY <1>0, <2>1 DEF WriteLong, Copied
      <3>. QED
        BY <1>0, <1>2, <2>1, <3>1, <3>2 DEF WriteLong, Ring, RingType, RingHolds
    <2>2. CASE WriteOver(n)
      <3>1. \A i \in 0 .. size - 1 :
               buf'[i] = IF i < n - (size - pos) THEN total + (size - pos) + i
                         ELSE IF i >= pos THEN total + (i - pos) ELSE buf[i]
        BY <1>0, <2>0, <2>2 DEF WriteOver, Copied
      <3>2. buf' \in [0 .. size - 1 -> Int]
        BY <1>0, <2>0, <2>2 DEF WriteOver, Copied
      <3>3. pos' = n - (size - pos) /\ wrapped' /\ n < size /\ n > size - pos
        BY <2>2 DEF WriteOver
      <3>4. \A i \in 0 .. pos - 1 : buf[i] = total - pos + i
        BY <1>0, <1>2, <2>0 DEF Ring, RingHolds
      <3>5. total + n >= size
        BY <1>0, <1>2, <2>0, <3>3 DEF Ring, RingHolds
      <3>. QED
        BY <1>0, <1>2, <2>0, <2>2, <3>1, <3>2, <3>3, <3>4, <3>5
        DEF WriteOver, Ring, RingType, RingHolds
    <2>3. CASE WriteWithin(n)
      <3>1. \A i \in 0 .. size - 1 :
               buf'[i] = IF pos <= i /\ i < pos + n THEN total + (i - pos) ELSE buf[i]
        BY <1>0, <2>0, <2>3 DEF WriteWithin, Copied
      <3>2. buf' \in [0 .. size - 1 -> Int]
        BY <1>0, <2>0, <2>3 DEF WriteWithin, Copied
      <3>3. /\ n <= size - pos /\ pos' = (IF pos + n = size THEN 0 ELSE pos + n)
            /\ wrapped' = (wrapped \/ pos + n = size)
        BY <2>3 DEF WriteWithin
      <3>. QED
        <4>1. RingType'
          BY <1>0, <1>2, <2>0, <3>2, <3>3 DEF RingType
        <4>2. \A i \in 0 .. pos - 1 : buf[i] = total - pos + i
          BY <1>0, <1>2, <2>0 DEF Ring, RingHolds
        <4>3. CASE ~wrapped
          <5>1. pos = total
            BY <1>2, <4>3 DEF Ring, RingHolds
          <5>2. CASE pos + n = size
            <6>1. pos' = 0 /\ wrapped' /\ total' = size
              BY <1>0, <2>0, <3>3, <5>1, <5>2
            <6>2. \A i \in 0 .. size - 1 : buf'[i] = i
              BY <1>0, <2>0, <3>1, <4>2, <5>1, <5>2
            <6>. QED
              BY <1>0, <4>1, <6>1, <6>2 DEF Ring, RingHolds
          <5>3. CASE pos + n # size
            <6>1. pos' = pos + n /\ ~wrapped' /\ total' = pos'
              BY <1>0, <2>0, <3>3, <4>3, <5>1, <5>3
            <6>2. \A i \in 0 .. pos + n - 1 : buf'[i] = i
              <7>1. pos + n <= size
                BY <1>0, <2>0, <3>3
              <7>. QED
                BY <1>0, <2>0, <3>1, <4>2, <5>1, <7>1
            <6>3. \A i \in 0 .. pos' - 1 : buf'[i] = i
              <7>1. pos' = pos + n
                BY <6>1
              <7>. QED
                BY <2>0, <6>2, <7>1
            <6>4. RingHolds'
              BY <6>1, <6>3 DEF RingHolds
            <6>. QED
              BY <4>1, <6>4 DEF Ring
          <5>. QED
            BY <5>2, <5>3
        <4>4. CASE wrapped
          <5>1. /\ total >= size
                /\ \A i \in 0 .. size - 1 :
                      buf[i] = IF i < pos THEN total - pos + i ELSE total - pos - size + i
            BY <4>4 DEF Ring, RingHolds
          <5>2. wrapped' /\ total' >= size
            <6>1. wrapped'
              BY <3>3, <4>4
            <6>2. total' >= size
              BY <1>0, <5>1
            <6>. QED
              BY <6>1, <6>2
          <5>3. CASE pos + n = size
            <6>1. pos' = 0
              BY <3>3, <5>3
            <6>2. \A i \in 0 .. size - 1 : buf'[i] = total' - size + i
              <7>. SUFFICES ASSUME NEW i \in 0 .. size - 1 PROVE buf'[i] = total' - size + i
                OBVIOUS
              <7>1. total' - size = total - pos /\ pos + n = size
                BY <1>0, <2>0, <5>3
              <7>2. CASE pos <= i
                <8>1. buf'[i] = total + (i - pos)
                  BY <1>0, <2>0, <3>1, <7>1, <7>2
                <8>. QED
                  BY <1>0, <2>0, <7>1, <8>1
              <7>3. CASE i < pos
                <8>1. buf'[i] = buf[i] /\ buf[i] = total - pos + i
                  BY <1>0, <2>0, <3>1, <5>1, <7>3
                <8>. QED
                  BY <7>1, <8>1
              <7>. QED
                BY <1>0, <2>0, <7>2, <7>3
            <6>. QED
              BY <1>0, <4>1, <5>2, <6>1, <6>2 DEF Ring, RingHolds
          <5>4. CASE pos + n # size
            <6>1. pos' = pos + n
              BY <3>3, <5>4
            <6>2. \A i \in 0 .. size - 1 :
                     buf'[i] = IF i < pos' THEN total' - pos' + i ELSE total' - pos' - size + i
              BY <1>0, <2>0, <3>1, <5>1, <6>1
            <6>. QED
              BY <1>0, <4>1, <5>2, <6>2 DEF Ring, RingHolds
          <5>. QED
            BY <5>3, <5>4
        <4>. QED
          BY <1>0, <4>3, <4>4
    <2>. QED
      BY <1>2, <2>1, <2>2, <2>3 DEF write
  <1>. QED
    BY <1>0, <1>1, <1>2

LEMMA SnapshotIsNewest ==
    ASSUME Ring
    PROVE  /\ total \in Nat /\ Least(size, total) \in 0 .. total
           /\ snapshot = Seg(total - Least(size, total), total)
  <1>0. size \in Nat /\ total \in Nat /\ Least(size, total) \in 0 .. total
    BY DEF Ring, RingType, Least
  <1>1. CASE size = 0
    <2>1. ~wrapped /\ pos = 0 /\ Least(size, total) = 0
      BY <1>0, <1>1 DEF Ring, RingType, Least
    <2>2. snapshot = <<>>
      BY <2>1 DEF snapshot, Slice
    <2>3. Seg(total - 0, total) = <<>>
      BY <1>0 DEF Seg
    <2>. QED
      BY <1>0, <2>1, <2>2, <2>3
  <1>2. CASE size > 0
    <2>0. pos \in 0 .. size - 1
      BY <1>2 DEF Ring, RingType
    <2>1. CASE ~wrapped
      <3>1. pos = total /\ \A i \in 0 .. pos - 1 : buf[i] = i
        BY <1>2, <2>1 DEF Ring, RingHolds
      <3>2. Least(size, total) = total
        BY <1>0, <2>0, <3>1 DEF Least
      <3>3. Slice(0, pos) = Seg(0, total)
        BY <1>0, <3>1 DEF Slice, Seg
      <3>4. total - Least(size, total) = 0
        BY <1>0, <3>2
      <3>. QED
        BY <1>0, <2>1, <3>3, <3>4 DEF snapshot
    <2>2. CASE wrapped
      <3>1. /\ total >= size
            /\ \A i \in 0 .. size - 1 :
                  buf[i] = IF i < pos THEN total - pos + i ELSE total - pos - size + i
        BY <2>2 DEF Ring, RingHolds
      <3>2. Least(size, total) = size
        BY <1>0, <3>1 DEF Least
      <3>3. Slice(pos, size) = Seg(total - size, total - pos)
        <4>1. \A i \in 1 .. size - pos : buf[pos + i - 1] = total - size + i - 1
          BY <1>0, <2>0, <3>1
        <4>2. (total - pos) - (total - size) = size - pos
          BY <1>0, <2>0
        <4>. QED
          BY <4>1, <4>2 DEF Slice, Seg
      <3>4. Slice(0, pos) = Seg(total - pos, total)
        <4>1. \A i \in 1 .. pos - 0 : buf[0 + i - 1] = total - pos + i - 1
          BY <1>0, <2>0, <3>1
        <4>2. total - (total - pos) = pos - 0
          BY <1>0, <2>0
        <4>. QED
          BY <4>1, <4>2 DEF Slice, Seg
      <3>5. /\ total - size \in Nat /\ total - pos \in Nat
            /\ total - size <= total - pos /\ total - pos <= total
        BY <1>0, <2>0, <3>1
      <3>6. Seg(total - size, total - pos) \o Seg(total - pos, total) = Seg(total - size, total)
        BY <1>0, <3>5, SegConcat
      <3>. QED
        BY <1>0, <2>2, <3>2, <3>3, <3>4, <3>6 DEF snapshot
    <2>. QED
      BY <2>1, <2>2
  <1>. QED
    BY <1>0, <1>1, <1>2

-----------------------------------------------------------------------------
(* alignToFrame cuts less than a frame, and up to a header if one is there *)
(* that it can see whole.                                                  *)
LEMMA NextHeader ==
    ASSUME NEW a \in Nat
    PROVE  \E c \in 0 .. FrameLen - 1 :
              (a + c) % FrameLen = 0 /\ \A j \in 0 .. c - 1 : (a + j) % FrameLen # 0
  <1>0. FrameLen \in Nat \ {0}
    BY BurstAssumption DEF BurstAssumption
  <1>. DEFINE q == a \div FrameLen
              r == a % FrameLen
  <1>1. q \in Int /\ r \in 0 .. FrameLen - 1 /\ a = FrameLen * q + r
    BY <1>0
  <1>2. \A p \in Int, x \in Nat : x < FrameLen => (FrameLen * p + x) % FrameLen = x
    BY <1>0
  <1>3. FrameLen * q \in Int /\ FrameLen * (q + 1) = FrameLen * q + FrameLen
    BY <1>0, <1>1
  <1>. HIDE DEF q, r
  <1>4. CASE r = 0
    <2>1. a + 0 = FrameLen * q + 0
      BY <1>1, <1>3, <1>4
    <2>2. (a + 0) % FrameLen = 0
      BY <1>0, <1>1, <1>2, <2>1
    <2>. QED
      BY <1>0, <2>2
  <1>5. CASE r > 0
    <2>. DEFINE c == FrameLen - r
    <2>1. c \in 0 .. FrameLen - 1
      BY <1>0, <1>1, <1>5
    <2>2. a + c = FrameLen * (q + 1) + 0
      BY <1>0, <1>1, <1>3
    <2>3. (a + c) % FrameLen = 0
      BY <1>0, <1>1, <1>2, <2>2
    <2>4. ASSUME NEW j \in 0 .. c - 1 PROVE (a + j) % FrameLen # 0
      <3>1. a + j = FrameLen * q + (r + j) /\ r + j \in Nat /\ r + j < FrameLen /\ r + j # 0
        BY <1>0, <1>1, <1>3, <1>5
      <3>. QED
        BY <1>1, <1>2, <3>1
    <2>. QED
      BY <2>1, <2>3, <2>4
  <1>. QED
    BY <1>1, <1>4, <1>5

LEMMA OneMore == \A p \in Int : (FrameLen * p + 1) % FrameLen = 1
  <1>1. FrameLen \in Nat \ {0} /\ 1 < FrameLen
    BY BurstAssumption DEF BurstAssumption
  <1>2. \A p \in Int, x \in Nat : x < FrameLen => (FrameLen * p + x) % FrameLen = x
    BY <1>1
  <1>. QED
    BY <1>1, <1>2

LEMMA Aligned ==
    ASSUME NEW a \in Nat, NEW b \in Nat, a <= b
    PROVE  \E c \in 0 .. FrameLen - 1 :
              /\ a + c <= b /\ alignToFrame(Seg(a, b)) = Seg(a + c, b)
              /\ b - a > FrameLen => a + c < b /\ (a + c) % FrameLen = 0
  <1>0. FrameLen \in Nat /\ FrameLen >= 2
    BY BurstAssumption DEF BurstAssumption
  <1>1. PICK c \in 0 .. FrameLen - 1 :
           (a + c) % FrameLen = 0 /\ \A j \in 0 .. c - 1 : (a + j) % FrameLen # 0
    BY NextHeader
  <1>. DEFINE s == Seg(a, b)
              headers == {i \in 1 .. Len(s) - 1 : IsHeader(s, i)}
  <1>2. Len(s) = b - a /\ \A i \in 1 .. b - a : s[i] = a + i - 1
    BY SegFacts
  <1>. HIDE DEF s
  <1>3. ASSUME NEW i \in headers PROVE c + 1 <= i
    <2>1. i \in 1 .. b - a - 1 /\ s[i] % FrameLen = 0
      BY <1>2 DEF IsHeader
    <2>2. s[i] = a + (i - 1)
      BY <1>2, <2>1
    <2>3. i - 1 \notin 0 .. c - 1
      BY <1>1, <2>1, <2>2
    <2>. QED
      BY <1>0, <2>1, <2>3
  <1>4. ASSUME c + 1 <= b - a - 1 PROVE c + 1 \in headers
    <2>1. s[c + 1] = a + c /\ s[c + 1 + 1] = a + c + 1
      BY <1>0, <1>2, <1>4
    <2>2. (a + c + 1) % FrameLen = 1
      <3>. DEFINE q == (a + c) \div FrameLen
      <3>1. q \in Int /\ a + c = FrameLen * q + 0
        BY <1>0, <1>1
      <3>. HIDE DEF q
      <3>2. a + c + 1 = FrameLen * q + 1
        BY <1>0, <3>1
      <3>3. (FrameLen * q + 1) % FrameLen = 1
        BY <3>1, OneMore
      <3>. QED
        BY <3>2, <3>3
    <2>3. IsHeader(s, c + 1)
      BY <1>1, <2>1, <2>2 DEF IsHeader
    <2>. QED
      BY <1>0, <1>2, <1>4, <2>3
  <1>5. CASE headers = {}
    <2>1. alignToFrame(s) = s
      BY <1>5 DEF alignToFrame
    <2>2. ~(c + 1 <= b - a - 1)
      BY <1>4, <1>5
    <2>3. ~(b - a > FrameLen)
      BY <1>0, <2>2
    <2>4. 0 \in 0 .. FrameLen - 1 /\ a + 0 = a
      BY <1>0
    <2>. QED
      BY <2>1, <2>3, <2>4 DEF s
  <1>6. CASE headers # {}
    <2>1. PICK h \in headers : TRUE
      BY <1>6
    <2>2. c + 1 <= b - a - 1
      BY <1>0, <1>2, <1>3, <2>1
    <2>3. c + 1 \in headers
      BY <1>4, <2>2
    <2>. DEFINE first == CHOOSE i \in headers : \A j \in headers : i <= j
    <2>4. first \in headers /\ first <= c + 1
      BY <1>3, <2>3
    <2>5. first = c + 1
      BY <1>0, <1>2, <1>3, <2>4
    <2>6. alignToFrame(s) = SubSeq(s, c + 1, Len(s))
      BY <1>6, <2>5 DEF alignToFrame
    <2>7. SubSeq(s, c + 1, Len(s)) = Seg(a + c, b)
      <3>1. c \in 0 .. b - a
        BY <1>0, <2>2
      <3>. QED
        BY <3>1, SegCut DEF s
    <2>8. a + c < b
      BY <1>0, <2>2
    <2>9. alignToFrame(s) = Seg(a + c, b) /\ a + c <= b
      BY <1>0, <2>6, <2>7, <2>8
    <2>. QED
      BY <1>1, <2>8, <2>9, Zenon DEF s
  <1>. QED
    BY <1>5, <1>6

LEMMA RingGivesLatest == Ring => BurstIsLatest
  <1>. SUFFICES ASSUME Ring PROVE BurstIsLatest
    OBVIOUS
  <1>. DEFINE kept == Least(size, total)
              a == total - kept
  <1>1. total \in Nat /\ kept \in 0 .. total /\ snapshot = Seg(a, total)
    BY SnapshotIsNewest
  <1>. HIDE DEF kept
  <1>2. a \in Nat /\ a <= total /\ total - a = kept
    BY <1>1
  <1>3. PICK c \in 0 .. FrameLen - 1 :
           /\ a + c <= total /\ alignToFrame(Seg(a, total)) = Seg(a + c, total)
           /\ total - a > FrameLen => a + c < total /\ (a + c) % FrameLen = 0
    BY <1>1, <1>2, Aligned
  <1>4. c \in Nat
    BY BurstAssumption DEF BurstAssumption
  <1>5. Seg(a + c, total) = [i \in 1 .. kept - c |-> total - kept + c + i - 1]
    BY <1>1, <1>4 DEF Seg
  <1>6. ASSUME kept > FrameLen PROVE Seg(a + c, total)[1] % FrameLen = 0
    <2>1. a + c < total /\ (a + c) % FrameLen = 0
      BY <1>2, <1>3, <1>6
    <2>2. Seg(a + c, total)[1] = a + c
      <3>1. a + c \in Nat /\ 1 \in 1 .. total - (a + c)
        BY <1>1, <1>2, <1>4, <2>1
      <3>2. Seg(a + c, total)[1] = a + c + 1 - 1
        BY <3>1 DEF Seg
      <3>. QED
        BY <3>1, <3>2
    <2>. QED
      BY <2>1, <2>2
  <1>. QED
    BY <1>1, <1>3, <1>5, <1>6 DEF BurstIsLatest, kept

-----------------------------------------------------------------------------
(* Lengths: a cut title with its framing fits the units a length byte can  *)
(* count, and is never so short that the length byte is zero.              *)
LEMMA BytesNat == \A t \in Seq(Runes) : Bytes(t) \in Nat
  <1>. SUFFICES ASSUME NEW t \in Seq(Runes) PROVE Bytes(t) \in Nat
    OBVIOUS
  <1>1. Keep(t, {"w"}) \in Seq(Runes)
    BY KeepSeq
  <1>. DEFINE w == Len(Keep(t, {"w"}))
              v == Wide - 1
  <1>2. w \in Nat /\ Len(t) \in Nat
    BY <1>1
  <1>3. v \in Nat
    BY ICYAssumption DEF ICYAssumption
  <1>. HIDE DEF w, v
  <1>4. v * w \in Nat
    BY <1>2, <1>3
  <1>. QED
    BY <1>2, <1>4 DEF Bytes, w, v

LEMMA BytesEmpty == Bytes(<<>>) = 0
  <1>1. Keep(<<>>, {"w"}) = <<>>
    BY KeepEmpty
  <1>2. Wide - 1 \in Int
    BY ICYAssumption DEF ICYAssumption
  <1>. QED
    BY <1>1, <1>2 DEF Bytes

LEMMA RoomForTitle ==
    /\ maxICYPayload \in Nat /\ maxICYTitleBytes \in Nat
    /\ maxICYPayload = maxICYTitleBytes + Prefix + Suffix
  <1>1. /\ Prefix \in Nat /\ Suffix \in Nat /\ Prefix + Suffix <= maxICYPayload
        /\ Unit \in Nat /\ MaxUnits \in Nat
    BY ICYAssumption DEF ICYAssumption, maxICYPayload
  <1>2. maxICYPayload \in Nat
    BY <1>1 DEF maxICYPayload
  <1>. QED
    BY <1>1, <1>2 DEF maxICYTitleBytes

LEMMA LargestOf ==
    ASSUME NEW n \in Nat, NEW T, T \subseteq 0 .. n, T # {}
    PROVE  Max(T) \in T /\ \A x \in T : x <= Max(T)
  <1>. DEFINE D == {n - x : x \in T}
  <1>0. \A x \in T : x \in 0 .. n
    OBVIOUS
  <1>1. D \subseteq Nat /\ D # {}
    <2>1. \A x \in T : n - x \in Nat
      BY <1>0
    <2>2. PICK x \in T : TRUE
      OBVIOUS
    <2>3. n - x \in D
      BY <2>2
    <2>. QED
      BY <2>1, <2>3
  <1>2. PICK d \in D : \A e \in D : d <= e
    BY <1>1, Smallest
  <1>3. PICK x \in T : d = n - x
    BY <1>2
  <1>4. \A y \in T : n - y \in D
    OBVIOUS
  <1>5. \A y \in T : x >= y
    BY <1>0, <1>2, <1>3, <1>4
  <1>6. \E z \in T : \A y \in T : z >= y
    BY <1>5
  <1>7. Max(T) \in T /\ \A y \in T : Max(T) >= y
    BY <1>6, Zenon DEF Max
  <1>. QED
    BY <1>7

(* Cutting takes whole runes from the front, and what is left fits.        *)
LEMMA Cut ==
    ASSUME NEW t \in Seq(Runes), NEW max \in Nat
    PROVE  \E n \in 0 .. Len(t) :
              truncateUTF8(t, max) = SubSeq(t, 1, n) /\ Bytes(SubSeq(t, 1, n)) <= max
  <1>. DEFINE T == {n \in 0 .. Len(t) : Bytes(SubSeq(t, 1, n)) <= max}
  <1>1. SubSeq(t, 1, 0) = <<>>
    OBVIOUS
  <1>2. 0 \in T /\ T \subseteq 0 .. Len(t) /\ Len(t) \in Nat
    <2>0. Bytes(SubSeq(t, 1, 0)) = 0
      BY <1>1, BytesEmpty, Zenon
    <2>1. Bytes(SubSeq(t, 1, 0)) <= max
      BY <2>0
    <2>2. Len(t) \in Nat /\ 0 \in 0 .. Len(t)
      OBVIOUS
    <2>. QED
      BY <2>1, <2>2
  <1>3. truncateUTF8(t, max) = SubSeq(t, 1, Max(T))
    BY DEF truncateUTF8
  <1>4. \A n \in T : n \in 0 .. Len(t) /\ Bytes(SubSeq(t, 1, n)) <= max
    OBVIOUS
  <1>. HIDE DEF T
  <1>5. Max(T) \in T
    BY <1>2, LargestOf
  <1>. QED
    BY <1>3, <1>4, <1>5

LEMMA SanitizeFacts ==
    ASSUME NEW t \in Seq(Runes)
    PROVE  /\ sanitizeMeta(t) \in Seq(Runes \ {"'", ";", "^"})
           /\ sanitizeMeta(t) \in Seq(Runes)
           /\ Len(sanitizeMeta(t)) = Len(Keep(t, Runes \ {"^"}))
  <1>. DEFINE p == Keep(t, Runes \ {"^"})
  <1>1. p \in Seq(Runes \ {"^"})
    <2>1. p \in Seq(Runes \intersect (Runes \ {"^"}))
      BY KeepType
    <2>2. Runes \intersect (Runes \ {"^"}) = Runes \ {"^"}
      OBVIOUS
    <2>. QED
      BY <2>1, <2>2
  <1>. HIDE DEF p
  <1>. DEFINE Replace(r) == CASE r = "'" -> " " [] r = ";" -> "," [] OTHER -> r
  <1>2. \A r \in Runes \ {"^"} : Replace(r) \in Runes \ {"'", ";", "^"}
    BY DEF Runes
  <1>3. sanitizeMeta(t) = [i \in 1 .. Len(p) |-> Replace(p[i])]
    BY Zenon DEF sanitizeMeta, p
  <1>. HIDE DEF Replace
  <1>4. sanitizeMeta(t) \in Seq(Runes \ {"'", ";", "^"}) /\ Len(sanitizeMeta(t)) = Len(p)
    <2>1. Len(p) \in Nat /\ \A i \in 1 .. Len(p) : p[i] \in Runes \ {"^"}
      BY <1>1
    <2>. DEFINE S == Runes \ {"'", ";", "^"}
    <2>2. \A i \in 1 .. Len(p) : Replace(p[i]) \in S
      BY <1>2, <2>1
    <2>. HIDE DEF S
    <2>3. [i \in 1 .. Len(p) |-> Replace(p[i])] \in Seq(S)
      BY <2>1, <2>2
    <2>4. Len([i \in 1 .. Len(p) |-> Replace(p[i])]) = Len(p)
      BY <2>1
    <2>. QED
      BY <1>3, <2>3, <2>4 DEF S
  <1>5. sanitizeMeta(t) \in Seq(Runes)
    BY <1>4, SeqMonotonic
  <1>. QED
    BY <1>4, <1>5 DEF p

LEMMA WireFacts ==
    ASSUME NEW t \in Seq(Runes)
    PROVE  /\ \E n \in 0 .. Len(sanitizeMeta(t)) : Wire(t) = SubSeq(sanitizeMeta(t), 1, n)
           /\ Wire(t) \in Seq(Runes \ {"'", ";", "^"})
           /\ Bytes(Wire(t)) \in Nat /\ Bytes(Wire(t)) <= maxICYTitleBytes
  <1>. DEFINE s == sanitizeMeta(t)
  <1>1. s \in Seq(Runes \ {"'", ";", "^"}) /\ s \in Seq(Runes)
    BY SanitizeFacts
  <1>2. PICK n \in 0 .. Len(s) : /\ truncateUTF8(s, maxICYTitleBytes) = SubSeq(s, 1, n)
                                 /\ Bytes(SubSeq(s, 1, n)) <= maxICYTitleBytes
    BY <1>1, RoomForTitle, Cut
  <1>3. Wire(t) = SubSeq(s, 1, n)
    BY <1>2 DEF Wire
  <1>. HIDE DEF s
  <1>4. SubSeq(s, 1, n) \in Seq(Runes \ {"'", ";", "^"}) /\ SubSeq(s, 1, n) \in Seq(Runes)
    <2>1. \A S : s \in Seq(S) => SubSeq(s, 1, n) \in Seq(S)
      OBVIOUS
    <2>. QED
      BY <1>1, <2>1, Zenon
  <1>. QED
    BY <1>2, <1>3, <1>4, BytesNat DEF s

LEMMA Units ==
    ASSUME NEW n \in Nat \ {0}, NEW u \in Nat \ {0}, NEW m \in Nat, n <= u * m
    PROVE  /\ (n + u - 1) \div u \in 1 .. m
           /\ (((n + u - 1) \div u) * u) \div u = (n + u - 1) \div u
  <1>. DEFINE x == n + u - 1
              q == x \div u
  <1>1. x \in Nat /\ u <= x /\ x <= u * m + u - 1
    <2>1. u * m \in Nat
      OBVIOUS
    <2>. QED
      BY <2>1
  <1>. HIDE DEF x
  <1>2. q \in Nat /\ u * q <= x /\ x < u * q + u
    BY <1>1
  <1>. HIDE DEF q
  <1>3. q <= m
    <2>1. u * q <= u * m + u - 1
      BY <1>1, <1>2
    <2>. QED
      BY <1>2, <2>1
  <1>4. q # 0
    BY <1>1, <1>2
  <1>5. (q * u) \div u = q
    BY <1>2
  <1>. QED
    BY <1>2, <1>3, <1>4, <1>5 DEF q, x

LEMMA LengthByte ==
    ASSUME NEW t \in Seq(Runes)
    PROVE  LenByte(t) # 0 /\ LenByte(t) * Unit = PayloadLen(t)
  <1>. DEFINE n == Prefix + Bytes(Wire(t)) + Suffix
              q == (n + Unit - 1) \div Unit
  <1>0. Unit \in Nat \ {0} /\ MaxUnits \in Nat /\ Prefix \in Nat \ {0} /\ Suffix \in Nat
    BY ICYAssumption DEF ICYAssumption
  <1>1. n \in Nat \ {0} /\ n <= Unit * MaxUnits
    <2>1. /\ Bytes(Wire(t)) \in Nat /\ Bytes(Wire(t)) <= maxICYTitleBytes
          /\ maxICYPayload \in Nat /\ maxICYTitleBytes \in Nat
          /\ maxICYPayload = maxICYTitleBytes + Prefix + Suffix
      BY WireFacts, RoomForTitle
    <2>2. n \in Nat \ {0} /\ n <= maxICYPayload
      BY <1>0, <2>1
    <2>. QED
      BY <2>2 DEF maxICYPayload
  <1>2. PayloadLen(t) = q * Unit
    BY Zenon DEF PayloadLen
  <1>. HIDE DEF n
  <1>3. q \in 1 .. MaxUnits /\ (q * Unit) \div Unit = q
    BY <1>0, <1>1, Units
  <1>. HIDE DEF q
  <1>4. q % (MaxUnits + 1) = q
    BY <1>0, <1>3
  <1>5. LenByte(t) = q
    BY <1>2, <1>3, <1>4 DEF LenByte
  <1>. QED
    BY <1>2, <1>3, <1>5

-----------------------------------------------------------------------------
(* No title breaks out of its block.                                       *)
LEMMA Framed == ASSUME NEW t \in Seq(Runes), rxTitle = Wire(t), atSlot = t PROVE WellFramed
  <1>. DEFINE s == sanitizeMeta(t)
              kept == Runes \ {"^"}
  <1>1. PICK m \in 0 .. Len(s) : Wire(t) = SubSeq(s, 1, m)
    BY WireFacts
  <1>2. /\ s \in Seq(Runes) /\ Len(s) = Len(Keep(t, kept))
    BY SanitizeFacts
  <1>3. Wire(t) \in Seq(Runes \ {"'", ";", "^"})
    BY WireFacts
  <1>4. \A i \in 1 .. Len(rxTitle) : rxTitle[i] \notin {"'", ";", "^"}
    <2>1. \A i \in 1 .. Len(Wire(t)) : Wire(t)[i] \in Runes \ {"'", ";", "^"}
      BY <1>3, ElementOfSeq, Zenon
    <2>. QED
      BY <2>1
  <1>5. \E n \in 0 .. Len(atSlot) : rxTitle = sanitizeMeta(SubSeq(atSlot, 1, n))
    <2>. DEFINE Replace(r) == CASE r = "'" -> " " [] r = ";" -> "," [] OTHER -> r
                p == Keep(t, kept)
    <2>1. PICK n \in 0 .. Len(t) : Keep(SubSeq(t, 1, n), kept) = SubSeq(p, 1, m)
      BY <1>2, KeepPrefix
    <2>2. p \in Seq(Runes)
      BY KeepSeq
    <2>3. s = [i \in 1 .. Len(p) |-> Replace(p[i])]
      BY Zenon DEF sanitizeMeta
    <2>4. sanitizeMeta(SubSeq(t, 1, n))
             = [i \in 1 .. Len(SubSeq(p, 1, m)) |-> Replace(SubSeq(p, 1, m)[i])]
      BY <2>1, Zenon DEF sanitizeMeta
    <2>. HIDE DEF p, s, Replace
    <2>5. m \in 0 .. Len(p)
      BY <1>2, <1>1 DEF p, s
    <2>6. Len(SubSeq(p, 1, m)) = m /\ \A i \in 1 .. m : SubSeq(p, 1, m)[i] = p[i]
      BY <2>2, <2>5
    <2>7. SubSeq(s, 1, m) = [i \in 1 .. m |-> s[i]]
      BY <1>2, <1>1
    <2>8. \A i \in 1 .. m : s[i] = Replace(p[i])
      BY <2>2, <2>3, <2>5
    <2>9. SubSeq(s, 1, m) = sanitizeMeta(SubSeq(t, 1, n))
      BY <2>4, <2>6, <2>7, <2>8
    <2>. QED
      BY <1>1, <2>9
  <1>6. Prefix + Bytes(rxTitle) + Suffix <= maxICYPayload
    <2>1. /\ Bytes(Wire(t)) \in Nat /\ Bytes(Wire(t)) <= maxICYTitleBytes
          /\ maxICYPayload \in Nat /\ maxICYTitleBytes \in Nat
          /\ maxICYPayload = maxICYTitleBytes + Prefix + Suffix
      BY WireFacts, RoomForTitle
    <2>2. Prefix \in Nat /\ Suffix \in Nat
      BY ICYAssumption DEF ICYAssumption
    <2>. QED
      BY <2>1, <2>2
  <1>. QED
    BY <1>4, <1>5, <1>6 DEF WellFramed

-----------------------------------------------------------------------------
(* The player and ICYStream count the same bytes, and neither loses count. *)
Frames ==
    /\ meta \in Seq(Runes) /\ atSlot \in Seq(Runes) /\ lastTitle = atSlot
    /\ until \in 0 .. MetaInt /\ rxUntil = until /\ ~rxLost
    /\ rxTitle = Wire(atSlot)

LEMMA FramesStart == ICYInit => Frames
  <1>. SUFFICES ASSUME ICYInit PROVE Frames
    OBVIOUS
  <1>1. Wire(<<>>) = <<>>
    <2>1. Keep(<<>>, Runes \ {"^"}) = <<>>
      BY KeepEmpty
    <2>2. sanitizeMeta(<<>>) = <<>>
      <3>. DEFINE Replace(r) == CASE r = "'" -> " " [] r = ";" -> "," [] OTHER -> r
      <3>1. sanitizeMeta(<<>>) = [i \in 1 .. Len(<<>>) |-> Replace((<<>>)[i])]
        BY <2>1, Zenon DEF sanitizeMeta
      <3>. HIDE DEF Replace
      <3>. QED
        BY <3>1
    <2>3. <<>> \in Seq(Runes) /\ Len(<<>>) = 0
      OBVIOUS
    <2>4. PICK n \in 0 .. Len(<<>>) : Wire(<<>>) = SubSeq(<<>>, 1, n)
      BY <2>2, <2>3, WireFacts, Zenon
    <2>. QED
      BY <2>3, <2>4
  <1>2. MetaInt \in 0 .. MetaInt
    BY ICYAssumption DEF ICYAssumption
  <1>. QED
    BY <1>1, <1>2 DEF ICYInit, Frames

LEMMA FramesBlock == ASSUME Frames, WriteBlock PROVE Frames'
  <1>1. titleFn \in Seq(Runes) /\ MetaInt \in 0 .. MetaInt
    BY ICYAssumption DEF Frames, ICYAssumption, titleFn
  <1>2. LenByte(titleFn) # 0 /\ LenByte(titleFn) * Unit = PayloadLen(titleFn)
    BY <1>1, LengthByte
  <1>3. /\ until' = MetaInt /\ rxUntil' = MetaInt /\ atSlot' = titleFn /\ meta' = meta
        /\ until = 0
    BY DEF WriteBlock
  <1>4. CASE titleFn # lastTitle
    BY <1>1, <1>2, <1>3, <1>4 DEF WriteBlock, Frames
  <1>5. CASE titleFn = lastTitle
    BY <1>1, <1>3, <1>5 DEF WriteBlock, Frames
  <1>. QED
    BY <1>4, <1>5

LEMMA FramesAudio == ASSUME Frames, chunk \in Seq(Nat), WriteAudio PROVE Frames'
  <1>1. UNCHANGED <<meta, lastTitle, rxTitle, atSlot>>
    BY DEF WriteAudio
  <1>2. CASE ~wantMeta
    BY <1>1, <1>2 DEF WriteAudio, Frames
  <1>3. CASE wantMeta
    <2>. DEFINE n == IF Len(chunk) > until THEN until ELSE Len(chunk)
    <2>1. /\ until' = until - n
          /\ rxLost' = (rxLost \/ n > rxUntil)
          /\ rxUntil' = IF n > rxUntil THEN 0 ELSE rxUntil - n
      BY <1>3 DEF WriteAudio
    <2>2. until \in Nat /\ MetaInt \in Nat /\ Len(chunk) \in Nat /\ until <= MetaInt
      BY ICYAssumption DEF Frames, ICYAssumption
    <2>3. n \in 0 .. until
      BY <2>2
    <2>. HIDE DEF n
    <2>4. rxUntil = until /\ ~(n > rxUntil)
      BY <2>2, <2>3 DEF Frames
    <2>5. ~rxLost' /\ rxUntil' = until'
      BY <2>1, <2>4 DEF Frames
    <2>6. until' \in 0 .. MetaInt
      BY <2>1, <2>2, <2>3
    <2>. QED
      BY <1>1, <2>5, <2>6 DEF Frames
  <1>. QED
    BY <1>2, <1>3

-----------------------------------------------------------------------------
(* What the player heard, what is left of the chunk and what waits in the  *)
(* channel are parts of the stream that follow each other, up to its end.  *)
Linked(a, h, f, sent, part, queued, end) ==
    /\ f[Len(queued)] = end /\ a <= h /\ h <= f[0]
    /\ sent = Seg(a, h) /\ part = Seg(h, f[0])
    /\ \A i \in 1 .. Len(queued) : f[i - 1] <= f[i] /\ queued[i] = Seg(f[i - 1], f[i])
Chain ==
    /\ channel \in Seq(Seq(Nat))
    /\ ~joined => heard = <<>> /\ chunk = <<>> /\ channel = <<>>
    /\ joined => \E a, h \in Nat, f \in [0 .. Len(channel) -> Nat] : Linked(a, h, f, heard, chunk, channel, total)

LEMMA SegEmpty == ASSUME NEW a \in Nat PROVE Seg(a, a) = <<>>
  BY SegFacts

LEMMA ChunkIsSeq == Chain => chunk \in Seq(Nat)
  <1>. SUFFICES ASSUME Chain PROVE chunk \in Seq(Nat)
    OBVIOUS
  <1>1. CASE ~joined
    BY <1>1 DEF Chain
  <1>2. CASE joined
    <2>1. PICK a, h \in Nat, f \in [0 .. Len(channel) -> Nat] : Linked(a, h, f, heard, chunk, channel, total)
      BY <1>2 DEF Chain
    <2>2. f[0] \in Nat /\ h <= f[0] /\ chunk = Seg(h, f[0])
      BY <2>1 DEF Chain, Linked
    <2>. QED
      BY <2>2, SegFacts
  <1>. QED
    BY <1>1, <1>2

LEMMA ChainJoin == ASSUME Ring, Chain, Join PROVE Chain'
  <1>. DEFINE b == alignToFrame(snapshot)
              o == total - Least(size, total)
  <1>1. total \in Nat /\ o \in Nat /\ o <= total /\ snapshot = Seg(o, total)
    BY SnapshotIsNewest
  <1>. HIDE DEF o
  <1>2. PICK c \in 0 .. FrameLen - 1 : o + c <= total /\ b = Seg(o + c, total)
    BY <1>1, Aligned
  <1>. DEFINE a == o + c
  <1>3. a \in Nat /\ a <= total /\ b = Seg(a, total)
    BY <1>1, <1>2, BurstAssumption DEF BurstAssumption
  <1>. HIDE DEF a
  <1>4. /\ heard = <<>> /\ chunk = <<>> /\ joined' /\ UNCHANGED <<heard, chunk, total>>
        /\ channel' = IF b = <<>> THEN <<>> ELSE <<b>>
    BY DEF Chain, Join, ringVars, icyVars, serverVars, playerVars
  <1>. HIDE DEF b
  <1>5. Seg(a, a) = <<>> /\ b \in Seq(Nat)
    BY <1>1, <1>3, SegEmpty, SegFacts
  <1>6. CASE b = <<>>
    <2>1. a = total /\ channel' = <<>> /\ Len(channel') = 0
      BY <1>1, <1>3, <1>4, <1>6, SegFacts
    <2>. DEFINE f == [i \in 0 .. 0 |-> total]
    <2>2. f \in [0 .. Len(channel') -> Nat] /\ f[0] = total
      BY <1>1, <2>1
    <2>. HIDE DEF f
    <2>3. Linked(a, a, f, heard', chunk', channel', total')
      BY <1>3, <1>4, <1>5, <2>1, <2>2 DEF Linked
    <2>4. channel' \in Seq(Seq(Nat))
      BY <2>1
    <2>. QED
      BY <1>3, <1>4, <2>2, <2>3, <2>4 DEF Chain
  <1>7. CASE b # <<>>
    <2>1. channel' = <<b>> /\ Len(channel') = 1 /\ channel'[1] = b
      BY <1>4, <1>7
    <2>. DEFINE f == [i \in 0 .. 1 |-> IF i = 0 THEN a ELSE total]
    <2>2. f \in [0 .. Len(channel') -> Nat] /\ f[0] = a /\ f[1] = total
      BY <1>1, <1>3, <2>1
    <2>. HIDE DEF f
    <2>3. \A i \in 1 .. Len(channel') : f[i - 1] <= f[i] /\ channel'[i] = Seg(f[i - 1], f[i])
      <3>1. \A i \in 1 .. Len(channel') : i = 1 /\ i - 1 = 0
        BY <2>1
      <3>. QED
        BY <1>3, <2>1, <2>2, <3>1
    <2>4. Linked(a, a, f, heard', chunk', channel', total')
      BY <1>3, <1>4, <1>5, <2>1, <2>2, <2>3 DEF Linked
    <2>5. channel' \in Seq(Seq(Nat))
      BY <1>5, <2>1
    <2>. QED
      BY <1>3, <1>4, <2>2, <2>4, <2>5 DEF Chain
  <1>. QED
    BY <1>6, <1>7

LEMMA ChainProduce ==
    ASSUME Ring, Chain, NEW n \in Nat, Produce(n) PROVE Chain'
  <1>1. /\ total \in Nat /\ total' = total + n
        /\ UNCHANGED <<joined, heard, chunk>>
    BY DEF Ring, RingType, Produce, write, icyVars, serverVars, playerVars
  <1>2. CASE ~joined
    BY <1>1, <1>2 DEF Chain, Produce
  <1>3. CASE joined
    <2>. DEFINE p == [i \in 1 .. n |-> total + i - 1]
                l == Len(channel)
    <2>1. channel' = Append(channel, p)
      BY <1>3 DEF Produce
    <2>2. p = Seg(total, total + n)
      BY <1>1 DEF Seg
    <2>3. p \in Seq(Nat)
      BY <1>1, <2>2, SegFacts
    <2>4. l \in Nat /\ channel \in Seq(Seq(Nat))
      BY DEF Chain
    <2>5. /\ channel' \in Seq(Seq(Nat)) /\ Len(channel') = l + 1
          /\ channel'[l + 1] = p /\ \A i \in 1 .. l : channel'[i] = channel[i]
      BY <2>1, <2>3, <2>4
    <2>6. PICK a, h \in Nat, f \in [0 .. l -> Nat] : Linked(a, h, f, heard, chunk, channel, total)
      BY <1>3 DEF Chain
    <2>. HIDE DEF p
    <2>. DEFINE g == [i \in 0 .. l + 1 |-> IF i = l + 1 THEN total + n ELSE f[i]]
    <2>7. /\ g \in [0 .. l + 1 -> Nat] /\ g[l + 1] = total + n
          /\ \A i \in 0 .. l : g[i] = f[i]
      BY <1>1, <2>4, <2>6
    <2>. HIDE DEF g, l
    <2>8. ASSUME NEW i \in 1 .. l + 1
          PROVE  g[i - 1] <= g[i] /\ channel'[i] = Seg(g[i - 1], g[i])
      <3>1. CASE i = l + 1
        <4>1. g[i - 1] = total /\ g[i] = total + n
          BY <2>4, <2>6, <2>7, <3>1 DEF Linked, l
        <4>. QED
          BY <1>1, <2>2, <2>5, <3>1, <4>1
      <3>2. CASE i # l + 1
        <4>1. i \in 1 .. l /\ i - 1 \in 0 .. l /\ i \in 0 .. l
          BY <2>4, <3>2
        <4>2. g[i - 1] = f[i - 1] /\ g[i] = f[i] /\ channel'[i] = channel[i]
          BY <2>5, <2>7, <4>1
        <4>3. f[i - 1] <= f[i] /\ channel[i] = Seg(f[i - 1], f[i])
          BY <2>6, <4>1 DEF Linked, l
        <4>. QED
          BY <4>2, <4>3
      <3>. QED
        BY <3>1, <3>2
    <2>9. g[0] = f[0]
      BY <2>4, <2>7
    <2>10. Linked(a, h, g, heard', chunk', channel', total')
      <3>1. a <= h /\ h <= g[0] /\ heard' = Seg(a, h) /\ chunk' = Seg(h, g[0])
        BY <1>1, <2>6, <2>9 DEF Linked
      <3>. QED
        BY <1>1, <2>5, <2>7, <2>8, <3>1 DEF Linked
    <2>11. g \in [0 .. Len(channel') -> Nat]
      BY <2>5, <2>7
    <2>. QED
      BY <1>1, <1>3, <2>5, <2>10, <2>11 DEF Chain
  <1>. QED
    BY <1>2, <1>3

LEMMA ChainReceive == ASSUME Chain, Receive PROVE Chain'
  <1>. DEFINE l == Len(channel)
  <1>1. /\ channel # <<>> /\ chunk = <<>> /\ chunk' = Head(channel) /\ channel' = Tail(channel)
        /\ UNCHANGED <<total, joined, heard>>
    BY DEF Receive, NextChunk, ringVars, playerVars
  <1>2. joined /\ joined'
    BY <1>1 DEF Chain
  <1>3. channel \in Seq(Seq(Nat)) /\ l \in Nat /\ l > 0
    BY <1>1 DEF Chain
  <1>4. /\ channel' \in Seq(Seq(Nat)) /\ Len(channel') = l - 1
        /\ \A i \in 1 .. l - 1 : channel'[i] = channel[i + 1]
        /\ chunk' = channel[1]
    BY <1>1, <1>3
  <1>5. PICK a, h \in Nat, f \in [0 .. l -> Nat] : Linked(a, h, f, heard, chunk, channel, total)
    BY <1>2 DEF Chain
  <1>6. f[0] \in Nat /\ h = f[0]
    <2>0. 0 \in 0 .. l
      BY <1>3
    <2>1. f[0] \in Nat /\ h <= f[0] /\ Seg(h, f[0]) = <<>>
      BY <1>1, <1>5, <2>0 DEF Linked
    <2>. QED
      BY <2>1, SegFacts
  <1>. DEFINE g == [i \in 0 .. l - 1 |-> f[i + 1]]
  <1>7. g \in [0 .. l - 1 -> Nat] /\ \A i \in 0 .. l - 1 : g[i] = f[i + 1]
    BY <1>3, <1>5
  <1>. HIDE DEF g, l
  <1>8. /\ f[l] = total /\ a <= h /\ heard = Seg(a, h)
        /\ \A i \in 1 .. l : f[i - 1] <= f[i] /\ channel[i] = Seg(f[i - 1], f[i])
    BY <1>5 DEF Linked, l
  <1>9. ASSUME NEW i \in 1 .. l - 1
        PROVE  g[i - 1] <= g[i] /\ channel'[i] = Seg(g[i - 1], g[i])
    <2>1. i \in 0 .. l - 1 /\ i - 1 \in 0 .. l - 1 /\ i + 1 \in 1 .. l /\ i - 1 + 1 = i /\ (i + 1) - 1 = i
      BY <1>3
    <2>2. g[i] = f[i + 1] /\ g[i - 1] = f[i]
      BY <1>7, <2>1
    <2>3. f[i] <= f[i + 1] /\ channel[i + 1] = Seg(f[i], f[i + 1])
      BY <1>8, <2>1
    <2>. QED
      BY <1>4, <2>2, <2>3
  <1>10. h <= g[0] /\ chunk' = Seg(h, g[0])
    <2>1. g[0] = f[1] /\ 1 \in 1 .. l
      BY <1>3, <1>7
    <2>2. f[1 - 1] <= f[1] /\ channel[1] = Seg(f[1 - 1], f[1])
      BY <1>8, <2>1
    <2>. QED
      BY <1>4, <1>6, <2>1, <2>2
  <1>11. g[l - 1] = total
    BY <1>3, <1>7, <1>8
  <1>12. Linked(a, h, g, heard', chunk', channel', total')
    BY <1>1, <1>4, <1>8, <1>9, <1>10, <1>11 DEF Linked
  <1>13. g \in [0 .. Len(channel') -> Nat]
    BY <1>4, <1>7
  <1>. QED
    BY <1>2, <1>4, <1>12, <1>13 DEF Chain

LEMMA ChainAudio ==
    ASSUME Frames, Chain, WriteAudio, UNCHANGED <<total, joined, channel>> PROVE Chain'
  <1>1. chunk # <<>>
    BY DEF WriteAudio
  <1>2. joined /\ joined'
    BY <1>1 DEF Chain
  <1>3. PICK a, h \in Nat, f \in [0 .. Len(channel) -> Nat] : Linked(a, h, f, heard, chunk, channel, total)
    BY <1>2 DEF Chain
  <1>4. f[0] \in Nat /\ h <= f[0] /\ a <= h /\ chunk = Seg(h, f[0]) /\ heard = Seg(a, h)
    BY <1>3 DEF Linked, Chain
  <1>. DEFINE n == IF wantMeta /\ Len(chunk) > until THEN until ELSE Len(chunk)
  <1>5. Len(chunk) = f[0] - h /\ Len(chunk) \in Nat
    <2>1. Len(Seg(h, f[0])) = f[0] - h
      BY <1>4, SegFacts, Zenon
    <2>. QED
      BY <1>4, <2>1
  <1>6. n \in 0 .. f[0] - h
    BY <1>4, <1>5, ICYAssumption DEF Frames, ICYAssumption
  <1>7. chunk' = SubSeq(chunk, n + 1, Len(chunk)) /\ heard' = heard \o SubSeq(chunk, 1, n)
    BY Zenon DEF WriteAudio
  <1>. HIDE DEF n
  <1>8. chunk' = Seg(h + n, f[0]) /\ SubSeq(chunk, 1, n) = Seg(h, h + n)
    BY <1>4, <1>6, <1>7, SegCut
  <1>9. h + n \in Nat /\ h <= h + n /\ a <= h + n /\ h + n <= f[0]
    BY <1>4, <1>6
  <1>10. heard' = Seg(a, h + n)
    BY <1>4, <1>7, <1>8, <1>9, SegConcat
  <1>11. Linked(a, h + n, f, heard', chunk', channel', total')
    BY <1>3, <1>8, <1>9, <1>10 DEF Linked
  <1>. QED
    BY <1>2, <1>9, <1>11 DEF Chain

LEMMA ChainSame ==
    ASSUME Chain, UNCHANGED <<total, joined, channel, heard, chunk>> PROVE Chain'
  BY Zenon DEF Chain

-----------------------------------------------------------------------------
ListenerInv == Ring /\ Frames /\ Chain

LEMMA ListenerStarts == Init => ListenerInv
  <1>. SUFFICES ASSUME Init PROVE ListenerInv
    OBVIOUS
  <1>1. Ring
    BY RingStarts DEF Init
  <1>2. Frames
    BY FramesStart DEF Init
  <1>3. Chain
    BY DEF Init, ICYInit, Chain
  <1>. QED
    BY <1>1, <1>2, <1>3 DEF ListenerInv

LEMMA RingSame == ASSUME Ring, UNCHANGED ringVars PROVE Ring'
  BY DEF Ring, RingType, RingHolds, ringVars

LEMMA FramesSame == ASSUME Frames, UNCHANGED icyVars PROVE Frames'
  BY DEF Frames, icyVars, serverVars, playerVars

LEMMA ListenerStep == ASSUME ListenerInv, [Next]_vars PROVE ListenerInv'
  <1>. USE DEF ListenerInv
  <1>1. CASE Join
    BY <1>1, RingSame, FramesSame, ChainJoin DEF Join
  <1>2. ASSUME NEW n \in 1 .. MaxChunk, Produce(n) PROVE ListenerInv'
    <2>1. n \in Nat
      BY BurstAssumption DEF BurstAssumption
    <2>2. write(n) /\ UNCHANGED icyVars
      BY <1>2 DEF Produce
    <2>. QED
      BY <1>2, <2>1, <2>2, RingWrite, FramesSame, ChainProduce
  <1>3. CASE Receive
    <2>1. UNCHANGED ringVars
      BY <1>3 DEF Receive
    <2>2. UNCHANGED <<meta, lastTitle, until, rxUntil, rxTitle, rxLost, atSlot>>
      BY <1>3 DEF Receive, NextChunk, playerVars
    <2>3. Frames'
      BY <2>2 DEF Frames
    <2>. QED
      BY <1>3, <2>1, <2>3, RingSame, ChainReceive
  <1>4. CASE WriteBlock /\ UNCHANGED <<ringVars, joined, channel>>
    <2>1. UNCHANGED <<total, joined, channel, heard, chunk>>
      BY <1>4 DEF WriteBlock, ringVars
    <2>. QED
      BY <1>4, <2>1, RingSame, FramesBlock, ChainSame
  <1>5. CASE WriteAudio /\ UNCHANGED <<ringVars, joined, channel>>
    <2>1. UNCHANGED <<total, joined, channel>>
      BY <1>5 DEF ringVars
    <2>. QED
      BY <1>5, <2>1, RingSame, ChunkIsSeq, FramesAudio, ChainAudio
  <1>6. ASSUME NEW t \in Titles, SetMetadata(t), UNCHANGED <<ringVars, joined, channel>>
        PROVE  ListenerInv'
    <2>1. meta' \in Seq(Runes)
      BY <1>6, ICYAssumption DEF SetMetadata, ICYAssumption
    <2>2. UNCHANGED <<lastTitle, until, rxUntil, rxTitle, rxLost, atSlot>>
      BY <1>6 DEF SetMetadata, playerVars
    <2>3. UNCHANGED <<total, joined, channel, heard, chunk>>
      BY <1>6 DEF SetMetadata, playerVars, ringVars
    <2>4. Frames'
      BY <2>1, <2>2 DEF Frames
    <2>. QED
      BY <1>6, <2>3, <2>4, RingSame, ChainSame
  <1>7. CASE UNCHANGED vars
    <2>1. UNCHANGED <<total, joined, channel, heard, chunk>>
      BY <1>7 DEF vars, ringVars, icyVars, serverVars, playerVars
    <2>2. UNCHANGED ringVars /\ UNCHANGED icyVars
      BY <1>7 DEF vars
    <2>. QED
      BY <2>1, <2>2, RingSame, FramesSame, ChainSame
  <1>. QED
    BY <1>1, <1>2, <1>3, <1>4, <1>5, <1>6, <1>7 DEF Next, Stream, SetTitle

LEMMA HearsEverything == ListenerInv => HearsStream
  <1>. SUFFICES ASSUME ListenerInv PROVE HearsStream
    OBVIOUS
  <1>1. ~rxLost
    BY DEF ListenerInv, Frames
  <1>2. CASE ~joined
    <2>1. heard = <<>>
      BY <1>2 DEF ListenerInv, Chain
    <2>. QED
      BY <1>1, <1>2, <2>1 DEF HearsStream
  <1>3. CASE joined
    <2>1. PICK a, h \in Nat, f \in [0 .. Len(channel) -> Nat] : Linked(a, h, f, heard, chunk, channel, total)
      BY <1>3 DEF ListenerInv, Chain
    <2>2. a <= h /\ heard = Seg(a, h)
      BY <2>1 DEF Linked
    <2>3. Len(heard) = h - a /\ \A i \in 1 .. h - a : heard[i] = a + i - 1
      BY <2>2, SegFacts
    <2>4. \A i \in 1 .. Len(heard) - 1 : heard[i + 1] = heard[i] + 1
      BY <2>2, <2>3
    <2>5. ASSUME channel = <<>>, chunk = <<>>, heard # <<>> PROVE heard[Len(heard)] = total - 1
      <3>1. Len(channel) = 0 /\ f[0] = total /\ f[0] \in Nat
        BY <2>1, <2>5 DEF Linked
      <3>2. h <= total /\ Seg(h, total) = <<>> /\ total \in Nat
        BY <2>1, <2>5, <3>1 DEF Linked
      <3>3. h = total
        BY <3>2, SegFacts
      <3>4. a # h
        BY <2>2, <2>5, SegEmpty
      <3>. QED
        BY <2>2, <2>3, <3>3, <3>4
    <2>. QED
      BY <1>1, <2>4, <2>5 DEF HearsStream
  <1>. QED
    BY <1>2, <1>3

LEMMA ListenerAlways == Spec => []ListenerInv
  <1>1. ListenerInv /\ [Next]_vars => ListenerInv'
    BY ListenerStep
  <1>. QED
    BY <1>1, ListenerStarts, PTL DEF Spec

(* burst.go: whatever the lengths of the writes, the ring hands a joining  *)
(* listener the newest bytes, in their order, from a frame header on.      *)
THEOREM AlwaysBurstIsLatest == Spec => []BurstIsLatest
  <1>1. ListenerInv => BurstIsLatest
    BY RingGivesLatest DEF ListenerInv
  <1>. QED
    BY <1>1, ListenerAlways, PTL

(* stream.go and icy.go: a listener that keeps up hears every byte from    *)
(* its burst on once, and never takes audio for metadata or the reverse.   *)
THEOREM AlwaysHearsStream == Spec => []HearsStream
  BY HearsEverything, ListenerAlways, PTL

(* icy.go: the player shows the title that was in force at its last block, *)
(* cut between runes, quoted safely and within the length byte.            *)
THEOREM AlwaysShowsTitleAtSlot == Spec => []ShowsTitleAtSlot
  <1>1. ListenerInv => ShowsTitleAtSlot
    BY Framed DEF ListenerInv, Frames, ShowsTitleAtSlot
  <1>. QED
    BY <1>1, ListenerAlways, PTL
=============================================================================
