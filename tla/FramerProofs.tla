---------------------------- MODULE FramerProofs ----------------------------
(***************************************************************************)
(* What every step of _Framer preserves, for byte strings of any length.   *)
(* The lemmas speak of the actions of module Framer, so that every         *)
(* specification built from them (FramerBytes, V2gtpFlow) can cite them.   *)
(***************************************************************************)
EXTENDS Framer, SequenceTheorems, TLAPS

-----------------------------------------------------------------------------
(* Two bytes make a 16-bit number.                                         *)
LEMMA Word ==
  ASSUME NEW a \in Byte, NEW b \in Byte
  PROVE  256 * a + b \in Nat /\ 256 * a + b < Half
<1>1. a \in Int /\ b \in Int /\ 0 <= a /\ a <= 255 /\ 0 <= b /\ b <= 255
  BY DEF Byte
<1>2. 256 * a + b >= 0 /\ 256 * a + b < 65536
  BY <1>1, SMT
<1>3. 256 * a + b \in Int
  BY <1>1
<1>4. QED
  BY <1>2, <1>3, SMT DEF Half

(* A length is the number its two halves spell.                            *)
LEMMA Halves ==
  ASSUME NEW x \in Nat
  PROVE  /\ x \div Half \in Nat
         /\ x % Half \in Nat
         /\ x % Half < Half
         /\ x = (Half * (x \div Half)) + (x % Half)
<1>1. x \div 65536 \in Nat
  BY SMT
<1>2. x % 65536 \in Nat /\ x % 65536 < 65536
  BY SMT
<1>3. x = (65536 * (x \div 65536)) + (x % 65536)
  BY SMT
<1>4. QED
  BY <1>1, <1>2, <1>3, SMT DEF Half

(* The header fields of a whole header are naturals.                       *)
LEMMA HeaderTypes ==
  ASSUME NEW s \in Seq(Byte), NEW p \in Nat,
         p + V2GTP_HEADER_LEN <= Len(s)
  PROVE  /\ PayloadType(s, p) \in Nat
         /\ PayloadLen(s, p) \in Nat
         /\ FrameLen(s, p) \in Nat
         /\ High(s, p) \in Nat
         /\ Low(s, p) \in Nat /\ Low(s, p) < Half
<1>1. \A i \in 1 .. 8 : s[p + i] \in Byte
  BY ElementOfSeq DEF V2GTP_HEADER_LEN
<1>2. /\ s[p + 3] \in Byte /\ s[p + 4] \in Byte
      /\ s[p + 5] \in Byte /\ s[p + 6] \in Byte
      /\ s[p + 7] \in Byte /\ s[p + 8] \in Byte
  BY <1>1
<1>3. /\ PayloadType(s, p) \in Nat
      /\ High(s, p) \in Nat
      /\ Low(s, p) \in Nat
      /\ Low(s, p) < Half
  <2>1. \A a, b \in Byte : 256 * a + b \in Nat /\ 256 * a + b < Half
    BY Word, Zenon
  <2>2. PayloadType(s, p) \in Nat
    BY <1>2, <2>1, Zenon DEF PayloadType
  <2>3. High(s, p) \in Nat
    BY <1>2, <2>1, Zenon DEF High
  <2>4. Low(s, p) \in Nat /\ Low(s, p) < Half
    BY <1>2, <2>1, Zenon DEF Low
  <2> QED
    BY <2>2, <2>3, <2>4
<1>4. PayloadLen(s, p) \in Nat
  BY <1>3, SMT DEF PayloadLen, Half
<1>5. QED
  BY <1>3, <1>4 DEF FrameLen, V2GTP_HEADER_LEN

(* The comparison by halves decides whether the frame has fully arrived.   *)
LEMMA FitsMeaning ==
  ASSUME NEW s \in Seq(Byte), NEW p \in Nat,
         p + V2GTP_HEADER_LEN <= Len(s)
  PROVE  Fits(s, p) <=> p + FrameLen(s, p) <= Len(s)
<1> DEFINE room == Len(s) - p - V2GTP_HEADER_LEN
<1>1. room \in Nat
  BY DEF V2GTP_HEADER_LEN
<1>2. /\ room \div Half \in Nat
      /\ room % Half \in Nat /\ room % Half < Half
      /\ room = (Half * (room \div Half)) + (room % Half)
  BY <1>1, Halves
<1>3. p + FrameLen(s, p) <= Len(s) <=> PayloadLen(s, p) <= room
  BY HeaderTypes DEF FrameLen, V2GTP_HEADER_LEN
<1> DEFINE q == room \div Half
           r == room % Half
<1>4. PayloadLen(s, p) <= room
        <=> \/ High(s, p) < q
            \/ High(s, p) = q /\ Low(s, p) <= r
  <2> HIDE DEF room
  <2>1. room = (Half * q) + r /\ q \in Nat /\ r \in Nat /\ r < Half
    BY <1>2
  <2> HIDE DEF q, r
  <2>2. QED
    BY <2>1, HeaderTypes, SMT DEF PayloadLen, Half
<1>5. QED
  BY <1>3, <1>4 DEF Fits

(* A frame that fits is the wire's bytes after its header.                 *)
LEMMA FrameAtIsWire ==
  ASSUME NEW s \in Seq(Byte), NEW p \in Nat,
         p + V2GTP_HEADER_LEN <= Len(s), Fits(s, p)
  PROVE  /\ FrameAt(s, p) \in Frame
         /\ FrameAt(s, p).ptype = PayloadType(s, p)
         /\ Len(FrameAt(s, p).body) = PayloadLen(s, p)
         /\ \A j \in 1 .. PayloadLen(s, p) :
              FrameAt(s, p).body[j] = s[p + V2GTP_HEADER_LEN + j]
<1> DEFINE m == p + V2GTP_HEADER_LEN + 1
           n == p + FrameLen(s, p)
<1>1. /\ PayloadType(s, p) \in Nat /\ PayloadLen(s, p) \in Nat
      /\ n = p + V2GTP_HEADER_LEN + PayloadLen(s, p)
      /\ n <= Len(s) /\ m \in Int /\ n \in Int /\ m >= 1
  BY HeaderTypes, FitsMeaning DEF FrameLen, V2GTP_HEADER_LEN
<1>2. \A i \in m .. n : s[i] \in Byte
  BY <1>1, ElementOfSeq
<1>3. /\ SubSeq(s, m, n) \in Seq(Byte)
      /\ Len(SubSeq(s, m, n)) = IF m <= n THEN n - m + 1 ELSE 0
      /\ \A i \in 1 .. n - m + 1 : SubSeq(s, m, n)[i] = s[m + i - 1]
  <2> HIDE DEF m, n
  <2>1. QED
    BY <1>1, <1>2, SubSeqProperties
<1>4. n - m + 1 = PayloadLen(s, p)
  BY <1>1 DEF V2GTP_HEADER_LEN
<1>5. FrameAt(s, p) = [ptype |-> PayloadType(s, p), body |-> SubSeq(s, m, n)]
  BY DEF FrameAt
<1>6. \A j \in 1 .. PayloadLen(s, p) :
        SubSeq(s, m, n)[j] = s[p + V2GTP_HEADER_LEN + j]
  <2>1. SUFFICES ASSUME NEW j \in 1 .. PayloadLen(s, p)
                 PROVE  SubSeq(s, m, n)[j] = s[p + V2GTP_HEADER_LEN + j]
    OBVIOUS
  <2>2. m + j - 1 = p + V2GTP_HEADER_LEN + j
    BY <1>1 DEF V2GTP_HEADER_LEN
  <2> HIDE DEF m, n
  <2>3. QED
    BY <1>1, <1>3, <1>4, <2>2
<1> HIDE DEF m, n
<1>7. Len(SubSeq(s, m, n)) = PayloadLen(s, p)
  BY <1>1, <1>3, <1>4
<1>8. QED
  BY <1>1, <1>3, <1>5, <1>6, <1>7, SMTT(30) DEF Frame

-----------------------------------------------------------------------------
(* A header and a frame read in a part of a byte string are those read at  *)
(* that place of the whole.                                                *)
Inside(b, s, p) ==
  /\ p + Len(b) <= Len(s)
  /\ \A i \in 1 .. Len(b) : b[i] = s[p + i]

LEMMA InsideHeader ==
  ASSUME NEW b \in Seq(Byte), NEW s \in Seq(Byte), NEW p \in Nat, Inside(b, s, p),
         Len(b) >= V2GTP_HEADER_LEN
  PROVE  /\ Magic(b, 0) <=> Magic(s, p)
         /\ FrameLen(b, 0) = FrameLen(s, p)
         /\ PayloadLen(b, 0) = PayloadLen(s, p)
         /\ PayloadType(b, 0) = PayloadType(s, p)
<1>1. /\ b[1] = s[p + 1] /\ b[2] = s[p + 2] /\ b[3] = s[p + 3] /\ b[4] = s[p + 4]
      /\ b[5] = s[p + 5] /\ b[6] = s[p + 6] /\ b[7] = s[p + 7] /\ b[8] = s[p + 8]
  BY SMTT(30) DEF Inside, V2GTP_HEADER_LEN
<1>2. 0 + 1 = 1 /\ 0 + 2 = 2 /\ 0 + 3 = 3 /\ 0 + 4 = 4 /\ 0 + 5 = 5 /\ 0 + 6 = 6
      /\ 0 + 7 = 7 /\ 0 + 8 = 8
  OBVIOUS
<1>3. Magic(b, 0) <=> Magic(s, p)
  BY <1>1, <1>2 DEF Magic
<1>4. High(b, 0) = High(s, p)
  BY <1>1, <1>2, Zenon DEF High
<1>5. Low(b, 0) = Low(s, p)
  BY <1>1, <1>2, Zenon DEF Low
<1>6. PayloadType(b, 0) = PayloadType(s, p)
  BY <1>1, <1>2, Zenon DEF PayloadType
<1>7. PayloadLen(b, 0) = PayloadLen(s, p)
  <2> PICK h, l, h2, l2 : h = High(b, 0) /\ l = Low(b, 0) /\ h2 = High(s, p) /\ l2 = Low(s, p)
    OBVIOUS
  <2>1. Half * h + l = Half * h2 + l2
    BY <1>4, <1>5
  <2> QED
    BY <2>1 DEF PayloadLen
<1>8. FrameLen(b, 0) = FrameLen(s, p)
  BY <1>7 DEF FrameLen
<1> QED
  BY <1>3, <1>6, <1>7, <1>8

LEMMA InsideFrame ==
  ASSUME NEW b \in Seq(Byte), NEW s \in Seq(Byte), NEW p \in Nat, Inside(b, s, p),
         Len(b) >= V2GTP_HEADER_LEN, Fits(b, 0)
  PROVE  Fits(s, p) /\ FrameAt(s, p) = FrameAt(b, 0)
<1>1. /\ p + V2GTP_HEADER_LEN <= Len(s) /\ 0 + V2GTP_HEADER_LEN <= Len(b) /\ 0 \in Nat
      /\ Len(b) \in Nat /\ Len(s) \in Nat /\ p + Len(b) <= Len(s)
  BY DEF Inside, V2GTP_HEADER_LEN
<1>2. /\ FrameLen(b, 0) = FrameLen(s, p) /\ PayloadLen(b, 0) = PayloadLen(s, p)
      /\ PayloadType(b, 0) = PayloadType(s, p)
  BY InsideHeader
<1>3. FrameLen(b, 0) \in Nat /\ PayloadLen(b, 0) \in Nat
      /\ FrameLen(b, 0) = V2GTP_HEADER_LEN + PayloadLen(b, 0)
  BY <1>1, HeaderTypes DEF FrameLen
<1>4. 0 + FrameLen(b, 0) <= Len(b)
  BY <1>1, FitsMeaning
<1>5. Fits(s, p)
  <2>1. p + FrameLen(s, p) <= Len(s)
    BY <1>1, <1>2, <1>3, <1>4
  <2> QED
    BY <1>1, <2>1, FitsMeaning
<1> PICK l \in Nat : l = PayloadLen(s, p)
  BY <1>2, <1>3
<1> PICK x, y : x = FrameAt(b, 0) /\ y = FrameAt(s, p)
  OBVIOUS
<1>6. /\ x \in Frame /\ x.ptype = PayloadType(b, 0) /\ Len(x.body) = l
      /\ \A j \in 1 .. l : x.body[j] = b[0 + V2GTP_HEADER_LEN + j]
  BY <1>1, <1>2, FrameAtIsWire
<1>7. /\ y \in Frame /\ y.ptype = PayloadType(s, p) /\ Len(y.body) = l
      /\ \A j \in 1 .. l : y.body[j] = s[p + V2GTP_HEADER_LEN + j]
  BY <1>1, <1>5, FrameAtIsWire
<1>8. \A j \in 1 .. l : b[0 + V2GTP_HEADER_LEN + j] = s[p + V2GTP_HEADER_LEN + j]
  <2> SUFFICES ASSUME NEW j \in 1 .. l
               PROVE  b[0 + V2GTP_HEADER_LEN + j] = s[p + V2GTP_HEADER_LEN + j]
    OBVIOUS
  <2>1. 0 + V2GTP_HEADER_LEN + j \in 1 .. Len(b)
        /\ p + (0 + V2GTP_HEADER_LEN + j) = p + V2GTP_HEADER_LEN + j
    BY <1>1, <1>2, <1>3, <1>4 DEF V2GTP_HEADER_LEN
  <2> QED
    BY <2>1 DEF Inside
<1>9. x.body = y.body
  <2>1. x.body \in Seq(Byte) /\ y.body \in Seq(Byte)
    BY <1>6, <1>7 DEF Frame
  <2>2. Len(x.body) = Len(y.body) /\ \A j \in 1 .. Len(x.body) : x.body[j] = y.body[j]
    BY <1>6, <1>7, <1>8
  <2> QED
    BY <2>1, <2>2, SeqEqual
<1>10. x = y
  BY <1>2, <1>6, <1>7, <1>9 DEF Frame
<1> QED
  BY <1>5, <1>10

-----------------------------------------------------------------------------
(* History only grows: what a step of the framer may do to what it was     *)
(* fed, what it yielded and what it consumed.                              *)
Grows ==
  /\ consumed <= consumed'
  /\ Len(received) <= Len(received')
  /\ \A i \in 1 .. Len(received) : received'[i] = received[i]
  /\ Len(frames) <= Len(frames')
  /\ \A k \in 1 .. Len(frames) : frames'[k] = frames[k] /\ starts'[k] = starts[k]

Stray(p) == p + V2GTP_HEADER_LEN <= Len(received) /\ ~Magic(received, p)

\* Every byte that this step removes from the buffer, if any, is stray.
DropsStray == \A p \in consumed .. consumed' - 1 : Stray(p)'

(* Growth keeps each frame on the wire and each skipped byte a stray one.  *)
LEMMA GrowthKeepsFrames ==
  ASSUME TypeOK, TypeOK', Window, FramesOnWire, Grows,
         NEW k \in 1 .. Len(frames)
  PROVE  /\ IsFrameOnWire(k)'
         /\ FrameEnd(k)' = FrameEnd(k)
         /\ FrameEnd(k) <= consumed
         /\ starts[k] \in Nat
         /\ FrameEnd(k) \in Nat
<1>1. /\ frames'[k] = frames[k]
      /\ starts'[k] = starts[k]
  BY DEF Grows
<1>2. /\ starts[k] \in Nat
      /\ frames[k] \in Frame
  BY ElementOfSeq DEF TypeOK
<1>3. /\ frames[k].body \in Seq(Byte)
      /\ Len(frames[k].body) \in Nat
  BY <1>2 DEF Frame
<1> DEFINE b == frames[k].body
<1>4. /\ starts[k] + 8 + Len(b) <= consumed
      /\ received[starts[k] + 1] = V2GTP_VERSION
      /\ received[starts[k] + 2] = V2GTP_INVERSE_VERSION
      /\ frames[k].ptype = PayloadType(received, starts[k])
      /\ Len(b) = PayloadLen(received, starts[k])
      /\ \A j \in 1 .. Len(b) : b[j] = received[starts[k] + 8 + j]
  BY DEF FramesOnWire, IsFrameOnWire, FrameEnd, Magic, V2GTP_HEADER_LEN
<1>5. consumed \in Nat /\ consumed' \in Nat /\ consumed <= Len(received)
      /\ Len(received) \in Nat
  BY DEF TypeOK, Window
<1> DEFINE n == Len(b)
           q == starts[k]
<1>6. ASSUME NEW i \in Nat, 1 <= i, i <= 8 + n
      PROVE  received'[q + i] = received[q + i]
  <2>1. q + i \in 1 .. Len(received)
    <3>1. n \in Nat /\ q \in Nat /\ q + 8 + n <= consumed
      BY <1>2, <1>3, <1>4
    <3> HIDE DEF n, q
    <3>2. QED
      BY <1>5, <1>6, <3>1
  <2>2. QED
    BY <2>1 DEF Grows
<1>7. \A i \in 1 .. 8 : received'[q + i] = received[q + i]
  <2>1. SUFFICES ASSUME NEW i \in 1 .. 8 PROVE received'[q + i] = received[q + i]
    OBVIOUS
  <2>2. i \in Nat /\ 1 <= i /\ i <= 8 + n
    BY <1>3
  <2>3. QED
    BY <1>6, <2>2
<1>8. /\ received'[starts[k] + 1] = received[starts[k] + 1]
      /\ received'[starts[k] + 2] = received[starts[k] + 2]
      /\ PayloadType(received', starts[k]) = PayloadType(received, starts[k])
      /\ PayloadLen(received', starts[k]) = PayloadLen(received, starts[k])
  BY <1>7 DEF PayloadType, PayloadLen, High, Low
<1>9. \A j \in 1 .. Len(b) : b[j] = received'[starts[k] + 8 + j]
  <2>1. SUFFICES ASSUME NEW j \in 1 .. Len(b) PROVE b[j] = received'[starts[k] + 8 + j]
    OBVIOUS
  <2>2. 8 + j \in Nat /\ 1 <= 8 + j /\ 8 + j <= 8 + n
    BY <1>3
  <2>3. received'[q + (8 + j)] = received[q + (8 + j)]
    BY <1>6, <2>2
  <2>4. q + (8 + j) = q + 8 + j
    BY <1>2
  <2>5. QED
    BY <1>4, <2>3, <2>4
<1>10. starts[k] + 8 + Len(b) <= consumed'
  BY <1>2, <1>3, <1>4, <1>5 DEF Grows
<1>11. QED
  BY <1>1, <1>2, <1>3, <1>4, <1>8, <1>9, <1>10
     DEF IsFrameOnWire, FrameEnd, Magic, V2GTP_HEADER_LEN

LEMMA GrowthKeepsStray ==
  ASSUME TypeOK, TypeOK', Window, FramesOnWire, OnlyStrayDropped, Grows,
         NEW p \in 0 .. consumed - 1
  PROVE  InFrame(p)' \/ Stray(p)'
<1>1. CASE InFrame(p)
  <2>1. PICK k \in 1 .. Len(frames) : starts[k] <= p /\ p < FrameEnd(k)
    BY <1>1 DEF InFrame
  <2>2. starts'[k] <= p /\ p < FrameEnd(k)'
    BY <2>1, GrowthKeepsFrames DEF Grows
  <2>3. k \in 1 .. Len(frames')
    BY DEF Grows, TypeOK
  <2>4. QED
    BY <2>2, <2>3 DEF InFrame
<1>2. CASE Stray(p)
  <2>1. p + 1 \in 1 .. Len(received) /\ p + 2 \in 1 .. Len(received)
    BY <1>2 DEF Stray, V2GTP_HEADER_LEN, TypeOK
  <2>2. ~Magic(received', p)
    BY <1>2, <2>1 DEF Stray, Magic, Grows
  <2>3. p + V2GTP_HEADER_LEN <= Len(received')
    BY <1>2 DEF Stray, V2GTP_HEADER_LEN, Grows, TypeOK
  <2>4. QED
    BY <2>2, <2>3 DEF Stray
<1>3. QED
  BY <1>1, <1>2 DEF OnlyStrayDropped, Stray

(* A step that yields no frame and drops no byte other than a stray one    *)
(* keeps the invariant, once its types and the window are re-established.  *)
LEMMA NoFrameStep ==
  ASSUME FramerInv, TypeOK', Window', Grows, frames' = frames, starts' = starts,
         DropsStray
  PROVE  FramerInv'
<1>1. \A k \in 1 .. Len(frames) : IsFrameOnWire(k)' /\ FrameEnd(k)' = FrameEnd(k)
  BY GrowthKeepsFrames DEF FramerInv
<1>2. FramesOnWire'
  BY <1>1 DEF FramerInv, FramesOnWire
<1>n. consumed \in Nat /\ consumed' \in Nat
  BY DEF FramerInv, TypeOK
<1>m. /\ \A p \in 0 .. consumed' - 1 : p \in Nat /\ p < consumed'
      /\ \A p \in Nat : consumed <= p /\ p < consumed' => p \in consumed .. consumed' - 1
  <2>1. PICK c \in Nat : c = consumed'
    BY <1>n
  <2>2. \A p \in 0 .. c - 1 : p \in Nat /\ p < c
    OBVIOUS
  <2>3. \A p \in Nat : consumed <= p /\ p < c => p \in consumed .. c - 1
    BY <1>n
  <2>4. QED
    BY <2>1, <2>2, <2>3
<1>3. ASSUME NEW p \in Nat, p < consumed'
      PROVE  InFrame(p)' \/ Stray(p)'
  <2>1. CASE p < consumed
    <3>1. p \in 0 .. consumed - 1
      BY <1>n, <2>1
    <3>2. QED
      BY <3>1, GrowthKeepsStray DEF FramerInv
  <2>2. CASE p >= consumed
    <3>1. p \in consumed .. consumed' - 1
      BY <1>n, <1>3, <2>2, <1>m
    <3>2. QED
      BY <3>1 DEF DropsStray
  <2>3. QED
    BY <1>n, <2>1, <2>2
<1>4. \A p \in 0 .. consumed' - 1 : p \in Nat /\ p < consumed'
  BY <1>m
<1>5. OnlyStrayDropped'
  BY <1>3, <1>4 DEF OnlyStrayDropped, Stray
<1>6. QED
  BY <1>2, <1>5 DEF FramerInv

(* Feed: the invariant does not depend on where the input is cut.          *)
LEMMA FeedKeepsInv ==
  ASSUME FramerInv, NEW data \in Seq(Byte), Feed(data)
  PROVE  FramerInv'
<1>0. /\ buf' = buf \o data /\ received' = received \o data /\ pc' = "loop"
      /\ frames' = frames /\ consumed' = consumed /\ starts' = starts
  BY DEF Feed
<1>1. /\ buf \in Seq(Byte) /\ received \in Seq(Byte) /\ consumed \in Nat
      /\ Len(received) = consumed + Len(buf)
      /\ \A i \in 1 .. Len(buf) : buf[i] = received[consumed + i]
  BY DEF FramerInv, TypeOK, Window
<1>2. /\ buf' \in Seq(Byte)
      /\ Len(buf') = Len(buf) + Len(data)
      /\ \A i \in 1 .. Len(buf) + Len(data) :
           buf'[i] = IF i <= Len(buf) THEN buf[i] ELSE data[i - Len(buf)]
  <2>1. buf \in Seq(Byte) /\ data \in Seq(Byte) /\ buf' = buf \o data
    BY <1>0, <1>1
  <2> QED
    BY ONLY <2>1, ConcatProperties, Zenon
<1>3. /\ received' \in Seq(Byte)
      /\ Len(received') = Len(received) + Len(data)
      /\ \A i \in 1 .. Len(received) + Len(data) :
           received'[i] = IF i <= Len(received) THEN received[i]
                                                ELSE data[i - Len(received)]
  <2>1. received \in Seq(Byte) /\ data \in Seq(Byte) /\ received' = received \o data
    BY <1>0, <1>1
  <2> QED
    BY ONLY <2>1, ConcatProperties, Zenon
<1>4. Len(buf) \in Nat /\ Len(data) \in Nat /\ Len(received) \in Nat
  BY <1>1
<1>5. TypeOK'
  BY <1>0, <1>2, <1>3 DEF FramerInv, TypeOK
<1>6. Grows
  <2>1. \A i \in 1 .. Len(received) : received'[i] = received[i]
    BY <1>3, <1>4
  <2>2. QED
    BY <1>0, <1>1, <1>3, <1>4, <2>1 DEF FramerInv, TypeOK, Grows
<1>7. ASSUME NEW i \in 1 .. Len(buf')
      PROVE  buf'[i] = received'[consumed + i]
  <2>1. consumed + i \in 1 .. Len(received) + Len(data)
    BY <1>1, <1>2, <1>4
  <2>2. CASE i <= Len(buf)
    <3>1. consumed + i <= Len(received) /\ i \in 1 .. Len(buf)
      BY <1>1, <1>4, <2>2
    <3>2. QED
      BY <1>1, <1>2, <1>3, <2>1, <2>2, <3>1
  <2>3. CASE i > Len(buf)
    <3>1. /\ ~(consumed + i <= Len(received))
          /\ (consumed + i) - Len(received) = i - Len(buf)
      BY <1>1, <1>4, <2>3
    <3>2. received'[consumed + i] = data[i - Len(buf)]
      BY <1>3, <2>1, <3>1
    <3>3. ~(i <= Len(buf))
      BY <1>4, <2>3
    <3>4. QED
      BY <1>2, <3>2, <3>3
  <2>4. i \in Int /\ Len(buf) \in Int
    BY <1>2, <1>4
  <2>5. QED
    BY <2>2, <2>3, <2>4
<1>8. Window'
  BY <1>0, <1>1, <1>2, <1>3, <1>4, <1>7 DEF Window
<1>9. DropsStray
  BY <1>0, <1>1 DEF DropsStray
<1>10. QED
  BY <1>0, <1>5, <1>6, <1>8, <1>9, NoFrameStep

(* Resync drops one byte, which no frame could have begun with.            *)
LEMMA ResyncKeepsInv ==
  ASSUME FramerInv, Resync
  PROVE  FramerInv'
<1> USE DEF Resync
<1>1. /\ buf \in Seq(Byte) /\ received \in Seq(Byte) /\ consumed \in Nat
      /\ Len(received) = consumed + Len(buf)
      /\ \A i \in 1 .. Len(buf) : buf[i] = received[consumed + i]
      /\ Len(buf) \in Nat /\ Len(buf) >= 8
  BY DEF FramerInv, TypeOK, Window, HasHeader, V2GTP_HEADER_LEN
<1>2. buf # <<>>
  BY <1>1
<1>3. /\ buf' \in Seq(Byte)
      /\ Len(buf') = Len(buf) - 1
      /\ \A i \in 1 .. Len(buf') : buf'[i] = buf[i + 1]
  BY <1>1, <1>2, HeadTailProperties DEF AfterStray
<1>c. consumed' = consumed + 1
  BY <1>1, <1>3
<1>4. TypeOK'
  BY <1>1, <1>3, <1>c DEF FramerInv, TypeOK
<1>5. \A i \in 1 .. Len(buf') : buf'[i] = received'[consumed' + i]
  <2>1. SUFFICES ASSUME NEW i \in 1 .. Len(buf')
                 PROVE  buf[i + 1] = received[(consumed + 1) + i]
    BY <1>3, <1>c
  <2>2. i + 1 \in 1 .. Len(buf) /\ (consumed + 1) + i = consumed + (i + 1)
    BY <1>1, <1>3
  <2>3. QED
    BY <1>1, <2>2
<1>6. Window'
  BY <1>1, <1>3, <1>c, <1>5 DEF Window
<1>7. Grows
  BY <1>1, <1>c DEF FramerInv, TypeOK, Grows
<1>8. Stray(consumed)
  <2>1. buf[1] = received[consumed + 1] /\ buf[2] = received[consumed + 2]
    BY <1>1
  <2>2. ~Magic(received, consumed)
    BY <2>1 DEF Magic
  <2>3. QED
    BY <1>1, <2>2 DEF Stray, V2GTP_HEADER_LEN
<1>9. DropsStray
  BY <1>1, <1>c, <1>8 DEF DropsStray, Stray
<1>10. QED
  BY <1>4, <1>6, <1>7, <1>9, NoFrameStep

(* Suspend changes nothing that the invariant speaks of but pc.            *)
LEMMA SuspendKeepsInv ==
  ASSUME FramerInv, Suspend
  PROVE  FramerInv'
<1> USE DEF Suspend
<1>1. TypeOK'
  BY DEF FramerInv, TypeOK
<1>2. Window'
  BY DEF FramerInv, Window
<1>3. Grows
  BY DEF FramerInv, TypeOK, Grows
<1>4. DropsStray
  BY DEF FramerInv, TypeOK, DropsStray
<1>5. QED
  BY <1>1, <1>2, <1>3, <1>4, NoFrameStep

(* Yield: the new frame is the one that begins where the buffer does.      *)
LEMMA YieldKeepsInv ==
  ASSUME FramerInv, Yield
  PROVE  FramerInv'
<1> DEFINE fl == FrameLen(buf, 0)
           pl == PayloadLen(buf, 0)
           fr == FrameAt(buf, 0)
<1>0. /\ Magic(buf, 0) /\ Fits(buf, 0) /\ pc' = pc /\ received' = received
      /\ frames' = Append(frames, fr) /\ starts' = Append(starts, consumed)
      /\ buf' = AfterFrame(buf) /\ consumed' = consumed + (Len(buf) - Len(buf'))
  BY DEF Yield, Complete
<1>1. /\ buf \in Seq(Byte) /\ received \in Seq(Byte) /\ consumed \in Nat
      /\ frames \in Seq(Frame) /\ starts \in Seq(Nat)
      /\ Len(starts) = Len(frames)
      /\ Len(received) = consumed + Len(buf)
      /\ \A i \in 1 .. Len(buf) : buf[i] = received[consumed + i]
      /\ Len(buf) \in Nat /\ Len(buf) >= 8
      /\ Len(frames) \in Nat
  BY DEF Yield, FramerInv, TypeOK, Window, HasHeader, V2GTP_HEADER_LEN
<1>k. PICK k0 \in Nat : k0 = Len(frames) + 1
  BY <1>1
<1>2. /\ pl \in Nat /\ fl = 8 + pl /\ fl <= Len(buf)
      /\ fr \in Frame
      /\ fr.ptype = PayloadType(buf, 0)
      /\ Len(fr.body) = pl
      /\ \A j \in 1 .. pl : fr.body[j] = buf[8 + j]
  <2>1. 0 \in Nat /\ 0 + V2GTP_HEADER_LEN <= Len(buf) /\ Fits(buf, 0)
    BY <1>0, <1>1 DEF V2GTP_HEADER_LEN
  <2>2. /\ pl \in Nat
        /\ FrameLen(buf, 0) \in Nat
        /\ 0 + FrameLen(buf, 0) <= Len(buf)
    BY <1>1, <2>1, HeaderTypes, FitsMeaning
  <2>3. /\ fr \in Frame
        /\ fr.ptype = PayloadType(buf, 0)
        /\ Len(fr.body) = pl
        /\ \A j \in 1 .. pl : fr.body[j] = buf[0 + V2GTP_HEADER_LEN + j]
    BY <1>1, <2>1, FrameAtIsWire
  <2>4. \A j \in 1 .. pl : 0 + V2GTP_HEADER_LEN + j = 8 + j
    BY DEF V2GTP_HEADER_LEN
  <2>5. fl = 8 + pl
    BY DEF FrameLen, V2GTP_HEADER_LEN
  <2>6. QED
    BY <2>2, <2>3, <2>4, <2>5
<1>3. /\ buf' \in Seq(Byte)
      /\ Len(buf') = Len(buf) - fl
      /\ \A i \in 1 .. Len(buf') : buf'[i] = buf[fl + i]
  <2> HIDE DEF fl, pl, fr
  <2>1. buf' = SubSeq(buf, fl + 1, Len(buf))
    BY <1>0 DEF AfterFrame, fl
  <2>2. fl + 1 \in Int /\ Len(buf) \in Int
    BY <1>1, <1>2
  <2>3. \A i \in fl + 1 .. Len(buf) : buf[i] \in Byte
    BY <1>1, <1>2, ElementOfSeq
  <2>4. /\ buf' \in Seq(Byte)
        /\ Len(buf') = IF fl + 1 <= Len(buf) THEN Len(buf) - (fl + 1) + 1 ELSE 0
        /\ \A i \in 1 .. Len(buf) - (fl + 1) + 1 : buf'[i] = buf[(fl + 1) + i - 1]
    BY <2>1, <2>2, <2>3, SubSeqProperties
  <2>5. Len(buf') = Len(buf) - fl
    BY <1>1, <1>2, <2>4
  <2>6. ASSUME NEW i \in 1 .. Len(buf') PROVE buf'[i] = buf[fl + i]
    <3>1. i \in 1 .. Len(buf) - (fl + 1) + 1 /\ (fl + 1) + i - 1 = fl + i
      BY <1>1, <1>2, <2>5
    <3>2. QED
      BY <2>4, <3>1
  <2>7. QED
    BY <2>4, <2>5, <2>6
<1>4. /\ frames' \in Seq(Frame)
      /\ Len(frames') = k0
      /\ \A k \in 1 .. Len(frames) : frames'[k] = frames[k]
      /\ frames'[k0] = fr
  <2> HIDE DEF fr
  <2>1. frames' = Append(frames, fr)
    BY <1>0
  <2>2. QED
    BY <1>1, <1>2, <1>k, <2>1, AppendProperties
<1>5. /\ starts' \in Seq(Nat)
      /\ Len(starts') = k0
      /\ \A k \in 1 .. Len(frames) : starts'[k] = starts[k]
      /\ starts'[k0] = consumed
  BY <1>0, <1>1, <1>k, AppendProperties
<1> HIDE DEF fl, fr
<1>6. consumed' = consumed + fl /\ consumed' \in Nat
  <2>0. fl \in Nat /\ consumed \in Nat /\ Len(buf) \in Nat
    <3>1. fl \in Nat
      BY <1>2
    <3>2. QED
      BY <1>1, <3>1
  <2>1. consumed' = consumed + (Len(buf) - Len(buf')) /\ Len(buf') = Len(buf) - fl
    BY <1>0, <1>3
  <2>2. consumed' = consumed + (Len(buf) - (Len(buf) - fl))
    BY <2>1
  <2>3. QED
    BY <2>0, <2>2
<1>7. TypeOK'
  BY <1>0, <1>1, <1>3, <1>k, <1>4, <1>5, <1>6 DEF FramerInv, TypeOK
<1>8. ASSUME NEW i \in 1 .. Len(buf') PROVE buf'[i] = received'[consumed' + i]
  <2>0. Len(buf') = Len(buf) - fl /\ fl \in Nat /\ consumed \in Nat /\ Len(buf) \in Nat
    BY <1>1, <1>2, <1>3, SMTT(30)
  <2>1. fl + i \in 1 .. Len(buf) /\ (consumed + fl) + i = consumed + (fl + i)
    BY <2>0
  <2>2. buf'[i] = buf[fl + i]
    BY <1>3
  <2>3. QED
    BY <1>0, <1>1, <1>6, <2>1, <2>2
<1>9. Window'
  BY <1>0, <1>1, <1>2, <1>3, <1>6, <1>8 DEF Window
<1>10. Grows
  BY <1>0, <1>1, <1>2, <1>k, <1>4, <1>5, <1>6, SMTT(30) DEF Grows
<1>11. IsFrameOnWire(k0)' /\ FrameEnd(k0)' = consumed'
  <2>1. ASSUME NEW i \in 1 .. 8 PROVE buf[i] = received[consumed + i]
    BY <1>1
  <2>2. /\ Magic(received, consumed)
        /\ PayloadType(received, consumed) = PayloadType(buf, 0)
        /\ PayloadLen(received, consumed) = pl
    BY <1>0, <2>1 DEF Magic, PayloadType, PayloadLen, High, Low
  <2>3. ASSUME NEW j \in 1 .. pl
        PROVE  fr.body[j] = received[consumed + 8 + j]
    <3>1. 8 + j \in 1 .. Len(buf) /\ consumed + (8 + j) = consumed + 8 + j
      BY <1>1, <1>2
    <3>2. QED
      BY <1>1, <1>2, <3>1
  <2>4. consumed + 8 + pl = consumed'
    BY <1>1, <1>2, <1>6
  <2>5. FrameEnd(k0)' = consumed'
    BY <1>2, <1>k, <1>4, <1>5, <2>4 DEF FrameEnd, V2GTP_HEADER_LEN
  <2>6. /\ Magic(received', starts'[k0])
        /\ frames'[k0].ptype = PayloadType(received', starts'[k0])
        /\ Len(frames'[k0].body) = PayloadLen(received', starts'[k0])
    BY <1>0, <1>2, <1>4, <1>5, <2>2
  <2>7. \A j \in 1 .. Len(frames'[k0].body) :
          frames'[k0].body[j] = received'[starts'[k0] + V2GTP_HEADER_LEN + j]
    BY <1>0, <1>2, <1>4, <1>5, <2>3 DEF V2GTP_HEADER_LEN
  <2>8. QED
    BY <1>6, <2>5, <2>6, <2>7 DEF IsFrameOnWire
<1> HIDE DEF pl
<1>12. \A k \in 1 .. Len(frames) :
         IsFrameOnWire(k)' /\ FrameEnd(k)' = FrameEnd(k) /\ FrameEnd(k) <= consumed
  BY <1>7, <1>10, GrowthKeepsFrames DEF FramerInv
<1>13. FramesOnWire'
  <2>1. \A k \in 1 .. Len(frames') : IsFrameOnWire(k)'
    BY <1>1, <1>k, <1>4, <1>11, <1>12
  <2>2. ASSUME NEW k \in 1 .. Len(frames'), NEW l \in 1 .. Len(frames'), k < l
        PROVE  FrameEnd(k)' <= starts'[l]
    <3>1. k \in 1 .. Len(frames)
      BY <1>1, <1>k, <1>4, <2>2
    <3>2. CASE l = k0
      BY <1>5, <1>12, <3>1, <3>2
    <3>3. CASE l # k0
      <4>1. l \in 1 .. Len(frames)
        BY <1>1, <1>k, <1>4, <3>3
      <4>2. FrameEnd(k) <= starts[l]
        BY <2>2, <3>1, <4>1 DEF FramerInv, FramesOnWire
      <4>3. QED
        BY <1>5, <1>12, <3>1, <4>1, <4>2
    <3>4. QED
      BY <3>2, <3>3
  <2>3. QED
    BY <2>1, <2>2 DEF FramesOnWire
<1>14. ASSUME NEW p \in 0 .. consumed' - 1
       PROVE  InFrame(p)' \/ Stray(p)'
  <2>1. CASE p < consumed
    <3>1. p \in 0 .. consumed - 1
      BY <1>1, <2>1
    <3>2. QED
      BY <1>7, <1>10, <3>1, GrowthKeepsStray DEF FramerInv
  <2>2. CASE p >= consumed
    <3>1. k0 \in 1 .. Len(frames') /\ starts'[k0] <= p /\ p < FrameEnd(k0)'
      BY <1>1, <1>k, <1>4, <1>5, <1>6, <1>11, <2>2, SMTT(30)
    <3>2. QED
      BY <3>1 DEF InFrame
  <2>3. QED
    BY <1>1, <2>1, <2>2
<1>15. OnlyStrayDropped'
  BY <1>14 DEF OnlyStrayDropped, Stray
<1>16. QED
  BY <1>7, <1>9, <1>13, <1>15 DEF FramerInv

LEMMA LoopKeepsInv ==
  ASSUME FramerInv, Loop
  PROVE  FramerInv'
BY ResyncKeepsInv, YieldKeepsInv, SuspendKeepsInv DEF Loop

LEMMA StutterKeepsInv ==
  ASSUME FramerInv, UNCHANGED framerVars
  PROVE  FramerInv'
<1> USE DEF framerVars
<1>1. TypeOK'
  BY DEF FramerInv, TypeOK
<1>2. Window'
  BY DEF FramerInv, Window
<1>3. Grows
  BY DEF FramerInv, TypeOK, Grows
<1>4. DropsStray
  BY DEF FramerInv, TypeOK, DropsStray
<1>5. QED
  BY <1>1, <1>2, <1>3, <1>4, NoFrameStep

LEMMA InitInv ==
  ASSUME FramerInit
  PROVE  FramerInv
<1> USE DEF FramerInit
<1>1. TypeOK
  BY DEF TypeOK
<1>2. Window
  BY DEF Window
<1>3. FramesOnWire
  BY DEF FramesOnWire
<1>4. OnlyStrayDropped
  BY DEF OnlyStrayDropped
<1>5. QED
  BY <1>1, <1>2, <1>3, <1>4 DEF FramerInv

=============================================================================
