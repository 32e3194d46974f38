-------------------------- MODULE FramerBytesProofs --------------------------
(***************************************************************************)
(* The framer is right for every set of payloads and every length of       *)
(* input: what MCFramerBytes checks for a few segments, proved for all.    *)
(***************************************************************************)
EXTENDS FramerBytes, FramerProofs, Induction

\* The invariant, with what holds between two calls of feed().
IInv == FramerInv /\ NothingWithheld

LEMMA InitIInv == Init => IInv
<1>1. SUFFICES ASSUME FramerInit PROVE IInv
  BY DEF Init
<1>2. FramerInv
  BY <1>1, InitInv
<1>3. Len(buf) < V2GTP_HEADER_LEN
  BY <1>1 DEF FramerInit, V2GTP_HEADER_LEN
<1>4. QED
  BY <1>2, <1>3 DEF IInv, NothingWithheld

LEMMA NextIInv == IInv /\ [Next]_framerVars => IInv'
<1>1. SUFFICES ASSUME IInv, [Next]_framerVars PROVE IInv'
  OBVIOUS
<1>2. ASSUME NEW data \in Segments, Receive(data) PROVE IInv'
  <2>1. data \in Seq(Byte)
    BY SegmentsAssumption
  <2>2. Feed(data)
    BY <1>2 DEF Receive
  <2>3. FramerInv'
    BY <1>1, <2>1, <2>2, FeedKeepsInv DEF IInv
  <2>4. pc' = "loop"
    BY <2>2 DEF Feed
  <2>5. QED
    BY <2>3, <2>4 DEF IInv, NothingWithheld
<1>3. ASSUME Loop PROVE IInv'
  <2>1. FramerInv'
    BY <1>1, <1>3, LoopKeepsInv DEF IInv
  <2>2. CASE Resync
    BY <2>1, <2>2 DEF IInv, NothingWithheld, Resync
  <2>3. CASE Yield
    BY <2>1, <2>3 DEF IInv, NothingWithheld, Yield
  <2>4. CASE Suspend
    <3>1. buf' = buf /\ (HasHeader(buf) => Magic(buf, 0) /\ ~Fits(buf, 0))
      BY <2>4 DEF Suspend, Waiting, Complete
    <3>2. HasHeader(buf) \/ Len(buf) < V2GTP_HEADER_LEN
      BY <1>1 DEF IInv, FramerInv, TypeOK, HasHeader, V2GTP_HEADER_LEN
    <3>3. QED
      BY <2>1, <3>1, <3>2 DEF IInv, NothingWithheld
  <2>5. QED
    BY <1>3, <2>2, <2>3, <2>4 DEF Loop
<1>4. CASE UNCHANGED framerVars
  <2>1. FramerInv'
    BY <1>1, <1>4, StutterKeepsInv DEF IInv
  <2>2. QED
    BY <1>1, <1>4, <2>1 DEF IInv, NothingWithheld, framerVars
<1>5. QED
  BY <1>1, <1>2, <1>3, <1>4 DEF Next

(* The inductive invariant: the buffer is the unread rest of the input,    *)
(* every frame stands in it, and only frames and stray bytes have left.    *)
THEOREM FramerBytesInv == Spec => []IInv
BY InitIInv, NextIInv, PTL DEF Spec

(* Every variable of the framer keeps its type, whatever bytes arrive.     *)
THEOREM TypeCorrect == Spec => []TypeOK
<1>1. IInv => TypeOK
  BY DEF IInv, FramerInv
<1>2. QED
  BY <1>1, FramerBytesInv, PTL

(* _Framer.feed invents, alters and shares no byte: each frame it yields   *)
(* stands on the wire at a place of its own.                               *)
THEOREM FramesAreOnWire == Spec => []FramesOnWire
<1>1. IInv => FramesOnWire
  BY DEF IInv, FramerInv
<1>2. QED
  BY <1>1, FramerBytesInv, PTL

(* The resync of _Framer.feed never skips a header it could have framed.   *)
THEOREM ResyncDropsOnlyStray == Spec => []OnlyStrayDropped
<1>1. IInv => OnlyStrayDropped
  BY DEF IInv, FramerInv
<1>2. QED
  BY <1>1, FramerBytesInv, PTL

(* A frame that has fully arrived is yielded before feed() returns.        *)
THEOREM NoFrameWithheld == Spec => []NothingWithheld
<1>1. IInv => NothingWithheld
  BY DEF IInv
<1>2. QED
  BY <1>1, FramerBytesInv, PTL

-----------------------------------------------------------------------------
(* What From, a recursive function, returns at one place in terms of what  *)
(* it returns further on.                                                  *)
Reading(s, f, p) ==
  IF Len(s) - p < V2GTP_HEADER_LEN THEN <<>>
  ELSE IF ~Magic(s, p) THEN f[p + 1]
  ELSE IF ~Fits(s, p) THEN <<>>
  ELSE <<FrameAt(s, p)>> \o f[p + FrameLen(s, p)]

(* The place where reading goes on is within s, and further on.            *)
LEMMA ReadingGoesOn ==
  ASSUME NEW s \in Seq(Byte), NEW p \in 0 .. Len(s), ~(Len(s) - p < V2GTP_HEADER_LEN)
  PROVE  /\ p + 1 \in 0 .. Len(s)
         /\ Fits(s, p) => /\ p + FrameLen(s, p) \in 0 .. Len(s)
                          /\ p + FrameLen(s, p) > p
                          /\ FrameAt(s, p) \in Frame
<1>1. Len(s) \in Nat /\ p \in Nat /\ p + V2GTP_HEADER_LEN <= Len(s)
  BY DEF V2GTP_HEADER_LEN
<1>2. FrameLen(s, p) \in Nat /\ FrameLen(s, p) >= 8
  BY <1>1, HeaderTypes DEF FrameLen, V2GTP_HEADER_LEN
<1>3. Fits(s, p) => p + FrameLen(s, p) <= Len(s) /\ FrameAt(s, p) \in Frame
  BY <1>1, FitsMeaning, FrameAtIsWire
<1>4. p + 1 \in 0 .. Len(s)
  BY <1>1 DEF V2GTP_HEADER_LEN
<1> QED
  BY <1>1, <1>2, <1>3, <1>4

LEMMA ReadingType ==
  ASSUME NEW s \in Seq(Byte), NEW p \in 0 .. Len(s), NEW f,
         \A q \in 0 .. Len(s) : q > p => f[q] \in Seq(Frame)
  PROVE  Reading(s, f, p) \in Seq(Frame)
<1>1. <<>> \in Seq(Frame)
  OBVIOUS
<1>2. CASE Len(s) - p < V2GTP_HEADER_LEN
  BY <1>1, <1>2 DEF Reading
<1>3. CASE ~(Len(s) - p < V2GTP_HEADER_LEN)
  <2>1. CASE ~Magic(s, p)
    <3>1. p + 1 \in 0 .. Len(s) /\ p + 1 > p
      BY <1>3, ReadingGoesOn
    <3>2. f[p + 1] \in Seq(Frame)
      BY <3>1
    <3> QED
      BY <1>3, <2>1, <3>2 DEF Reading
  <2>2. CASE Magic(s, p) /\ Fits(s, p)
    <3> PICK n, x : n = p + FrameLen(s, p) /\ x = FrameAt(s, p)
      OBVIOUS
    <3>1. n \in 0 .. Len(s) /\ n > p /\ x \in Frame
      BY <1>3, <2>2, ReadingGoesOn
    <3>2. f[n] \in Seq(Frame)
      BY <3>1
    <3>3. <<x>> \o f[n] \in Seq(Frame)
      BY <3>1, <3>2
    <3> QED
      BY <1>3, <2>2, <3>3 DEF Reading
  <2> QED
    BY <1>1, <1>3, <2>1, <2>2 DEF Reading
<1> QED
  BY <1>2, <1>3

(* Two functions that agree beyond p read the same at p.                   *)
LEMMA ReadingDepends ==
  ASSUME NEW s \in Seq(Byte), NEW p \in 0 .. Len(s), NEW f, NEW g,
         \A q \in 0 .. Len(s) : q > p => f[q] = g[q]
  PROVE  Reading(s, f, p) = Reading(s, g, p)
<1>1. CASE Len(s) - p < V2GTP_HEADER_LEN
  BY <1>1 DEF Reading
<1>2. CASE ~(Len(s) - p < V2GTP_HEADER_LEN)
  <2>1. CASE ~Magic(s, p)
    <3>1. p + 1 \in 0 .. Len(s) /\ p + 1 > p
      BY <1>2, ReadingGoesOn
    <3>2. f[p + 1] = g[p + 1]
      BY <3>1
    <3> QED
      BY <1>2, <2>1, <3>2 DEF Reading
  <2>2. CASE Magic(s, p) /\ Fits(s, p)
    <3> PICK n : n = p + FrameLen(s, p)
      OBVIOUS
    <3>1. n \in 0 .. Len(s) /\ n > p
      BY <1>2, <2>2, ReadingGoesOn
    <3>2. f[n] = g[n]
      BY <3>1
    <3> QED
      BY <1>2, <2>2, <3>2 DEF Reading
  <2> QED
    BY <1>2, <2>1, <2>2 DEF Reading
<1> QED
  BY <1>1, <1>2

LEMMA AppendThen ==
  ASSUME NEW S, NEW f \in Seq(S), NEW x \in S, NEW y \in Seq(S)
  PROVE  f \o (<<x>> \o y) = Append(f, x) \o y
<1>1. <<x>> \in Seq(S)
  OBVIOUS
<1>2. Append(f, x) = f \o <<x>>
  BY AppendIsConcat
<1> QED
  BY <1>1, <1>2, ConcatAssociative

(* There is a function that reads like that everywhere: it is built from   *)
(* the end of s to its start.                                              *)
ReadsFrom(s, f, k) == \A p \in 0 .. Len(s) : p >= k => f[p] = Reading(s, f, p)

LEMMA FromExists ==
  ASSUME NEW s \in Seq(Byte)
  PROVE  \E f \in [0 .. Len(s) -> Seq(Frame)] : ReadsFrom(s, f, 0)
<1> PICK n \in Nat : n = Len(s)
  OBVIOUS
<1> DEFINE T == {k \in Nat : k <= n => \E f \in [0 .. n -> Seq(Frame)] : ReadsFrom(s, f, n - k)}
<1>1. 0 \in T
  <2> DEFINE f == [p \in 0 .. n |-> <<>>]
  <2>1. f \in [0 .. n -> Seq(Frame)]
    OBVIOUS
  <2>2. \A p \in 0 .. n : f[p] = <<>>
    OBVIOUS
  <2> HIDE DEF f
  <2>3. \A p \in 0 .. n : p >= n - 0 => p = n
    OBVIOUS
  <2>4. Reading(s, f, n) = <<>>
    <3>1. Len(s) - n < V2GTP_HEADER_LEN
      BY DEF V2GTP_HEADER_LEN
    <3> QED
      BY <3>1 DEF Reading
  <2>5. ReadsFrom(s, f, n - 0)
    BY <2>2, <2>3, <2>4 DEF ReadsFrom
  <2> QED
    BY <2>1, <2>5
<1>2. ASSUME NEW k \in Nat, k \in T PROVE k + 1 \in T
  <2> SUFFICES ASSUME k + 1 <= n
               PROVE  \E f \in [0 .. n -> Seq(Frame)] : ReadsFrom(s, f, n - (k + 1))
    OBVIOUS
  <2>1. PICK f \in [0 .. n -> Seq(Frame)] : ReadsFrom(s, f, n - k)
    BY <1>2
  <2> PICK q : q = n - (k + 1)
    OBVIOUS
  <2>2. q \in 0 .. n /\ \A p \in 0 .. n : p >= q <=> p = q \/ p >= n - k
    OBVIOUS
  <2>3. Reading(s, f, q) \in Seq(Frame)
    BY <2>2, ReadingType
  <2> DEFINE g == [f EXCEPT ![q] = Reading(s, f, q)]
  <2>4. g \in [0 .. n -> Seq(Frame)]
    BY <2>3
  <2>5. g[q] = Reading(s, f, q) /\ \A p \in 0 .. n : p # q => g[p] = f[p]
    BY <2>2
  <2> HIDE DEF g
  <2>6. ASSUME NEW p \in 0 .. n, p >= q PROVE Reading(s, g, p) = Reading(s, f, p)
    <3>1. \A r \in 0 .. n : r > p => g[r] = f[r]
      BY <2>2, <2>5, <2>6
    <3> QED
      BY <3>1, ReadingDepends
  <2>7. ASSUME NEW p \in 0 .. n, p >= q PROVE g[p] = Reading(s, g, p)
    <3>1. CASE p = q
      BY <2>5, <2>6, <3>1
    <3>2. CASE p # q
      <4>1. g[p] = f[p] /\ f[p] = Reading(s, f, p)
        BY <2>1, <2>2, <2>5, <2>7, <3>2 DEF ReadsFrom
      <4> QED
        BY <2>6, <2>7, <4>1
    <3> QED
      BY <3>1, <3>2
  <2>8. ReadsFrom(s, g, n - (k + 1))
    BY <2>7 DEF ReadsFrom
  <2> QED
    BY <2>4, <2>8
<1> HIDE DEF T
<1>3. n \in T
  BY <1>1, <1>2, NumberInduction
<1>4. \E f \in [0 .. n -> Seq(Frame)] : ReadsFrom(s, f, n - n)
  BY <1>3 DEF T
<1>5. n - n = 0
  OBVIOUS
<1> QED
  BY <1>4, <1>5

(* From reads like that, and what it returns is sequences of frames.       *)
LEMMA FromReads ==
  ASSUME NEW s \in Seq(Byte)
  PROVE  \A p \in 0 .. Len(s) : /\ From(s)[p] = Reading(s, From(s), p)
                                /\ From(s)[p] \in Seq(Frame)
<1> PICK n \in Nat : n = Len(s)
  OBVIOUS
<1> DEFINE from == CHOOSE f : f = [p \in 0 .. Len(s) |->
                     IF Len(s) - p < V2GTP_HEADER_LEN THEN <<>>
                     ELSE IF ~Magic(s, p) THEN f[p + 1]
                     ELSE IF ~Fits(s, p) THEN <<>>
                     ELSE <<FrameAt(s, p)>> \o f[p + FrameLen(s, p)]]
<1>1. From(s) = from
  BY DEF From
<1>2. \E f : f = [p \in 0 .. Len(s) |-> Reading(s, f, p)]
  <2>1. PICK f \in [0 .. Len(s) -> Seq(Frame)] : ReadsFrom(s, f, 0)
    BY FromExists
  <2>2. \A p \in 0 .. Len(s) : f[p] = Reading(s, f, p)
    BY <2>1 DEF ReadsFrom
  <2> QED
    BY <2>2, Zenon
<1>3. from = [p \in 0 .. Len(s) |-> Reading(s, from, p)]
  BY <1>2, Zenon DEF Reading
<1> HIDE DEF from
<1>4. \A p \in 0 .. n : from[p] = Reading(s, from, p)
  BY <1>3, Zenon
<1> DEFINE T == {k \in Nat : \A p \in 0 .. n : n - p <= k => from[p] \in Seq(Frame)}
<1>5. 0 \in T
  <2>1. \A p \in 0 .. n : n - p <= 0 => Len(s) - p < V2GTP_HEADER_LEN
    BY DEF V2GTP_HEADER_LEN
  <2>2. \A p \in 0 .. n : n - p <= 0 => from[p] = <<>>
    BY <1>4, <2>1 DEF Reading
  <2>3. <<>> \in Seq(Frame)
    OBVIOUS
  <2> QED
    BY <2>2, <2>3
<1>6. ASSUME NEW k \in Nat, k \in T PROVE k + 1 \in T
  <2> SUFFICES ASSUME NEW p \in 0 .. n, n - p <= k + 1 PROVE from[p] \in Seq(Frame)
    OBVIOUS
  <2>1. \A q \in 0 .. n : q > p => n - q <= k
    OBVIOUS
  <2>2. \A q \in 0 .. Len(s) : q > p => from[q] \in Seq(Frame)
    BY <1>6, <2>1
  <2>3. Reading(s, from, p) \in Seq(Frame)
    BY <2>2, ReadingType
  <2> QED
    BY <1>4, <2>3
<1>7. n \in T
  <2> HIDE DEF T
  <2> QED
    BY <1>5, <1>6, NumberInduction
<1>8. \A p \in 0 .. n : from[p] \in Seq(Frame)
  BY <1>7
<1> QED
  BY <1>1, <1>4, <1>8, Zenon

-----------------------------------------------------------------------------
(* Whatever is still to come, the frames of the whole are those yielded    *)
(* followed by those that will be read from where the buffer begins.       *)
WholeWith(t) == Batch(received \o t) = frames \o From(received \o t)[consumed]
Whole == \A t \in Seq(Byte) : WholeWith(t)

(* The buffer lies in the input, whatever follows it.                      *)
LEMMA BufferInside ==
  ASSUME FramerInv, NEW t \in Seq(Byte)
  PROVE  /\ received \o t \in Seq(Byte) /\ Inside(buf, received \o t, consumed)
         /\ buf \in Seq(Byte) /\ consumed \in Nat /\ consumed \in 0 .. Len(received \o t)
         /\ Len(received \o t) - consumed >= Len(buf) /\ Len(buf) \in Nat
<1> PICK s, r, c : s = received \o t /\ r = received /\ c = consumed
  OBVIOUS
<1>1. /\ r \in Seq(Byte) /\ buf \in Seq(Byte) /\ c \in Nat
      /\ Len(r) = c + Len(buf) /\ \A i \in 1 .. Len(buf) : buf[i] = r[c + i]
  BY DEF FramerInv, TypeOK, Window
<1>2. /\ s \in Seq(Byte) /\ Len(s) = Len(r) + Len(t) /\ \A i \in 1 .. Len(r) : s[i] = r[i]
  BY <1>1
<1>3. \A i \in 1 .. Len(buf) : c + i \in 1 .. Len(r)
  BY <1>1
<1>4. Inside(buf, s, c)
  BY <1>1, <1>2, <1>3 DEF Inside
<1> QED
  BY <1>1, <1>2, <1>4

LEMMA WholeInit == Init => Whole
<1> SUFFICES ASSUME Init, NEW t \in Seq(Byte) PROVE WholeWith(t)
  BY DEF Whole
<1>1. received = <<>> /\ frames = <<>> /\ consumed = 0
  BY DEF Init, FramerInit
<1>2. received \o t = t
  BY <1>1, ConcatEmptySeq
<1>3. From(t)[0] \in Seq(Frame)
  BY FromReads
<1>4. <<>> \o From(t)[0] = From(t)[0]
  BY <1>3, ConcatEmptySeq
<1> QED
  BY <1>1, <1>2, <1>4 DEF WholeWith, Batch

LEMMA WholeFeed == ASSUME FramerInv, Whole, NEW data \in Seq(Byte), Feed(data) PROVE Whole'
<1> SUFFICES ASSUME NEW t \in Seq(Byte) PROVE WholeWith(t)'
  BY DEF Whole
<1>1. received' = received \o data /\ frames' = frames /\ consumed' = consumed
  BY DEF Feed
<1>2. received \in Seq(Byte)
  BY DEF FramerInv, TypeOK
<1>3. (received \o data) \o t = received \o (data \o t) /\ data \o t \in Seq(Byte)
  BY <1>2, ConcatAssociative
<1>4. WholeWith(data \o t)
  BY <1>3 DEF Whole
<1> QED
  BY <1>1, <1>3, <1>4 DEF WholeWith

LEMMA WholeResync == ASSUME FramerInv, Whole, Resync, FramerInv' PROVE Whole'
<1> SUFFICES ASSUME NEW t \in Seq(Byte) PROVE WholeWith(t)'
  BY DEF Whole
<1>1. /\ received' = received /\ frames' = frames /\ HasHeader(buf) /\ ~Magic(buf, 0)
      /\ consumed' = consumed + 1
  <2>1. buf \in Seq(Byte) /\ buf # <<>>
    BY DEF Resync, FramerInv, TypeOK, HasHeader, V2GTP_HEADER_LEN
  <2> PICK m, n : m = Len(Tail(buf)) /\ n = Len(buf)
    OBVIOUS
  <2>2. m = n - 1 /\ n \in Nat
    BY <2>1, HeadTailProperties
  <2>3. consumed' = consumed + (n - m) /\ consumed \in Nat
    BY DEF Resync, AfterStray, FramerInv, TypeOK
  <2>4. consumed' = consumed + 1
    BY <2>2, <2>3
  <2> QED
    BY <2>4 DEF Resync
<1> PICK s, c : s = received \o t /\ c = consumed
  OBVIOUS
<1>2. /\ s \in Seq(Byte) /\ buf \in Seq(Byte) /\ Inside(buf, s, c) /\ c \in Nat
      /\ c \in 0 .. Len(s) /\ Len(s) - c >= Len(buf) /\ Len(buf) \in Nat /\ Len(s) \in Nat
  BY BufferInside
<1>3. ~(Len(s) - c < V2GTP_HEADER_LEN) /\ ~Magic(s, c)
  <2>1. Len(buf) >= V2GTP_HEADER_LEN
    BY <1>1 DEF HasHeader
  <2>2. ~Magic(s, c)
    BY <1>1, <1>2, <2>1, InsideHeader
  <2> QED
    BY <1>2, <2>1, <2>2 DEF V2GTP_HEADER_LEN
<1>4. From(s)[c] = From(s)[c + 1]
  BY <1>2, <1>3, FromReads DEF Reading
<1>5. Batch(s) = frames \o From(s)[c]
  BY DEF Whole, WholeWith
<1> QED
  BY <1>1, <1>4, <1>5 DEF WholeWith

LEMMA WholeYield == ASSUME FramerInv, Whole, Yield PROVE Whole'
<1> SUFFICES ASSUME NEW t \in Seq(Byte) PROVE WholeWith(t)'
  BY DEF Whole
<1> PICK s, c, x, f, l : /\ s = received \o t /\ c = consumed /\ x = FrameAt(buf, 0)
                         /\ f = frames /\ l = FrameLen(buf, 0)
  OBVIOUS
<1>1. /\ received' = received /\ frames' = Append(f, x) /\ HasHeader(buf) /\ Magic(buf, 0)
      /\ Fits(buf, 0) /\ buf' = SubSeq(buf, l + 1, Len(buf))
      /\ consumed' = c + (Len(buf) - Len(buf'))
  BY DEF Yield, Complete, AfterFrame
<1>2. /\ s \in Seq(Byte) /\ buf \in Seq(Byte) /\ Inside(buf, s, c) /\ c \in Nat
      /\ c \in 0 .. Len(s) /\ Len(s) - c >= Len(buf) /\ Len(buf) \in Nat /\ Len(s) \in Nat
  BY BufferInside
<1>3. Len(buf) >= V2GTP_HEADER_LEN /\ 0 \in Nat /\ 0 + V2GTP_HEADER_LEN <= Len(buf)
  BY <1>1, <1>2 DEF HasHeader, V2GTP_HEADER_LEN
<1>4. /\ Magic(s, c) /\ Fits(s, c) /\ FrameAt(s, c) = x /\ FrameLen(s, c) = l
  BY <1>1, <1>2, <1>3, InsideHeader, InsideFrame
<1>5. l \in Nat /\ l <= Len(buf) /\ x \in Frame
  <2>1. l \in Nat /\ 0 + l <= Len(buf)
    BY <1>1, <1>2, <1>3, HeaderTypes, FitsMeaning
  <2>2. x \in Frame
    BY <1>1, <1>2, <1>3, FrameAtIsWire
  <2> QED
    BY <2>1, <2>2
<1>6. consumed' = c + l
  <2>1. \A i \in l + 1 .. Len(buf) : buf[i] \in Byte
    BY <1>2, <1>5
  <2>2. Len(buf') = IF l + 1 <= Len(buf) THEN Len(buf) - (l + 1) + 1 ELSE 0
    BY <1>1, <1>2, <1>5, <2>1, SubSeqProperties
  <2>3. Len(buf') = Len(buf) - l
    BY <1>2, <1>5, <2>2
  <2> QED
    BY <1>1, <1>2, <1>5, <2>3, SMTT(30)
<1>7. ~(Len(s) - c < V2GTP_HEADER_LEN)
  BY <1>2, <1>3 DEF V2GTP_HEADER_LEN
<1>8. From(s)[c] = <<x>> \o From(s)[c + l]
  BY <1>2, <1>4, <1>7, FromReads DEF Reading
<1>9. From(s)[c + l] \in Seq(Frame)
  <2>1. c + l \in 0 .. Len(s)
    BY <1>2, <1>5
  <2> QED
    BY <1>2, <2>1, FromReads
<1>10. f \in Seq(Frame)
  BY DEF FramerInv, TypeOK
<1>11. f \o (<<x>> \o From(s)[c + l]) = Append(f, x) \o From(s)[c + l]
  <2>1. \A g, y \in Seq(Frame) : g \o (<<x>> \o y) = Append(g, x) \o y
    BY <1>5, AppendThen
  <2> QED
    BY <1>9, <1>10, <2>1
<1>12. Batch(s) = f \o From(s)[c]
  BY DEF Whole, WholeWith
<1> QED
  BY <1>1, <1>6, <1>8, <1>11, <1>12 DEF WholeWith

(* However much is still to come, what is yielded is a beginning of what   *)
(* the whole input holds, and the rest of it is still to be read.          *)
THEOREM WholeInvariant == Spec => []Whole
<1>1. IInv /\ IInv' /\ Whole /\ [Next]_framerVars => Whole'
  <2> SUFFICES ASSUME IInv, IInv', Whole, [Next]_framerVars PROVE Whole'
    OBVIOUS
  <2>1. ASSUME NEW data \in Segments, Receive(data) PROVE Whole'
    BY <2>1, SegmentsAssumption, WholeFeed DEF Receive, IInv
  <2>2. CASE Resync
    BY <2>2, WholeResync DEF IInv
  <2>3. CASE Yield
    BY <2>3, WholeYield DEF IInv
  <2>4. CASE Suspend \/ UNCHANGED framerVars
    <3>1. received' = received /\ frames' = frames /\ consumed' = consumed
      BY <2>4 DEF Suspend, framerVars
    <3> QED
      BY <3>1 DEF Whole, WholeWith
  <2> QED
    BY <2>1, <2>2, <2>3, <2>4 DEF Next, Loop
<1> QED
  BY <1>1, WholeInit, FramerBytesInv, PTL DEF Spec

(* How the input was cut into packets does not matter: when feed() has     *)
(* returned, the frames yielded are those of the whole input read at once. *)
THEOREM SegmentationNeverMatters == Spec => []SegmentationIrrelevant
<1>1. IInv /\ Whole => SegmentationIrrelevant
  <2> SUFFICES ASSUME IInv, Whole, pc = "idle" PROVE frames = Batch(received)
    BY DEF SegmentationIrrelevant
  <2>1. received \in Seq(Byte) /\ frames \in Seq(Frame) /\ <<>> \in Seq(Byte)
    BY DEF IInv, FramerInv, TypeOK
  <2>2. received \o <<>> = received
    BY <2>1, ConcatEmptySeq
  <2>3. Batch(received) = frames \o From(received)[consumed]
    BY <2>1, <2>2 DEF Whole, WholeWith
  <2>4. /\ Len(received) = consumed + Len(buf) /\ consumed \in Nat /\ Len(buf) \in Nat
        /\ buf \in Seq(Byte) /\ Inside(buf, received, consumed) /\ consumed \in 0 .. Len(received)
    BY <2>1, <2>2, BufferInside DEF IInv, FramerInv, Window
  <2>5. From(received)[consumed] = <<>>
    <3>1. From(received)[consumed] = Reading(received, From(received), consumed)
      BY <2>1, <2>4, FromReads
    <3>2. CASE Len(buf) < V2GTP_HEADER_LEN
      <4>1. Len(received) - consumed < V2GTP_HEADER_LEN
        BY <2>4, <3>2 DEF V2GTP_HEADER_LEN
      <4> QED
        BY <3>1, <4>1 DEF Reading
    <3>3. CASE ~(Len(buf) < V2GTP_HEADER_LEN)
      <4>1. Magic(buf, 0) /\ ~Fits(buf, 0) /\ Len(buf) >= V2GTP_HEADER_LEN
        BY <2>4, <3>3 DEF IInv, NothingWithheld, V2GTP_HEADER_LEN
      <4>2. Magic(received, consumed) /\ FrameLen(received, consumed) = FrameLen(buf, 0)
        BY <2>1, <2>4, <4>1, InsideHeader
      <4>3. ~Fits(received, consumed)
        <5>1. 0 \in Nat /\ 0 + V2GTP_HEADER_LEN <= Len(buf)
              /\ consumed + V2GTP_HEADER_LEN <= Len(received)
          BY <2>4, <4>1 DEF V2GTP_HEADER_LEN
        <5>2. ~(0 + FrameLen(buf, 0) <= Len(buf)) /\ FrameLen(buf, 0) \in Nat
          BY <2>4, <4>1, <5>1, FitsMeaning, HeaderTypes
        <5>3. ~(consumed + FrameLen(received, consumed) <= Len(received))
          BY <2>4, <4>2, <5>2
        <5> QED
          BY <2>1, <2>4, <5>1, <5>3, FitsMeaning
      <4> QED
        BY <3>1, <4>2, <4>3 DEF Reading
    <3> QED
      BY <3>2, <3>3
  <2> QED
    BY <2>1, <2>3, <2>5, ConcatEmptySeq
<1> QED
  BY <1>1, FramerBytesInv, WholeInvariant, PTL

=============================================================================
