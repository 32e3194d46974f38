--------------------------- MODULE V2gtpFlowProofs ---------------------------
(***************************************************************************)
(* One TCP direction delivers what was sent, for any messages, any number  *)
(* of them and any way of cutting the stream into packets.                 *)
(***************************************************************************)
EXTENDS V2gtpFlow, FramerProofs, Induction

(* A number of 16 bits and its two bytes.                                  *)
LEMMA TwoBytes ==
  ASSUME NEW x \in Nat, x < Half
  PROVE  /\ x \div 256 \in Byte /\ x % 256 \in Byte
         /\ 256 * (x \div 256) + (x % 256) = x
<1>1. x < 65536
  BY SMT DEF Half
<1>2. x \div 256 \in Int /\ 0 <= x \div 256 /\ x \div 256 <= 255
  BY <1>1, SMT
<1>3. x % 256 \in Int /\ 0 <= x % 256 /\ x % 256 <= 255
  BY SMT
<1>4. x = (256 * (x \div 256)) + (x % 256)
  BY SMT
<1> QED
  BY <1>2, <1>3, <1>4 DEF Byte

LEMMA EightBytes ==
  ASSUME NEW S, NEW a \in S, NEW b \in S, NEW c \in S, NEW d \in S,
         NEW e \in S, NEW f \in S, NEW g \in S, NEW h \in S
  PROVE  LET t == <<a, b, c, d, e, f, g, h>> IN
         /\ t \in Seq(S) /\ Len(t) = 8
         /\ t[1] = a /\ t[2] = b /\ t[3] = c /\ t[4] = d
         /\ t[5] = e /\ t[6] = f /\ t[7] = g /\ t[8] = h
OBVIOUS

(* A header of eight bytes: two version bytes, a type and a length.        *)
Header(v, w, t, l) == <<v, w, t \div 256, t % 256, 0, 0, l \div 256, l % 256>>

(* What such a header says.                                                *)
Says(h, v, w, t, l) ==
  /\ h \in Seq(Byte) /\ Len(h) = 8 /\ h[1] = v /\ h[2] = w
  /\ 256 * h[3] + h[4] = t /\ h[5] = 0 /\ h[6] = 0 /\ 256 * h[7] + h[8] = l

LEMMA HeaderOf ==
  ASSUME NEW t \in Nat, t < Half, NEW l \in Nat, l < Half, NEW v \in Byte, NEW w \in Byte
  PROVE  Says(Header(v, w, t, l), v, w, t, l)
<1> DEFINE th == t \div 256
           tl == t % 256
           lh == l \div 256
           ll == l % 256
<1>1. th \in Byte /\ tl \in Byte /\ 256 * th + tl = t
  BY TwoBytes
<1>2. lh \in Byte /\ ll \in Byte /\ 256 * lh + ll = l
  BY TwoBytes
<1>3. PICK h : h = Header(v, w, t, l)
  OBVIOUS
<1>4. h = <<v, w, th, tl, 0, 0, lh, ll>> /\ 0 \in Byte
  BY <1>3 DEF Byte, Header
<1> HIDE DEF th, tl, lh, ll
<1>5. /\ h \in Seq(Byte) /\ Len(h) = 8
      /\ h[1] = v /\ h[2] = w /\ h[3] = th /\ h[4] = tl
      /\ h[5] = 0 /\ h[6] = 0 /\ h[7] = lh /\ h[8] = ll
  BY <1>1, <1>2, <1>4, EightBytes
<1>6. Says(h, v, w, t, l)
  BY <1>1, <1>2, <1>5 DEF Says
<1> QED
  BY <1>3, <1>6, Zenon

(* The header before the body of a message.                                *)
EncodedHeader(m) == Header(V2GTP_VERSION, V2GTP_INVERSE_VERSION, m.ptype, Len(m.body))

LEMMA HeaderBytes ==
  ASSUME NEW m \in Messages
  PROVE  Says(EncodedHeader(m), V2GTP_VERSION, V2GTP_INVERSE_VERSION, m.ptype, Len(m.body))
<1>1. m.ptype \in Nat /\ Len(m.body) \in Nat /\ m.ptype < Half /\ Len(m.body) < Half
  <2>1. m \in Frame /\ m.ptype < Half /\ Len(m.body) < Half
    BY MessagesAssumption
  <2>2. m.ptype \in Nat /\ m.body \in Seq(Byte)
    BY <2>1 DEF Frame
  <2> QED
    BY <2>1, <2>2
<1>2. V2GTP_VERSION \in Byte /\ V2GTP_INVERSE_VERSION \in Byte
  BY DEF Byte, V2GTP_VERSION, V2GTP_INVERSE_VERSION
<1>3. \A t, l \in Nat : \A v, w \in Byte : t < Half /\ l < Half => Says(Header(v, w, t, l), v, w, t, l)
  BY HeaderOf
<1> QED
  BY <1>1, <1>2, <1>3, Zenon DEF EncodedHeader

LEMMA HeaderAndBody ==
  ASSUME NEW h \in Seq(Byte), Len(h) = 8, NEW b \in Seq(Byte)
  PROVE  /\ h \o b \in Seq(Byte) /\ Len(h \o b) = 8 + Len(b)
         /\ \A i \in 1 .. 8 : (h \o b)[i] = h[i]
         /\ \A j \in 1 .. Len(b) : (h \o b)[8 + j] = b[j]
<1>1. PICK n : n = Len(b)
  OBVIOUS
<1>2. PICK s : s = h \o b
  OBVIOUS
<1>3. n \in Nat
  BY <1>1
<1>4. \A g, c \in Seq(Byte) :
        /\ g \o c \in Seq(Byte)
        /\ Len(g \o c) = Len(g) + Len(c)
        /\ \A i \in 1 .. Len(g) + Len(c) : (g \o c)[i] = IF i <= Len(g) THEN g[i] ELSE c[i - Len(g)]
  BY ConcatProperties
<1>5. /\ s \in Seq(Byte) /\ Len(s) = 8 + n
      /\ \A i \in 1 .. 8 + n : s[i] = IF i <= 8 THEN h[i] ELSE b[i - 8]
  <2>1. /\ h \o b \in Seq(Byte)
        /\ Len(h \o b) = Len(h) + Len(b)
        /\ \A i \in 1 .. Len(h) + Len(b) : (h \o b)[i] = IF i <= Len(h) THEN h[i] ELSE b[i - Len(h)]
    BY <1>4, Zenon
  <2> QED
    BY <1>1, <1>2, <2>1
<1>6. \A i \in 1 .. 8 : s[i] = h[i]
  BY <1>3, <1>5
<1>7. ASSUME NEW j \in 1 .. n PROVE s[8 + j] = b[j]
  <2>1. 8 + j \in 1 .. 8 + n /\ ~(8 + j <= 8) /\ (8 + j) - 8 = j
    BY <1>3
  <2> QED
    BY <1>5, <2>1
<1> QED
  BY <1>1, <1>2, <1>5, <1>6, <1>7

LEMMA EncodeType ==
  ASSUME NEW m \in Messages
  PROVE  /\ Encode(m) \in Seq(Byte)
         /\ Len(Encode(m)) = V2GTP_HEADER_LEN + Len(m.body)
         /\ m \in Frame /\ Len(m.body) \in Nat
<1> PICK h, b : h = EncodedHeader(m) /\ b = m.body
  OBVIOUS
<1>1. m \in Frame /\ b \in Seq(Byte)
  BY MessagesAssumption DEF Frame
<1>2. h \in Seq(Byte) /\ Len(h) = 8
  BY HeaderBytes DEF Says
<1>3. Encode(m) = h \o b
  BY DEF Encode, EncodedHeader, Header
<1>4. Encode(m) \in Seq(Byte) /\ Len(Encode(m)) = 8 + Len(b) /\ Len(b) \in Nat
  <2>1. h \o b \in Seq(Byte) /\ Len(h \o b) = 8 + Len(b)
    BY <1>1, <1>2, HeaderAndBody, Zenon
  <2>2. Len(b) \in Nat
    BY <1>1
  <2> QED
    BY <1>3, <2>1, <2>2, Zenon
<1> QED
  BY <1>1, <1>4 DEF V2GTP_HEADER_LEN

LEMMA EncodeHeader ==
  ASSUME NEW m \in Messages
  PROVE  /\ Magic(Encode(m), 0)
         /\ PayloadType(Encode(m), 0) = m.ptype
         /\ PayloadLen(Encode(m), 0) = Len(m.body)
         /\ \A j \in 1 .. Len(m.body) : Encode(m)[V2GTP_HEADER_LEN + j] = m.body[j]
<1> PICK h, b, e, l : h = EncodedHeader(m) /\ b = m.body /\ e = Encode(m) /\ l = Len(m.body)
  OBVIOUS
<1>1. b \in Seq(Byte) /\ l = Len(b) /\ l \in Nat
  BY MessagesAssumption DEF Frame
<1>2. /\ h \in Seq(Byte) /\ Len(h) = 8 /\ h[1] = V2GTP_VERSION /\ h[2] = V2GTP_INVERSE_VERSION
      /\ 256 * h[3] + h[4] = m.ptype /\ h[5] = 0 /\ h[6] = 0 /\ 256 * h[7] + h[8] = l
  BY HeaderBytes DEF Says
<1>3. e = h \o b
  BY DEF Encode, EncodedHeader, Header
<1>4. (\A i \in 1 .. 8 : e[i] = h[i]) /\ \A j \in 1 .. l : e[8 + j] = b[j]
  <2>1. \A g, c \in Seq(Byte) : Len(g) = 8 =>
          /\ \A i \in 1 .. 8 : (g \o c)[i] = g[i]
          /\ \A j \in 1 .. Len(c) : (g \o c)[8 + j] = c[j]
    BY HeaderAndBody
  <2>2. /\ \A i \in 1 .. 8 : (h \o b)[i] = h[i]
        /\ \A j \in 1 .. Len(b) : (h \o b)[8 + j] = b[j]
    BY <1>1, <1>2, <2>1, Zenon
  <2> QED
    BY <1>1, <1>3, <2>2, Zenon
<1>5. /\ e[1] = h[1] /\ e[2] = h[2] /\ e[3] = h[3] /\ e[4] = h[4]
      /\ e[5] = h[5] /\ e[6] = h[6] /\ e[7] = h[7] /\ e[8] = h[8]
  BY <1>4
<1>6. 0 + 1 = 1 /\ 0 + 2 = 2 /\ 0 + 3 = 3 /\ 0 + 4 = 4 /\ 0 + 5 = 5 /\ 0 + 6 = 6
      /\ 0 + 7 = 7 /\ 0 + 8 = 8
  OBVIOUS
<1>7. Magic(e, 0)
  BY <1>2, <1>5, <1>6, Zenon DEF Magic
<1>8. PayloadType(e, 0) = m.ptype
  <2>1. PayloadType(e, 0) = 256 * e[3] + e[4]
    BY <1>6, Zenon DEF PayloadType
  <2> QED
    <3>1. e[3] = h[3] /\ e[4] = h[4]
      BY <1>5, Zenon
    <3>2. 256 * h[3] + h[4] = m.ptype
      BY <1>2, Zenon
    <3> QED
      BY <2>1, <3>1, <3>2, Zenon
<1>9. PayloadLen(e, 0) = l
  <2>1. High(e, 0) = 256 * e[5] + e[6]
    BY <1>6, Zenon DEF High
  <2>2. High(e, 0) = 256 * 0 + 0
    <3>1. e[5] = 0 /\ e[6] = 0
      BY <1>2, <1>5, Zenon
    <3> QED
      BY <2>1, <3>1, Zenon
  <2>3. Low(e, 0) = 256 * e[7] + e[8]
    BY <1>6, Zenon DEF Low
  <2>4. Low(e, 0) = l
    <3>1. e[7] = h[7] /\ e[8] = h[8]
      BY <1>5, Zenon
    <3>2. 256 * h[7] + h[8] = l
      BY <1>2, Zenon
    <3> QED
      BY <2>3, <3>1, <3>2, Zenon
  <2> QED
    BY <1>1, <2>2, <2>4, SMT DEF PayloadLen, Half
<1> QED
  BY <1>4, <1>7, <1>8, <1>9 DEF V2GTP_HEADER_LEN

(* Where a message stands in a byte string, a frame with its type and its  *)
(* body is read.                                                           *)
LEMMA MessageIsFrame ==
  ASSUME NEW m \in Messages, NEW s \in Seq(Byte), NEW p \in Nat, Inside(Encode(m), s, p)
  PROVE  /\ Magic(s, p) /\ Fits(s, p)
         /\ FrameLen(s, p) = V2GTP_HEADER_LEN + Len(m.body)
         /\ FrameAt(s, p) = m
<1> PICK e : e = Encode(m)
  OBVIOUS
<1>1. e \in Seq(Byte) /\ Len(e) = V2GTP_HEADER_LEN + Len(m.body) /\ Len(m.body) \in Nat
      /\ m \in Frame /\ Len(e) >= V2GTP_HEADER_LEN /\ 0 \in Nat /\ 0 + V2GTP_HEADER_LEN <= Len(e)
  BY EncodeType DEF V2GTP_HEADER_LEN
<1>2. /\ Magic(e, 0) /\ PayloadType(e, 0) = m.ptype /\ PayloadLen(e, 0) = Len(m.body)
      /\ \A j \in 1 .. Len(m.body) : e[V2GTP_HEADER_LEN + j] = m.body[j]
  BY EncodeHeader
<1>3. FrameLen(e, 0) = V2GTP_HEADER_LEN + Len(m.body)
  BY <1>2 DEF FrameLen
<1>4. Fits(e, 0)
  <2>1. 0 + FrameLen(e, 0) <= Len(e)
    BY <1>1, <1>3 DEF V2GTP_HEADER_LEN
  <2> QED
    BY <1>1, <2>1, FitsMeaning
<1>5. Inside(e, s, p)
  OBVIOUS
<1>6. /\ Magic(s, p) /\ FrameLen(s, p) = FrameLen(e, 0)
      /\ Fits(s, p) /\ FrameAt(s, p) = FrameAt(e, 0)
  BY <1>1, <1>2, <1>4, <1>5, InsideHeader, InsideFrame
<1> PICK x, l : x = FrameAt(e, 0) /\ l = Len(m.body)
  OBVIOUS
<1>7. /\ x \in Frame /\ x.ptype = m.ptype /\ Len(x.body) = l
      /\ \A j \in 1 .. l : x.body[j] = e[0 + V2GTP_HEADER_LEN + j]
  BY <1>1, <1>2, <1>4, FrameAtIsWire
<1>8. x.body = m.body
  <2>1. x.body \in Seq(Byte) /\ m.body \in Seq(Byte)
    BY <1>1, <1>7 DEF Frame
  <2>2. \A j \in 1 .. l : 0 + V2GTP_HEADER_LEN + j = V2GTP_HEADER_LEN + j
    BY DEF V2GTP_HEADER_LEN
  <2>3. \A j \in 1 .. l : x.body[j] = m.body[j]
    BY <1>2, <1>7, <2>2
  <2> QED
    BY <1>7, <2>1, <2>3, SeqEqual
<1>9. x = m
  BY <1>1, <1>7, <1>8 DEF Frame
<1> QED
  BY <1>3, <1>6, <1>9

-----------------------------------------------------------------------------
(* Pieces of byte strings.                                                 *)

\* Bytes p + 1 to p + n of a string.
LEMMA PieceOf ==
  ASSUME NEW S, NEW s \in Seq(S), NEW p \in Nat, NEW n \in Nat, p + n <= Len(s)
  PROVE  /\ SubSeq(s, p + 1, p + n) \in Seq(S)
         /\ Len(SubSeq(s, p + 1, p + n)) = n
         /\ \A i \in 1 .. n : SubSeq(s, p + 1, p + n)[i] = s[p + i]
<1> PICK a, b \in Int : a = p + 1 /\ b = p + n
  OBVIOUS
<1>1. \A i \in a .. b : s[i] \in S
  BY ElementOfSeq
<1>2. /\ SubSeq(s, a, b) \in Seq(S)
      /\ Len(SubSeq(s, a, b)) = IF a <= b THEN b - a + 1 ELSE 0
      /\ \A i \in 1 .. b - a + 1 : SubSeq(s, a, b)[i] = s[a + i - 1]
  BY <1>1, SubSeqProperties
<1>3. Len(SubSeq(s, a, b)) = n /\ b - a + 1 = n
  BY <1>2
<1>4. \A i \in 1 .. n : a + i - 1 = p + i
  OBVIOUS
<1> QED
  BY <1>2, <1>3, <1>4

\* What stands after something has been put at the end of a string.
LEMMA Extended ==
  ASSUME NEW S, NEW s \in Seq(S), NEW t \in Seq(S)
  PROVE  /\ s \o t \in Seq(S) /\ Len(s \o t) = Len(s) + Len(t)
         /\ \A i \in 1 .. Len(s) : (s \o t)[i] = s[i]
         /\ \A i \in 1 .. Len(t) : (s \o t)[Len(s) + i] = t[i]
<1>1. PICK z, n, k : z = s \o t /\ n = Len(s) /\ k = Len(t)
  OBVIOUS
<1>2. /\ s \o t \in Seq(S) /\ Len(s \o t) = Len(s) + Len(t)
      /\ \A i \in 1 .. Len(s) + Len(t) : (s \o t)[i] = IF i <= Len(s) THEN s[i] ELSE t[i - Len(s)]
  BY ConcatProperties
<1>3. n \in Nat /\ k \in Nat
  BY <1>1
<1>4. /\ z \in Seq(S) /\ Len(z) = n + k
      /\ \A i \in 1 .. n + k : z[i] = IF i <= n THEN s[i] ELSE t[i - n]
  BY <1>1, <1>2
<1>5. \A i \in 1 .. n : z[i] = s[i]
  BY <1>3, <1>4
<1>6. ASSUME NEW i \in 1 .. k PROVE z[n + i] = t[i]
  <2>1. n + i \in 1 .. n + k /\ ~(n + i <= n) /\ (n + i) - n = i
    BY <1>3
  <2> QED
    BY <1>4, <2>1
<1> QED
  BY <1>1, <1>4, <1>5, <1>6

LEMMA InsideInside ==
  ASSUME NEW S, NEW a \in Seq(S), NEW b \in Seq(S), NEW s \in Seq(S), NEW p \in Nat, NEW q \in Nat,
         Inside(a, b, p), Inside(b, s, q)
  PROVE  Inside(a, s, q + p)
<1> PICK la, lb, ls : la = Len(a) /\ lb = Len(b) /\ ls = Len(s)
  OBVIOUS
<1>1. la \in Nat /\ lb \in Nat /\ ls \in Nat
  OBVIOUS
<1>2. p + la <= lb /\ q + lb <= ls
  BY DEF Inside
<1>3. (\A i \in 1 .. la : a[i] = b[p + i]) /\ (\A i \in 1 .. lb : b[i] = s[q + i])
  BY DEF Inside
<1>4. \A i \in 1 .. la : p + i \in 1 .. lb /\ q + (p + i) = (q + p) + i
  BY <1>1, <1>2
<1>5. \A i \in 1 .. la : a[i] = s[(q + p) + i]
  BY <1>3, <1>4
<1>6. (q + p) + la <= ls
  BY <1>1, <1>2
<1> QED
  BY <1>5, <1>6 DEF Inside

\* What stands in a string still stands there when more is put at its end.
LEMMA InsideExtended ==
  ASSUME NEW S, NEW a \in Seq(S), NEW s \in Seq(S), NEW t \in Seq(S), NEW p \in Nat, Inside(a, s, p)
  PROVE  Inside(a, s \o t, p)
<1>1. s \o t \in Seq(S) /\ Len(s \o t) = Len(s) + Len(t) /\ Len(t) \in Nat /\ Len(s) \in Nat
  BY Extended
<1>2. \A i \in 1 .. Len(s) : (s \o t)[i] = s[i]
  BY Extended
<1>3. p + Len(a) <= Len(s) /\ Len(a) \in Nat /\ \A i \in 1 .. Len(a) : a[i] = s[p + i]
  BY DEF Inside
<1>4. \A i \in 1 .. Len(a) : p + i \in 1 .. Len(s)
  BY <1>1, <1>3
<1>5. \A i \in 1 .. Len(a) : a[i] = (s \o t)[p + i]
  BY <1>2, <1>3, <1>4
<1>6. p + Len(a) <= Len(s \o t)
  BY <1>1, <1>3
<1> QED
  BY <1>5, <1>6 DEF Inside

LEMMA InsideAtEnd ==
  ASSUME NEW S, NEW s \in Seq(S), NEW t \in Seq(S)
  PROVE  Inside(t, s \o t, Len(s))
<1>1. Len(s \o t) = Len(s) + Len(t) /\ Len(t) \in Nat /\ Len(s) \in Nat
  BY Extended
<1>2. \A i \in 1 .. Len(t) : (s \o t)[Len(s) + i] = t[i]
  BY Extended
<1> QED
  BY <1>1, <1>2 DEF Inside

-----------------------------------------------------------------------------
(* Every step keeps the types of the flow and the invariant of the framer. *)
FlowIInv == FlowTypeOK /\ FramerInv

LEMMA FlowIInvInit == Init => FlowIInv
<1> SUFFICES ASSUME Init PROVE FlowIInv
  OBVIOUS
<1>1. FramerInv
  BY InitInv DEF Init
<1>2. join \in Nat
  BY JoinsAssumption DEF Init
<1>3. TypeOK /\ received = <<>>
  BY <1>1 DEF FramerInv, Init, FramerInit
<1>4. FlowTypeOK
  BY <1>2, <1>3 DEF Init, FlowTypeOK
<1> QED
  BY <1>1, <1>4 DEF FlowIInv

LEMMA FlowIInvNext == FlowIInv /\ [Next]_vars => FlowIInv'
<1> SUFFICES ASSUME FlowIInv, [Next]_vars PROVE FlowIInv'
  OBVIOUS
<1>0. /\ FramerInv /\ TypeOK /\ sent \in Seq(Messages) /\ begins \in Seq(Nat) /\ Len(begins) = Len(sent)
      /\ wire \in Seq(Byte) /\ join \in Joins /\ pos \in Nat /\ pos >= join /\ losses \in Nat
      /\ where \in Seq(Nat) /\ Len(where) = Len(received) /\ join \in Nat /\ received \in Seq(Byte)
  BY JoinsAssumption DEF FlowIInv, FlowTypeOK, TypeOK
<1>1. ASSUME NEW m \in Messages, Send(m) PROVE FlowIInv'
  <2>1. Encode(m) \in Seq(Byte)
    BY EncodeType
  <2>2. FramerInv'
    BY <1>0, <1>1, StutterKeepsInv DEF Send
  <2>3. Len(wire) \in Nat /\ Len(Append(sent, m)) = Len(sent) + 1 /\ Len(Append(begins, Len(wire))) = Len(begins) + 1
    BY <1>0
  <2>4. FlowTypeOK'
    BY <1>0, <1>1, <2>1, <2>2, <2>3 DEF Send, FlowTypeOK, FramerInv, framerVars
  <2> QED
    BY <2>2, <2>4 DEF FlowIInv
<1>2. ASSUME NEW n \in 1 .. Len(wire) - pos, Capture(n) PROVE FlowIInv'
  <2>1. PICK data : data = SubSeq(wire, pos + 1, pos + n)
    OBVIOUS
  <2>2. data \in Seq(Byte) /\ Len(data) = n /\ n \in Nat
    BY <1>0, <2>1, PieceOf
  <2>3. Feed(data) /\ where' = where \o [i \in 1 .. n |-> pos + i - 1] /\ pos' = pos + n
    BY <1>2, <2>1 DEF Capture, Packet
  <2>4. FramerInv'
    BY <1>0, <2>2, <2>3, FeedKeepsInv
  <2>5. received' = received \o data /\ Len(received') = Len(received) + n
    <3>1. \A u, v \in Seq(Byte) : Len(u \o v) = Len(u) + Len(v)
      BY Extended
    <3>2. received' = received \o data
      BY <2>3 DEF Feed
    <3>3. Len(received \o data) = Len(received) + Len(data)
      BY <1>0, <2>2, <3>1, Zenon
    <3> QED
      BY <2>2, <3>2, <3>3
  <2>6. PICK new : new = [i \in 1 .. n |-> pos + i - 1]
    OBVIOUS
  <2>7. new \in Seq(Nat) /\ Len(new) = n
    BY <1>0, <2>2, <2>6
  <2>8. where' \in Seq(Nat) /\ Len(where') = Len(where) + n
    <3>1. \A u, v \in Seq(Nat) : u \o v \in Seq(Nat) /\ Len(u \o v) = Len(u) + Len(v)
      BY Extended
    <3>2. where \o new \in Seq(Nat) /\ Len(where \o new) = Len(where) + Len(new)
      BY <1>0, <2>7, <3>1, Zenon
    <3> QED
      BY <2>3, <2>6, <2>7, <3>2
  <2>9. FlowTypeOK'
    BY <1>0, <1>2, <2>2, <2>3, <2>4, <2>5, <2>8 DEF Capture, FlowTypeOK, FramerInv
  <2> QED
    BY <2>4, <2>9 DEF FlowIInv
<1>3. ASSUME NEW n \in 1 .. Len(wire) - pos, Lose(n) PROVE FlowIInv'
  <2>1. FramerInv'
    BY <1>0, <1>3, StutterKeepsInv DEF Lose
  <2>2. n \in Nat
    BY <1>0
  <2>3. FlowTypeOK'
    BY <1>0, <1>3, <2>1, <2>2 DEF Lose, FlowTypeOK, FramerInv, framerVars
  <2> QED
    BY <2>1, <2>3 DEF FlowIInv
<1>4. ASSUME FramerStep PROVE FlowIInv'
  <2>1. FramerInv'
    BY <1>0, <1>4, LoopKeepsInv DEF FramerStep
  <2>2. received' = received
    BY <1>4 DEF FramerStep, Loop, Resync, Yield, Suspend
  <2>3. FlowTypeOK'
    BY <1>0, <1>4, <2>1, <2>2 DEF FramerStep, flowVars, FlowTypeOK, FramerInv
  <2> QED
    BY <2>1, <2>3 DEF FlowIInv
<1>5. ASSUME UNCHANGED vars PROVE FlowIInv'
  <2>1. FramerInv'
    BY <1>0, <1>5, StutterKeepsInv DEF vars
  <2>2. FlowTypeOK'
    BY <1>0, <1>5, <2>1 DEF vars, framerVars, flowVars, FlowTypeOK, FramerInv
  <2> QED
    BY <2>1, <2>2 DEF FlowIInv
<1> QED
  BY <1>1, <1>2, <1>3, <1>4, <1>5 DEF Next, Sending, Capturing, Losing

LEMMA FlowInvariant == Spec => []FlowIInv
BY FlowIInvInit, FlowIInvNext, PTL DEF Spec

(* Every variable of the flow and of its framer keeps its type, whatever   *)
(* is sent, lost or cut into packets, and the framer knows the place in    *)
(* the stream of every byte it was fed.                                    *)
THEOREM FlowTypes == Spec => []FlowTypeOK
<1>1. FlowIInv => FlowTypeOK
  BY DEF FlowIInv
<1> QED
  BY <1>1, FlowInvariant, PTL

-----------------------------------------------------------------------------
(* How messages s that begin at b lie on a wire w: one after the other, at *)
(* their places, with nothing between them.                                *)
End(s, b, k) == b[k] + V2GTP_HEADER_LEN + Len(s[k].body)

Placed(s, b, w) == \A k \in 1 .. Len(s) : Inside(Encode(s[k]), w, b[k])
Ordered(s, b)   == \A j, k \in 1 .. Len(s) : j < k => End(s, b, j) <= b[k]
NoGap(s, b, w)  == \A q \in Nat : q < Len(w) => \E k \in 1 .. Len(s) : b[k] <= q /\ q < End(s, b, k)

Layout(s, b, w) ==
  /\ s \in Seq(Messages) /\ b \in Seq(Nat) /\ w \in Seq(Byte) /\ Len(b) = Len(s)
  /\ Placed(s, b, w) /\ Ordered(s, b) /\ NoGap(s, b, w)

LEMMA LayoutTypes ==
  ASSUME NEW s, NEW b, NEW w, Layout(s, b, w), NEW k \in 1 .. Len(s)
  PROVE  /\ s[k] \in Messages /\ b[k] \in Nat /\ Len(s[k].body) \in Nat
         /\ End(s, b, k) \in Nat /\ b[k] + V2GTP_HEADER_LEN <= End(s, b, k)
         /\ End(s, b, k) <= Len(w) /\ Len(w) \in Nat /\ Len(s) \in Nat
         /\ Len(Encode(s[k])) = V2GTP_HEADER_LEN + Len(s[k].body)
<1>1. s \in Seq(Messages) /\ b \in Seq(Nat) /\ w \in Seq(Byte) /\ Len(b) = Len(s)
  BY DEF Layout
<1>2. s[k] \in Messages /\ b[k] \in Nat /\ Len(w) \in Nat /\ Len(s) \in Nat
  BY <1>1, ElementOfSeq
<1>3. Len(s[k].body) \in Nat /\ Len(Encode(s[k])) = V2GTP_HEADER_LEN + Len(s[k].body)
  BY <1>2, EncodeType
<1>4. b[k] + Len(Encode(s[k])) <= Len(w)
  BY DEF Layout, Placed, Inside
<1>5. PICK l, e, x : l = Len(s[k].body) /\ e = Len(Encode(s[k])) /\ x = b[k]
  OBVIOUS
<1>6. End(s, b, k) = x + 8 + l
  BY <1>5 DEF End, V2GTP_HEADER_LEN
<1>7. End(s, b, k) \in Nat /\ x + 8 <= End(s, b, k) /\ End(s, b, k) <= Len(w)
  BY <1>2, <1>3, <1>4, <1>5, <1>6 DEF V2GTP_HEADER_LEN
<1> QED
  BY <1>2, <1>3, <1>5, <1>7 DEF V2GTP_HEADER_LEN

\* Appending one element: the others stay where they are.
LEMMA Appended ==
  ASSUME NEW S, NEW s \in Seq(S), NEW x \in S
  PROVE  /\ Append(s, x) \in Seq(S) /\ Len(Append(s, x)) = Len(s) + 1 /\ Len(s) \in Nat
         /\ \A i \in 1 .. Len(s) : Append(s, x)[i] = s[i]
         /\ Append(s, x)[Len(s) + 1] = x
         /\ \A i \in 1 .. Len(s) + 1 : i \in 1 .. Len(s) \/ i = Len(s) + 1
OBVIOUS

LEMMA LayoutSend ==
  ASSUME NEW s, NEW b, NEW w, Layout(s, b, w), NEW m \in Messages
  PROVE  /\ Layout(Append(s, m), Append(b, Len(w)), w \o Encode(m))
         /\ \A k \in 1 .. Len(s) : End(Append(s, m), Append(b, Len(w)), k) = End(s, b, k)
<1>1. s \in Seq(Messages) /\ b \in Seq(Nat) /\ w \in Seq(Byte) /\ Len(b) = Len(s) /\ Len(w) \in Nat
  BY DEF Layout
<1>2. PICK n, l, e, s2, b2, w2 :
        /\ n = Len(s) /\ l = Len(w) /\ e = Encode(m)
        /\ s2 = Append(s, m) /\ b2 = Append(b, l) /\ w2 = w \o e
  OBVIOUS
<1>3. /\ s2 \in Seq(Messages) /\ Len(s2) = n + 1 /\ n \in Nat
      /\ \A i \in 1 .. n : s2[i] = s[i]
      /\ s2[n + 1] = m
      /\ \A i \in 1 .. n + 1 : i \in 1 .. n \/ i = n + 1
  BY <1>1, <1>2, Appended
<1>4. /\ b2 \in Seq(Nat) /\ Len(b2) = n + 1
      /\ \A i \in 1 .. n : b2[i] = b[i]
      /\ b2[n + 1] = l
  BY <1>1, <1>2, Appended
<1>5. /\ e \in Seq(Byte) /\ Len(e) = V2GTP_HEADER_LEN + Len(m.body) /\ Len(m.body) \in Nat
  BY <1>2, EncodeType
<1>6. w2 \in Seq(Byte) /\ Len(w2) = l + Len(e) /\ l \in Nat
  <2>1. \A u, v \in Seq(Byte) : u \o v \in Seq(Byte) /\ Len(u \o v) = Len(u) + Len(v)
    BY Extended
  <2> QED
    BY <1>1, <1>2, <1>5, <2>1
<1>7. ASSUME NEW k \in 1 .. n
      PROVE  /\ End(s2, b2, k) = End(s, b, k) /\ End(s, b, k) <= l /\ End(s, b, k) \in Nat
             /\ b2[k] = b[k] /\ b[k] \in Nat /\ Inside(Encode(s2[k]), w2, b2[k])
  <2>1. End(s2, b2, k) = End(s, b, k)
    BY <1>3, <1>4 DEF End
  <2>2. /\ End(s, b, k) <= l /\ End(s, b, k) \in Nat /\ s[k] \in Messages /\ b[k] \in Nat
    BY <1>2, LayoutTypes
  <2>3. Inside(Encode(s[k]), w, b[k])
    BY <1>2 DEF Layout, Placed
  <2>4. \A a, u, v \in Seq(Byte) : \A p \in Nat : Inside(a, u, p) => Inside(a, u \o v, p)
    BY InsideExtended
  <2>5. Encode(s[k]) \in Seq(Byte)
    BY <2>2, EncodeType
  <2>6. Inside(Encode(s[k]), w \o e, b[k])
    BY <1>1, <1>5, <2>2, <2>3, <2>4, <2>5, Zenon
  <2>7. Inside(Encode(s2[k]), w2, b2[k])
    BY <1>2, <1>3, <1>4, <2>6
  <2> QED
    BY <1>4, <2>1, <2>2, <2>7
<1>8. End(s2, b2, n + 1) = l + Len(e) /\ l + Len(e) \in Nat
  <2>1. End(s2, b2, n + 1) = l + V2GTP_HEADER_LEN + Len(m.body)
    BY <1>3, <1>4 DEF End
  <2>2. PICK y, z : y = Len(m.body) /\ z = Len(e)
    OBVIOUS
  <2>3. z = V2GTP_HEADER_LEN + y /\ y \in Nat
    BY <1>5, <2>2, Zenon
  <2>4. l + z = l + 8 + y /\ l + z \in Nat
    BY <1>6, <2>3 DEF V2GTP_HEADER_LEN
  <2> QED
    BY <2>1, <2>2, <2>4 DEF V2GTP_HEADER_LEN
<1>9. Placed(s2, b2, w2)
  <2>1. Inside(e, w2, l)
    <3>1. \A u, v \in Seq(Byte) : Inside(v, u \o v, Len(u))
      BY InsideAtEnd
    <3> QED
      BY <1>1, <1>2, <1>5, <3>1
  <2>2. Inside(Encode(s2[n + 1]), w2, b2[n + 1])
    BY <1>2, <1>3, <1>4, <2>1
  <2> QED
    BY <1>3, <1>7, <2>2, Zenon DEF Placed
<1>10. Ordered(s2, b2)
  <2> SUFFICES ASSUME NEW j \in 1 .. n + 1, NEW k \in 1 .. n + 1, j < k PROVE End(s2, b2, j) <= b2[k]
    BY <1>3 DEF Ordered
  <2>1. j \in 1 .. n
    BY <1>3
  <2>2. CASE k \in 1 .. n
    <3>1. End(s, b, j) <= b[k]
      BY <1>2, <2>1, <2>2 DEF Layout, Ordered
    <3> QED
      BY <1>7, <2>1, <2>2, <3>1
  <2>3. CASE k = n + 1
    BY <1>4, <1>7, <2>1, <2>3
  <2> QED
    BY <1>3, <2>2, <2>3
<1>11. NoGap(s2, b2, w2)
  <2> SUFFICES ASSUME NEW q \in Nat, q < Len(w2)
               PROVE  \E k \in 1 .. n + 1 : b2[k] <= q /\ q < End(s2, b2, k)
    BY <1>3 DEF NoGap
  <2>1. CASE q < l
    <3>1. PICK k \in 1 .. n : b[k] <= q /\ q < End(s, b, k)
      BY <1>2, <2>1 DEF Layout, NoGap
    <3>2. k \in 1 .. n + 1
      BY <1>3
    <3> QED
      BY <1>7, <3>1, <3>2
  <2>2. CASE ~(q < l)
    <3>1. n + 1 \in 1 .. n + 1 /\ b2[n + 1] <= q /\ q < End(s2, b2, n + 1)
      BY <1>3, <1>4, <1>6, <1>8, <2>2
    <3> QED
      BY <3>1
  <2> QED
    BY <2>1, <2>2
<1>12. Len(b2) = Len(s2)
  BY <1>3, <1>4
<1>13. Layout(s2, b2, w2)
  BY <1>3, <1>4, <1>6, <1>9, <1>10, <1>11, <1>12 DEF Layout
<1> QED
  BY <1>2, <1>7, <1>13

-----------------------------------------------------------------------------
(* What the capture has in view begins at offset j of the stream: the      *)
(* first f messages begin before it.                                       *)
IsCut(b, j, n, f) == f \in 0 .. n /\ \A k \in 1 .. n : b[k] < j <=> k <= f

(* Frames fr are the messages from f + 1 on, and offset p of the stream,   *)
(* up to which it has been read, lies between the last of them and the     *)
(* next message.                                                           *)
TrackAt(s, b, fr, f, p) ==
  /\ Len(fr) <= Len(s) - f
  /\ \A i \in 1 .. Len(fr) : fr[i] = s[f + i]
  /\ \A k \in f + Len(fr) + 1 .. Len(s) : p <= b[k]
  /\ Len(fr) > 0 => End(s, b, f + Len(fr)) <= p

LEMMA TrackSend ==
  ASSUME NEW s, NEW b, NEW w, Layout(s, b, w), NEW m \in Messages,
         NEW fr \in Seq(Frame), NEW j \in Nat, NEW p \in Nat, NEW f,
         IsCut(b, j, Len(s), f), TrackAt(s, b, fr, f, p), p = j \/ p <= Len(w)
  PROVE  \E g : /\ IsCut(Append(b, Len(w)), j, Len(Append(s, m)), g)
                /\ TrackAt(Append(s, m), Append(b, Len(w)), fr, g, p)
<1>1. s \in Seq(Messages) /\ b \in Seq(Nat) /\ w \in Seq(Byte) /\ Len(b) = Len(s)
  BY DEF Layout
<1>2. PICK n, l, d, s2, b2 :
        n = Len(s) /\ l = Len(w) /\ d = Len(fr) /\ s2 = Append(s, m) /\ b2 = Append(b, l)
  OBVIOUS
<1>3. /\ Len(s2) = n + 1 /\ n \in Nat /\ l \in Nat /\ d \in Nat
      /\ \A i \in 1 .. n : s2[i] = s[i]
      /\ \A i \in 1 .. n + 1 : i \in 1 .. n \/ i = n + 1
  BY <1>1, <1>2, Appended
<1>4. (\A i \in 1 .. n : b2[i] = b[i]) /\ b2[n + 1] = l
  BY <1>1, <1>2, Appended
<1>5. /\ f \in 0 .. n /\ \A k \in 1 .. n : b[k] < j <=> k <= f
  BY <1>2 DEF IsCut
<1>6. /\ d <= n - f
      /\ \A i \in 1 .. d : fr[i] = s[f + i]
      /\ \A k \in f + d + 1 .. n : p <= b[k]
      /\ d > 0 => End(s, b, f + d) <= p
  BY <1>2 DEF TrackAt
<1>7. \A k \in 1 .. n : End(s2, b2, k) = End(s, b, k) /\ b[k] \in Nat /\ b[k] <= l
  <2> SUFFICES ASSUME NEW k \in 1 .. n
               PROVE  End(s2, b2, k) = End(s, b, k) /\ b[k] \in Nat /\ b[k] <= l
    OBVIOUS
  <2>1. End(s2, b2, k) = End(s, b, k)
    BY <1>3, <1>4 DEF End
  <2>2. /\ b[k] \in Nat /\ End(s, b, k) \in Nat /\ b[k] + V2GTP_HEADER_LEN <= End(s, b, k)
        /\ End(s, b, k) <= l
    BY <1>2, LayoutTypes
  <2> QED
    BY <1>3, <2>1, <2>2 DEF V2GTP_HEADER_LEN
<1>8. CASE l < j
  <2>1. f = n
    <3>1. SUFFICES ASSUME f # n PROVE FALSE
      OBVIOUS
    <3>2. f + 1 \in 1 .. n /\ ~(f + 1 <= f)
      BY <1>3, <1>5, <3>1
    <3>3. ~(b[f + 1] < j) /\ b[f + 1] \in Nat /\ b[f + 1] <= l
      BY <1>5, <1>7, <3>2
    <3> QED
      BY <1>3, <1>8, <3>3
  <2>2. d = 0
    BY <1>3, <1>6, <2>1
  <2>3. IsCut(b2, j, n + 1, n + 1)
    <3>1. \A k \in 1 .. n + 1 : b2[k] < j
      BY <1>3, <1>4, <1>5, <1>8, <2>1
    <3>2. n + 1 \in 0 .. n + 1 /\ \A k \in 1 .. n + 1 : k <= n + 1
      BY <1>3
    <3> QED
      BY <3>1, <3>2 DEF IsCut
  <2>4. TrackAt(s2, b2, fr, n + 1, p)
    <3>1. Len(fr) = 0 /\ Len(s2) = n + 1
      BY <1>2, <1>3, <2>2
    <3> QED
      BY <1>3, <3>1 DEF TrackAt
  <2> QED
    BY <1>2, <1>3, <2>3, <2>4
<1>9. CASE ~(l < j)
  <2>1. IsCut(b2, j, n + 1, f)
    <3>1. \A k \in 1 .. n : b2[k] < j <=> k <= f
      BY <1>4, <1>5
    <3>2. ~(b2[n + 1] < j) /\ ~(n + 1 <= f)
      BY <1>3, <1>4, <1>5, <1>9
    <3>3. f \in 0 .. n + 1
      BY <1>3, <1>5
    <3> QED
      BY <1>3, <3>1, <3>2, <3>3, Zenon DEF IsCut
  <2>2. TrackAt(s2, b2, fr, f, p)
    <3>1. d <= (n + 1) - f
      BY <1>3, <1>5, <1>6
    <3>2. \A i \in 1 .. d : fr[i] = s2[f + i]
      <4>1. \A i \in 1 .. d : f + i \in 1 .. n
        BY <1>3, <1>5, <1>6
      <4> QED
        BY <1>3, <1>6, <4>1
    <3>3. ASSUME NEW k \in f + d + 1 .. n + 1 PROVE p <= b2[k]
      <4>1. CASE k \in f + d + 1 .. n
        <5>1. k \in 1 .. n
          BY <1>3, <1>5, <4>1
        <5> QED
          BY <1>4, <1>6, <4>1, <5>1
      <4>2. CASE k = n + 1
        <5>1. p = j \/ p <= l
          BY <1>2
        <5>2. p <= l
          BY <1>3, <1>9, <5>1
        <5> QED
          BY <1>4, <4>2, <5>2
      <4> QED
        BY <1>3, <1>5, <4>1, <4>2
    <3>4. d > 0 => End(s2, b2, f + d) <= p
      <4>1. d > 0 => f + d \in 1 .. n
        BY <1>3, <1>5, <1>6
      <4> QED
        BY <1>6, <1>7, <4>1
    <3> QED
      BY <1>2, <1>3, <3>1, <3>2, <3>3, <3>4 DEF TrackAt
  <2> QED
    BY <1>2, <1>3, <2>1, <2>2
<1> QED
  BY <1>8, <1>9

\* Reading the message that begins at p.
LEMMA TrackYield ==
  ASSUME NEW s, NEW b, NEW w, Layout(s, b, w), NEW fr \in Seq(Frame), NEW p \in Nat, NEW f \in 0 .. Len(s),
         TrackAt(s, b, fr, f, p), NEW k \in 1 .. Len(s), k = f + Len(fr) + 1
  PROVE  TrackAt(s, b, Append(fr, s[k]), f, End(s, b, k))
<1>1. s[k] \in Frame /\ Len(s) \in Nat
  BY LayoutTypes, EncodeType
<1>2. PICK n, d, f2 : n = Len(s) /\ d = Len(fr) /\ f2 = Append(fr, s[k])
  OBVIOUS
<1>3. /\ Len(f2) = d + 1 /\ d \in Nat /\ n \in Nat
      /\ \A i \in 1 .. d : f2[i] = fr[i]
      /\ f2[d + 1] = s[k]
      /\ \A i \in 1 .. d + 1 : i \in 1 .. d \/ i = d + 1
  BY <1>1, <1>2, Appended
<1>4. /\ d <= n - f
      /\ \A i \in 1 .. d : fr[i] = s[f + i]
  BY <1>2 DEF TrackAt
<1>5. k = f + (d + 1) /\ f + (d + 1) + 1 = k + 1 /\ d + 1 <= n - f /\ f \in Nat
  BY <1>2, <1>3
<1>6. \A i \in 1 .. d + 1 : f2[i] = s[f + i]
  BY <1>3, <1>4, <1>5
<1>7. \A x \in f + (d + 1) + 1 .. n : End(s, b, k) <= b[x]
  <2>1. \A x \in f + (d + 1) + 1 .. n : x \in 1 .. n /\ k < x
    BY <1>3, <1>5
  <2>2. \A x \in 1 .. n : k < x => End(s, b, k) <= b[x]
    BY <1>2 DEF Layout, Ordered
  <2> QED
    BY <2>1, <2>2
<1>8. End(s, b, f + (d + 1)) <= End(s, b, k)
  <2>1. End(s, b, k) \in Nat
    BY LayoutTypes
  <2> QED
    BY <1>5, <2>1
<1>9. TrackAt(s, b, f2, f, End(s, b, k))
  BY <1>2, <1>3, <1>5, <1>6, <1>7, <1>8 DEF TrackAt
<1> QED
  BY <1>2, <1>9

\* One byte further inside a message that began before the capture.
LEMMA TrackSkip ==
  ASSUME NEW s, NEW b, NEW w, Layout(s, b, w), NEW fr \in Seq(Frame), NEW p \in Nat, NEW f \in 0 .. Len(s),
         TrackAt(s, b, fr, f, p), Len(fr) = 0, NEW k \in 1 .. f, p < End(s, b, k)
  PROVE  TrackAt(s, b, fr, f, p + 1)
<1>1. PICK n : n = Len(s) /\ n \in Nat
  BY DEF Layout
<1>2. k \in 1 .. n /\ f \in Nat
  BY <1>1
<1>3. End(s, b, k) \in Nat
  BY <1>1, <1>2, LayoutTypes
<1>4. ASSUME NEW x \in f + 0 + 1 .. n PROVE p + 1 <= b[x]
  <2>1. x \in 1 .. n /\ k < x
    BY <1>1, <1>2
  <2>2. End(s, b, k) <= b[x] /\ b[x] \in Nat
    BY <1>1, <1>2, <2>1, LayoutTypes DEF Layout, Ordered
  <2> QED
    BY <1>3, <2>2
<1>5. 0 <= n - f
  BY <1>1
<1> QED
  BY <1>1, <1>4, <1>5 DEF TrackAt

(* The place up to which the stream has been read is the beginning of the  *)
(* next message, or it is inside a message that began before the capture.  *)
LEMMA Located ==
  ASSUME NEW s, NEW b, NEW w, Layout(s, b, w), NEW fr \in Seq(Frame),
         NEW j \in Nat, NEW p \in Nat, j <= p, p < Len(w),
         NEW f, IsCut(b, j, Len(s), f), TrackAt(s, b, fr, f, p)
  PROVE  \/ \E k \in 1 .. Len(s) : k = f + Len(fr) + 1 /\ p = b[k]
         \/ Len(fr) = 0 /\ \E k \in 1 .. f : b[k] < p /\ p < End(s, b, k) /\ b[k] < j
<1>0. Len(s) \in Nat /\ Len(fr) \in Nat
  BY DEF Layout
<1>1. PICK n, d : n = Len(s) /\ d = Len(fr) /\ n \in Nat /\ d \in Nat
  BY <1>0
<1>2. PICK k \in 1 .. n : b[k] <= p /\ p < End(s, b, k)
  BY <1>1 DEF Layout, NoGap
<1>3. f \in 0 .. n /\ (b[k] < j <=> k <= f)
  BY <1>1, <1>2 DEF IsCut
<1>4. /\ d <= n - f
      /\ \A x \in f + d + 1 .. n : p <= b[x]
      /\ d > 0 => End(s, b, f + d) <= p
  BY <1>1 DEF TrackAt
<1>5. \A x \in 1 .. n : b[x] \in Nat /\ End(s, b, x) \in Nat /\ b[x] + V2GTP_HEADER_LEN <= End(s, b, x)
  BY <1>1, LayoutTypes
<1>6. \A x, y \in 1 .. n : x < y => End(s, b, x) <= b[y]
  BY <1>1 DEF Layout, Ordered
<1>7. CASE k > f + d
  <2>1. k \in f + d + 1 .. n /\ f + d + 1 \in f + d + 1 .. n /\ f + d + 1 \in 1 .. n
    BY <1>1, <1>3, <1>7
  <2>2. p = b[k]
    BY <1>2, <1>4, <1>5, <2>1
  <2>3. k = f + d + 1
    <3>1. SUFFICES ASSUME f + d + 1 < k PROVE FALSE
      BY <1>1, <1>3, <1>7
    <3>2. /\ End(s, b, f + d + 1) <= b[k] /\ p <= b[f + d + 1]
          /\ b[f + d + 1] + V2GTP_HEADER_LEN <= End(s, b, f + d + 1)
          /\ b[f + d + 1] \in Nat /\ End(s, b, f + d + 1) \in Nat /\ b[k] \in Nat
      BY <1>2, <1>4, <1>5, <1>6, <2>1, <3>1
    <3> QED
      BY <2>2, <3>2 DEF V2GTP_HEADER_LEN
  <2> QED
    BY <1>1, <2>2, <2>3
<1>8. CASE k <= f + d
  <2>1. d = 0
    <3>1. SUFFICES ASSUME d > 0 PROVE FALSE
      BY <1>1
    <3>2. f + d \in 1 .. n /\ End(s, b, f + d) <= p
      BY <1>1, <1>3, <1>4, <3>1
    <3>3. k < f + d \/ k = f + d
      BY <1>1, <1>3, <1>8
    <3>4. CASE k = f + d
      BY <1>2, <1>5, <3>2, <3>4
    <3>5. CASE k < f + d
      <4>1. End(s, b, k) <= b[f + d]
        BY <1>2, <1>6, <3>2, <3>5
      <4>2. /\ b[f + d] + V2GTP_HEADER_LEN <= End(s, b, f + d) /\ b[f + d] \in Nat
            /\ End(s, b, f + d) \in Nat /\ End(s, b, k) \in Nat
        BY <1>5, <3>2
      <4> QED
        BY <1>2, <3>2, <4>1, <4>2 DEF V2GTP_HEADER_LEN
    <3> QED
      BY <3>3, <3>4, <3>5
  <2>2. k \in 1 .. f /\ k <= f
    BY <1>1, <1>3, <1>8, <2>1
  <2>3. b[k] < j /\ b[k] < p
    BY <1>2, <1>3, <1>5, <2>2
  <2> QED
    BY <1>1, <1>2, <2>1, <2>2, <2>3
<1> QED
  BY <1>1, <1>3, <1>7, <1>8

-----------------------------------------------------------------------------
(* Inside a message nothing reads as a header, not even across its end:    *)
(* the next message begins with a version byte, not with its inverse.      *)
LEMMA NoHeaderInside ==
  ASSUME NEW s, NEW b, NEW w, Layout(s, b, w), \A m \in Messages : OneHeader(Encode(m)),
         NEW k \in 1 .. Len(s), NEW p \in Nat, b[k] < p, p < End(s, b, k), p + 2 <= Len(w)
  PROVE  ~Magic(w, p)
<1>0. Len(s) \in Nat /\ Len(w) \in Nat
  BY DEF Layout
<1>1. PICK n : n = Len(s) /\ n \in Nat
  BY <1>0
<1>2. \A x \in 1 .. n :
        /\ b[x] \in Nat /\ End(s, b, x) \in Nat /\ b[x] + V2GTP_HEADER_LEN <= End(s, b, x)
        /\ s[x] \in Messages /\ Inside(Encode(s[x]), w, b[x])
        /\ Len(Encode(s[x])) = V2GTP_HEADER_LEN + Len(s[x].body) /\ Len(s[x].body) \in Nat
  BY <1>1, LayoutTypes DEF Layout, Placed
<1>3. PICK e, x, l : e = Encode(s[k]) /\ x = b[k] /\ l = Len(e)
  OBVIOUS
<1>4. /\ x \in Nat /\ l \in Nat /\ l >= V2GTP_HEADER_LEN /\ End(s, b, k) = x + l
      /\ \A i \in 1 .. l : e[i] = w[x + i]
  <2>1. PICK y : y = Len(s[k].body) /\ y \in Nat
    BY <1>1, <1>2
  <2>2. l = V2GTP_HEADER_LEN + y
    BY <1>1, <1>2, <1>3, <2>1, Zenon
  <2>3. End(s, b, k) = x + V2GTP_HEADER_LEN + y /\ x \in Nat
    BY <1>1, <1>2, <1>3, <2>1 DEF End
  <2>4. \A i \in 1 .. l : e[i] = w[x + i]
    BY <1>1, <1>2, <1>3 DEF Inside
  <2>5. x \in Nat /\ l \in Nat /\ l >= 8 /\ x + 8 + y = x + l
    <3>1. x \in Nat /\ y \in Nat /\ l = 8 + y
      BY <2>1, <2>2, <2>3, Zenon DEF V2GTP_HEADER_LEN
    <3> QED
      BY <3>1
  <2> QED
    BY <2>3, <2>4, <2>5, Zenon DEF V2GTP_HEADER_LEN
<1>5. PICK i \in 2 .. l : p + 1 = x + i
  <2>1. (p + 1) - x \in 2 .. l /\ p + 1 = x + ((p + 1) - x)
    BY <1>3, <1>4
  <2> QED
    BY <2>1
<1>6. SUFFICES ASSUME Magic(w, p) PROVE FALSE
  OBVIOUS
<1>7. w[p + 1] = V2GTP_VERSION /\ w[p + 2] = V2GTP_INVERSE_VERSION
  BY <1>6 DEF Magic
<1>8. CASE i < l
  <2>1. i \in 1 .. l /\ i + 1 \in 1 .. l /\ i \in 1 .. l - 1 /\ x + (i + 1) = p + 2
    BY <1>4, <1>5, <1>8
  <2>2. e[i] = w[x + i] /\ e[i + 1] = w[x + (i + 1)]
    BY <1>4, <2>1
  <2>3. e[i] = V2GTP_VERSION /\ e[i + 1] = V2GTP_INVERSE_VERSION
    BY <1>5, <1>7, <2>1, <2>2
  <2>4. OneHeader(e)
    BY <1>1, <1>2, <1>3
  <2>5. i = 1
    BY <1>3, <2>1, <2>3, <2>4 DEF OneHeader
  <2> QED
    BY <1>5, <2>5
<1>9. CASE i = l
  <2>1. p + 1 = End(s, b, k) /\ p + 1 \in Nat /\ p + 1 < Len(w)
    BY <1>0, <1>4, <1>5, <1>9
  <2>2. PICK j \in 1 .. n : b[j] <= p + 1 /\ p + 1 < End(s, b, j)
    BY <1>1, <2>1 DEF Layout, NoGap
  <2>3. b[j] = p + 1
    <3>1. \A y, z \in 1 .. n : y < z => End(s, b, y) <= b[z]
      BY <1>1 DEF Layout, Ordered
    <3>2. b[j] \in Nat /\ End(s, b, j) \in Nat
      BY <1>2
    <3>3. CASE j < k
      <4>1. End(s, b, j) <= b[k]
        BY <1>1, <3>1, <3>3
      <4> QED
        BY <1>3, <1>4, <2>2, <3>2, <4>1
    <3>4. CASE j = k
      BY <2>1, <2>2, <3>4
    <3>5. CASE k < j
      <4>1. End(s, b, k) <= b[j]
        BY <1>1, <3>1, <3>5
      <4> QED
        BY <2>1, <2>2, <3>2, <4>1
    <3> QED
      BY <1>1, <3>3, <3>4, <3>5
  <2>4. PICK g : g = Encode(s[j])
    OBVIOUS
  <2>5. g[1] = V2GTP_VERSION
    <3>1. Magic(g, 0) /\ 0 + 1 = 1
      BY <1>2, <2>4, EncodeHeader
    <3> QED
      BY <3>1, Zenon DEF Magic
  <2>6. g[1] = w[b[j] + 1]
    <3>1. Inside(g, w, b[j]) /\ Len(g) = V2GTP_HEADER_LEN + Len(s[j].body) /\ Len(s[j].body) \in Nat
      BY <1>2, <2>4
    <3>2. 1 \in 1 .. Len(g)
      BY <3>1 DEF V2GTP_HEADER_LEN
    <3> QED
      BY <3>1, <3>2 DEF Inside
  <2>7. b[j] + 1 = p + 2
    BY <2>3
  <2> QED
    BY <1>7, <2>5, <2>6, <2>7 DEF V2GTP_VERSION, V2GTP_INVERSE_VERSION
<1> QED
  BY <1>4, <1>5, <1>8, <1>9

-----------------------------------------------------------------------------
(* Without losses the framer was fed the stream from the beginning of the  *)
(* capture on, and has read every message since then up to the place it    *)
(* has come to.                                                            *)
InView ==
  /\ pos = join + Len(received)
  /\ received = <<>> \/ Inside(received, wire, join)

Reads(f) ==
  /\ IsCut(begins, join, Len(sent), f)
  /\ TrackAt(sent, begins, frames, f, join + consumed)

Track == \E f \in Nat : Reads(f)

Laid == Layout(sent, begins, wire)

DeliveryInv == Laid /\ (losses = 0 => InView /\ Track)

\* What the framer has before it stands in the stream.
LEMMA BufferInStream ==
  ASSUME FlowIInv, InView, HasHeader(buf)
  PROVE  /\ Inside(buf, wire, join + consumed)
         /\ buf \in Seq(Byte) /\ wire \in Seq(Byte) /\ join + consumed \in Nat
         /\ Len(buf) >= V2GTP_HEADER_LEN /\ Len(buf) \in Nat
         /\ join \in Nat /\ join <= join + consumed
         /\ join + consumed + V2GTP_HEADER_LEN <= Len(wire)
<1>1. /\ buf \in Seq(Byte) /\ wire \in Seq(Byte) /\ received \in Seq(Byte) /\ join \in Nat
      /\ consumed \in Nat /\ Len(buf) >= V2GTP_HEADER_LEN /\ Len(buf) \in Nat
      /\ Len(received) = consumed + Len(buf) /\ \A i \in 1 .. Len(buf) : buf[i] = received[consumed + i]
  BY JoinsAssumption DEF FlowIInv, FlowTypeOK, FramerInv, TypeOK, Window, HasHeader
<1>2. Inside(buf, received, consumed)
  BY <1>1 DEF Inside
<1>3. received # <<>>
  BY <1>1 DEF V2GTP_HEADER_LEN
<1>4. Inside(received, wire, join)
  BY <1>3 DEF InView
<1>5. \A a, c, s \in Seq(Byte) : \A p, q \in Nat :
        Inside(a, c, p) /\ Inside(c, s, q) => Inside(a, s, q + p)
  BY InsideInside
<1>6. Inside(buf, wire, join + consumed)
  BY <1>1, <1>2, <1>4, <1>5, Zenon
<1>7. join + consumed + Len(buf) <= Len(wire)
  BY <1>6 DEF Inside
<1>8. Len(wire) \in Nat
  BY <1>1
<1> QED
  BY <1>1, <1>6, <1>7, <1>8 DEF V2GTP_HEADER_LEN

(* The framer stands before the beginning of the next message if it reads  *)
(* a header there, and only then.                                          *)
LEMMA HeaderIsMessage ==
  ASSUME FlowIInv, Recognisable, Laid, InView, NEW f \in Nat, Reads(f), HasHeader(buf)
  PROVE  \/ /\ Magic(buf, 0)
            /\ \E k \in 1 .. Len(sent) : k = f + Len(frames) + 1 /\ join + consumed = begins[k]
         \/ /\ ~Magic(buf, 0) /\ Len(frames) = 0
            /\ \E k \in 1 .. f : join + consumed < End(sent, begins, k)
<1>1. PICK p : p = join + consumed
  OBVIOUS
<1>2. /\ Inside(buf, wire, p) /\ buf \in Seq(Byte) /\ wire \in Seq(Byte) /\ p \in Nat
      /\ Len(buf) >= V2GTP_HEADER_LEN /\ Len(buf) \in Nat /\ join \in Nat /\ join <= p
      /\ p + V2GTP_HEADER_LEN <= Len(wire) /\ Len(wire) \in Nat
  BY <1>1, BufferInStream
<1>3. Magic(buf, 0) <=> Magic(wire, p)
  BY <1>2, InsideHeader
<1>4. p < Len(wire) /\ p + 2 <= Len(wire)
  BY <1>2 DEF V2GTP_HEADER_LEN
<1>5. Layout(sent, begins, wire) /\ frames \in Seq(Frame)
  BY DEF Laid, FlowIInv, FlowTypeOK, TypeOK
<1>6. IsCut(begins, join, Len(sent), f) /\ TrackAt(sent, begins, frames, f, p)
  BY <1>1 DEF Reads
<1>7. CASE \E k \in 1 .. Len(sent) : k = f + Len(frames) + 1 /\ p = begins[k]
  <2>1. PICK k \in 1 .. Len(sent) : k = f + Len(frames) + 1 /\ p = begins[k]
    BY <1>7
  <2>2. Inside(Encode(sent[k]), wire, p) /\ sent[k] \in Messages
    BY <1>5, <2>1, LayoutTypes DEF Layout, Placed
  <2>3. Magic(wire, p)
    BY <1>2, <2>2, MessageIsFrame
  <2> QED
    BY <1>1, <1>3, <2>1, <2>3
<1>8. CASE Len(frames) = 0 /\ \E k \in 1 .. f : begins[k] < p /\ p < End(sent, begins, k) /\ begins[k] < join
  <2>1. PICK k \in 1 .. f : begins[k] < p /\ p < End(sent, begins, k) /\ begins[k] < join
    BY <1>8
  <2>2. Len(sent) \in Nat /\ f \in 0 .. Len(sent)
    BY <1>5, <1>6 DEF Layout, IsCut
  <2>3. k \in 1 .. Len(sent)
    BY <2>2
  <2>4. begins[k] \in Nat
    BY <1>5, <2>3, LayoutTypes
  <2>5. Joins # {0}
    <3>1. SUFFICES ASSUME Joins = {0} PROVE FALSE
      OBVIOUS
    <3>2. join = 0
      BY <3>1 DEF FlowIInv, FlowTypeOK
    <3> QED
      BY <2>1, <2>4, <3>2
  <2>6. \A m \in Messages : OneHeader(Encode(m))
    BY <2>5 DEF Recognisable
  <2>7. ~Magic(wire, p)
    BY <1>2, <1>4, <1>5, <2>1, <2>3, <2>6, NoHeaderInside
  <2> QED
    BY <1>1, <1>3, <1>8, <2>1, <2>7
<1>9. \/ \E k \in 1 .. Len(sent) : k = f + Len(frames) + 1 /\ p = begins[k]
      \/ Len(frames) = 0 /\ \E k \in 1 .. f : begins[k] < p /\ p < End(sent, begins, k) /\ begins[k] < join
  BY <1>2, <1>4, <1>5, <1>6, Located
<1> QED
  BY <1>7, <1>8, <1>9

-----------------------------------------------------------------------------
(* What a step of the loop does to the place the framer has come to.       *)
LEMMA AfterFrameLen ==
  ASSUME NEW b \in Seq(Byte), Len(b) >= V2GTP_HEADER_LEN, Fits(b, 0)
  PROVE  FrameLen(b, 0) \in Nat /\ Len(b) - Len(AfterFrame(b)) = FrameLen(b, 0)
<1>1. FrameLen(b, 0) \in Nat /\ 0 + FrameLen(b, 0) <= Len(b)
  BY HeaderTypes, FitsMeaning DEF V2GTP_HEADER_LEN
<1>2. PICK n, l : n = FrameLen(b, 0) /\ l = Len(b)
  OBVIOUS
<1>3. n \in Nat /\ l \in Nat /\ n <= l
  BY <1>1, <1>2
<1>4. PICK r \in Nat : l = n + r
  <2>1. l - n \in Nat /\ l = n + (l - n)
    BY <1>3
  <2> QED
    BY <2>1
<1>5. Len(SubSeq(b, n + 1, n + r)) = r
  BY <1>2, <1>3, <1>4, PieceOf
<1>6. Len(AfterFrame(b)) = r
  BY <1>2, <1>4, <1>5 DEF AfterFrame
<1> QED
  BY <1>2, <1>3, <1>4, <1>6

LEMMA DeliveryInit == ASSUME Init PROVE DeliveryInv
<1>1. /\ sent = <<>> /\ begins = <<>> /\ wire = <<>> /\ frames = <<>> /\ received = <<>>
      /\ consumed = 0 /\ pos = join /\ join \in Nat
  BY JoinsAssumption DEF Init, FramerInit
<1>2. Laid
  BY <1>1 DEF Laid, Layout, Placed, Ordered, NoGap
<1>3. InView
  BY <1>1 DEF InView
<1>4. IsCut(begins, join, Len(sent), 0)
  BY <1>1 DEF IsCut
<1>5. TrackAt(sent, begins, frames, 0, join + consumed)
  BY <1>1 DEF TrackAt
<1> QED
  BY <1>2, <1>3, <1>4, <1>5 DEF DeliveryInv, Track, Reads

LEMMA DeliverySend ==
  ASSUME FlowIInv, DeliveryInv, NEW m \in Messages, Send(m)
  PROVE  DeliveryInv'
<1>1. PICK s, b, w : s = sent /\ b = begins /\ w = wire
  OBVIOUS
<1>2. /\ sent' = Append(s, m) /\ begins' = Append(b, Len(w)) /\ wire' = w \o Encode(m)
      /\ join' = join /\ pos' = pos /\ losses' = losses /\ frames' = frames
      /\ received' = received /\ consumed' = consumed
  BY <1>1 DEF Send, framerVars
<1>3. Layout(s, b, w)
  BY <1>1 DEF DeliveryInv, Laid
<1>4. Laid'
  <2>1. Layout(Append(s, m), Append(b, Len(w)), w \o Encode(m))
    BY <1>3, LayoutSend
  <2> QED
    BY <1>2, <2>1 DEF Laid
<1>5. /\ w \in Seq(Byte) /\ received \in Seq(Byte) /\ join \in Nat /\ consumed \in Nat
      /\ pos \in Nat /\ frames \in Seq(Frame) /\ Len(received) = consumed + Len(buf)
      /\ buf \in Seq(Byte)
  BY <1>1, JoinsAssumption DEF FlowIInv, FlowTypeOK, FramerInv, TypeOK, Window
<1>6. ASSUME losses = 0 PROVE InView' /\ Track'
  <2>1. InView /\ Track
    BY <1>6 DEF DeliveryInv
  <2>2. InView'
    <3>1. CASE received = <<>>
      BY <1>2, <2>1, <3>1 DEF InView
    <3>2. CASE received # <<>>
      <4>1. Inside(received, w, join)
        BY <1>1, <2>1, <3>2 DEF InView
      <4>2. \A a, u, v \in Seq(Byte) : \A p \in Nat : Inside(a, u, p) => Inside(a, u \o v, p)
        BY InsideExtended
      <4>3. Encode(m) \in Seq(Byte)
        BY EncodeType
      <4>4. Inside(received, w \o Encode(m), join)
        BY <1>5, <4>1, <4>2, <4>3, Zenon
      <4> QED
        BY <1>2, <2>1, <4>4 DEF InView
    <3> QED
      BY <3>1, <3>2
  <2>3. PICK f \in Nat : Reads(f)
    BY <2>1 DEF Track
  <2>4. PICK p \in Nat : p = join + consumed
    BY <1>5
  <2>5. p = join \/ p <= Len(w)
    <3>1. CASE received = <<>>
      <4>1. Len(received) = 0 /\ Len(buf) \in Nat
        BY <1>5, <3>1
      <4>2. consumed = 0
        <5>1. PICK l : l = Len(buf) /\ l \in Nat
          BY <4>1
        <5>2. 0 = consumed + l
          BY <1>5, <4>1, <5>1, Zenon
        <5> QED
          BY <1>5, <5>1, <5>2
      <4> QED
        BY <1>5, <2>4, <4>2
    <3>2. CASE received # <<>>
      <4>1. join + Len(received) <= Len(w)
        BY <1>1, <2>1, <3>2 DEF InView, Inside
      <4>2. Len(buf) \in Nat /\ Len(w) \in Nat
        BY <1>5
      <4> QED
        BY <1>5, <2>4, <4>1, <4>2
    <3> QED
      BY <3>1, <3>2
  <2>6. IsCut(b, join, Len(s), f) /\ TrackAt(s, b, frames, f, p)
    BY <1>1, <2>3, <2>4 DEF Reads
  <2>7. PICK g : /\ IsCut(Append(b, Len(w)), join, Len(Append(s, m)), g)
                 /\ TrackAt(Append(s, m), Append(b, Len(w)), frames, g, p)
    BY <1>3, <1>5, <2>5, <2>6, TrackSend
  <2>8. g \in Nat
    BY <2>7 DEF IsCut
  <2>9. Track'
    BY <1>2, <2>4, <2>7, <2>8 DEF Track, Reads
  <2> QED
    BY <2>2, <2>9
<1> QED
  BY <1>2, <1>4, <1>6 DEF DeliveryInv

LEMMA DeliveryCapture ==
  ASSUME FlowIInv, DeliveryInv, NEW n \in 1 .. Len(wire) - pos, Capture(n)
  PROVE  DeliveryInv'
<1>1. PICK data, r : data = SubSeq(wire, pos + 1, pos + n) /\ r = received
  OBVIOUS
<1>2. /\ wire \in Seq(Byte) /\ r \in Seq(Byte) /\ pos \in Nat /\ join \in Nat /\ Len(wire) \in Nat
      /\ n \in Nat /\ pos + n <= Len(wire)
  BY <1>1, JoinsAssumption DEF FlowIInv, FlowTypeOK, TypeOK
<1>3. data \in Seq(Byte) /\ Len(data) = n /\ \A i \in 1 .. n : data[i] = wire[pos + i]
  <2>1. wire \in Seq(Byte) /\ pos \in Nat /\ n \in Nat /\ pos + n <= Len(wire)
    BY <1>2
  <2>2. /\ SubSeq(wire, pos + 1, pos + n) \in Seq(Byte)
        /\ Len(SubSeq(wire, pos + 1, pos + n)) = n
        /\ \A i \in 1 .. n : SubSeq(wire, pos + 1, pos + n)[i] = wire[pos + i]
    BY ONLY <2>1, PieceOf
  <2> QED
    BY <1>1, <2>2, Zenon
<1>4. /\ received' = r \o data /\ pos' = pos + n /\ frames' = frames /\ consumed' = consumed
      /\ sent' = sent /\ begins' = begins /\ wire' = wire /\ join' = join /\ losses' = losses
  BY <1>1 DEF Capture, Packet, Feed
<1>5. ASSUME losses = 0 PROVE InView' /\ Track'
  <2>1. InView /\ Track
    BY <1>5 DEF DeliveryInv
  <2>2. Track'
    BY <1>4, <2>1 DEF Track, Reads
  <2>3. PICK l, z : l = Len(r) /\ z = r \o data
    OBVIOUS
  <2>4. l \in Nat /\ pos = join + l
    BY <1>1, <1>2, <2>1, <2>3 DEF InView
  <2>5. \A u, v \in Seq(Byte) :
          /\ Len(u \o v) = Len(u) + Len(v)
          /\ \A i \in 1 .. Len(u) : (u \o v)[i] = u[i]
          /\ \A i \in 1 .. Len(v) : (u \o v)[Len(u) + i] = v[i]
    BY Extended
  <2>6. /\ Len(r \o data) = Len(r) + Len(data)
        /\ \A i \in 1 .. Len(r) : (r \o data)[i] = r[i]
        /\ \A i \in 1 .. Len(data) : (r \o data)[Len(r) + i] = data[i]
    BY <1>2, <1>3, <2>5, Zenon
  <2>7. /\ Len(z) = l + n
        /\ \A i \in 1 .. l : z[i] = r[i]
        /\ \A i \in 1 .. n : z[l + i] = data[i]
    BY <1>3, <2>3, <2>6
  <2>8. \A i \in 1 .. l : z[i] = wire[join + i]
    <3>1. CASE r = <<>>
      <4>1. l = 0
        BY <2>3, <3>1
      <4> QED
        BY <4>1
    <3>2. CASE r # <<>>
      <4>1. \A i \in 1 .. l : r[i] = wire[join + i]
        BY <1>1, <2>1, <2>3, <3>2 DEF InView, Inside
      <4> QED
        BY <2>7, <4>1
    <3> QED
      BY <3>1, <3>2
  <2>9. \A i \in 1 .. n : z[l + i] = wire[join + (l + i)]
    <3>1. \A i \in 1 .. n : pos + i = join + (l + i)
      BY <1>2, <2>4
    <3> QED
      BY <1>3, <2>7, <3>1
  <2>10. ASSUME NEW i \in 1 .. l + n PROVE z[i] = wire[join + i]
    <3>1. CASE i \in 1 .. l
      BY <2>8, <3>1
    <3>2. CASE i \notin 1 .. l
      <4>1. i - l \in 1 .. n /\ i = l + (i - l)
        BY <1>2, <2>4, <3>2
      <4> QED
        BY <2>9, <4>1
    <3> QED
      BY <3>1, <3>2
  <2>11. join + (l + n) <= Len(wire) /\ pos + n = join + (l + n)
    BY <1>2, <2>4
  <2>12. Inside(z, wire, join)
    BY <2>7, <2>10, <2>11 DEF Inside
  <2>13. InView'
    BY <1>4, <2>3, <2>7, <2>11, <2>12 DEF InView
  <2> QED
    BY <2>2, <2>13
<1>6. Laid'
  BY <1>4 DEF DeliveryInv, Laid
<1> QED
  BY <1>4, <1>5, <1>6 DEF DeliveryInv

LEMMA DeliveryLoop ==
  ASSUME FlowIInv, FlowIInv', Recognisable, DeliveryInv, FramerStep
  PROVE  DeliveryInv'
<1>1. /\ sent' = sent /\ begins' = begins /\ wire' = wire /\ join' = join /\ pos' = pos
      /\ losses' = losses
  BY DEF FramerStep, flowVars
<1>2. Laid'
  BY <1>1 DEF DeliveryInv, Laid
<1>3. received' = received
  BY DEF FramerStep, Loop, Resync, Yield, Suspend
<1>4. /\ buf \in Seq(Byte) /\ Len(buf) \in Nat /\ join \in Nat /\ consumed \in Nat
      /\ frames \in Seq(Frame) /\ Len(frames) \in Nat
  BY JoinsAssumption, SMTT(30) DEF FlowIInv, FlowTypeOK, TypeOK
<1>5. ASSUME losses = 0 PROVE InView' /\ Track'
  <2>1. InView /\ Track /\ Laid
    BY <1>5 DEF DeliveryInv
  <2>2. InView'
    BY <1>1, <1>3, <2>1 DEF InView
  <2>3. PICK f \in Nat : Reads(f)
    BY <2>1 DEF Track
  <2>4. PICK p \in Nat : p = join + consumed
    BY <1>4
  <2>5. /\ IsCut(begins, join, Len(sent), f) /\ TrackAt(sent, begins, frames, f, p)
        /\ f \in 0 .. Len(sent) /\ Len(sent) \in Nat
    BY <2>1, <2>3, <2>4 DEF Reads, IsCut, Laid, Layout
  <2>6. Layout(sent, begins, wire)
    BY <2>1 DEF Laid
  <2>7. ASSUME NEW fr, NEW q, frames' = fr, join + consumed' = q, TrackAt(sent, begins, fr, f, q)
        PROVE  Track'
    BY <1>1, <2>5, <2>7 DEF Track, Reads
  <2>8. CASE Suspend
    <3>1. frames' = frames /\ join + consumed' = p
      BY <2>4, <2>8 DEF Suspend
    <3> QED
      BY <2>2, <2>5, <2>7, <3>1
  <2>9. CASE Resync
    <3>1. HasHeader(buf) /\ ~Magic(buf, 0) /\ frames' = frames
      BY <2>9 DEF Resync
    <3>2. Len(frames) = 0 /\ \E k \in 1 .. f : p < End(sent, begins, k)
      BY <2>1, <2>3, <2>4, <3>1, HeaderIsMessage
    <3>3. PICK k \in 1 .. f : p < End(sent, begins, k)
      BY <3>2
    <3>4. TrackAt(sent, begins, frames, f, p + 1)
      BY <1>4, <2>5, <2>6, <3>2, <3>3, TrackSkip
    <3>5. consumed' = consumed + 1
      <4>1. buf # <<>>
        BY <1>4, <3>1 DEF HasHeader, V2GTP_HEADER_LEN
      <4>2. Len(Tail(buf)) = Len(buf) - 1
        BY <1>4, <4>1, HeadTailProperties
      <4>3. consumed' = consumed + (Len(buf) - Len(Tail(buf)))
        BY <2>9 DEF Resync, AfterStray
      <4> QED
        <5>1. PICK l, t : l = Len(buf) /\ t = Len(Tail(buf))
          OBVIOUS
        <5>2. l - t = 1
          BY <1>4, <4>2, <5>1
        <5>3. consumed' = consumed + (l - t)
          BY <4>3, <5>1, Zenon
        <5> QED
          BY <5>2, <5>3, Zenon
    <3>6. join + consumed' = p + 1
      BY <1>4, <2>4, <3>5
    <3> QED
      BY <2>2, <2>7, <3>1, <3>4, <3>6
  <2>10. CASE Yield
    <3>1. /\ HasHeader(buf) /\ Magic(buf, 0) /\ Fits(buf, 0) /\ frames' = Append(frames, FrameAt(buf, 0))
          /\ consumed' = consumed + (Len(buf) - Len(AfterFrame(buf)))
      BY <2>10 DEF Yield, Complete
    <3>2. PICK k \in 1 .. Len(sent) : k = f + Len(frames) + 1 /\ p = begins[k]
      BY <2>1, <2>3, <2>4, <3>1, HeaderIsMessage
    <3>3. /\ sent[k] \in Messages /\ Inside(Encode(sent[k]), wire, p)
      BY <2>6, <3>2, LayoutTypes DEF Layout, Placed
    <3>4. /\ Inside(buf, wire, p) /\ wire \in Seq(Byte) /\ Len(buf) >= V2GTP_HEADER_LEN
      BY <2>1, <2>4, <3>1, BufferInStream
    <3>5. FrameLen(wire, p) = V2GTP_HEADER_LEN + Len(sent[k].body) /\ FrameAt(wire, p) = sent[k]
      BY <3>3, <3>4, MessageIsFrame
    <3>6. FrameAt(buf, 0) = sent[k]
      BY <1>4, <3>1, <3>4, <3>5, InsideFrame
    <3>7. FrameLen(buf, 0) = FrameLen(wire, p)
      BY <1>4, <3>4, InsideHeader
    <3>8. FrameLen(buf, 0) \in Nat /\ Len(buf) - Len(AfterFrame(buf)) = FrameLen(buf, 0)
      BY <1>4, <3>1, <3>4, AfterFrameLen
    <3>9. join + consumed' = End(sent, begins, k)
      <4>1. PICK l, y : l = FrameLen(buf, 0) /\ y = Len(sent[k].body) /\ y \in Nat
        BY <3>3, EncodeType
      <4>2. l = V2GTP_HEADER_LEN + y
        BY <3>5, <3>7, <4>1, Zenon
      <4>3. consumed' = consumed + l
        BY <3>1, <3>8, <4>1, Zenon
      <4>4. End(sent, begins, k) = p + V2GTP_HEADER_LEN + y
        BY <3>2, <4>1, Zenon DEF End
      <4> QED
        <5>1. join + (consumed + l) = p + V2GTP_HEADER_LEN + y
          <6>1. y \in Nat /\ l = 8 + y
            BY <4>1, <4>2, Zenon DEF V2GTP_HEADER_LEN
          <6>2. join \in Nat /\ consumed \in Nat /\ p = join + consumed
            BY <1>4, <2>4
          <6> QED
            BY <6>1, <6>2 DEF V2GTP_HEADER_LEN
        <5> QED
          BY <4>3, <4>4, <5>1, Zenon
    <3>10. TrackAt(sent, begins, Append(frames, sent[k]), f, End(sent, begins, k))
      BY <1>4, <2>5, <2>6, <3>2, TrackYield
    <3>11. frames' = Append(frames, sent[k])
      BY <3>1, <3>6
    <3> QED
      BY <2>2, <2>7, <3>9, <3>10, <3>11
  <2> QED
    BY <2>8, <2>9, <2>10 DEF FramerStep, Loop
<1> QED
  BY <1>1, <1>2, <1>5 DEF DeliveryInv

LEMMA DeliveryNext ==
  ASSUME Recognisable, FlowIInv, FlowIInv', DeliveryInv, [Next]_vars
  PROVE  DeliveryInv'
<1>1. ASSUME NEW m \in Messages, Send(m) PROVE DeliveryInv'
  BY <1>1, DeliverySend
<1>2. ASSUME NEW n \in 1 .. Len(wire) - pos, Capture(n) PROVE DeliveryInv'
  BY <1>2, DeliveryCapture
<1>3. ASSUME NEW n \in 1 .. Len(wire) - pos, Lose(n) PROVE DeliveryInv'
  <2>1. losses' = losses + 1 /\ sent' = sent /\ begins' = begins /\ wire' = wire
    BY <1>3 DEF Lose
  <2>2. losses' # 0
    BY <2>1 DEF FlowIInv, FlowTypeOK
  <2> QED
    BY <2>1, <2>2 DEF DeliveryInv, Laid
<1>4. CASE FramerStep
  BY <1>4, DeliveryLoop
<1>5. CASE UNCHANGED vars
  BY <1>5 DEF vars, framerVars, flowVars, DeliveryInv, Laid, InView, Track, Reads
<1> QED
  BY <1>1, <1>2, <1>3, <1>4, <1>5 DEF Next, Sending, Capturing, Losing

(* What the invariant says of the messages in view.                        *)
LEMMA DeliveryFollows ==
  ASSUME FlowIInv, DeliveryInv
  PROVE  Delivery
<1> SUFFICES ASSUME losses = 0
             PROVE  /\ Len(frames) <= Len(SentInView)
                    /\ frames = SubSeq(SentInView, 1, Len(frames))
  BY DEF Delivery
<1>1. PICK f \in Nat : Reads(f)
  BY DEF DeliveryInv, Track
<1>2. PICK n, d : n = Len(sent) /\ d = Len(frames)
  OBVIOUS
<1>3. sent \in Seq(Messages) /\ frames \in Seq(Frame) /\ n \in Nat /\ d \in Nat
  BY <1>2 DEF FlowIInv, FlowTypeOK, TypeOK
<1>4. f \in 0 .. n /\ \A k \in 1 .. n : begins[k] < join <=> k <= f
  BY <1>1, <1>2 DEF Reads, IsCut
<1>5. d <= n - f /\ \A i \in 1 .. d : frames[i] = sent[f + i]
  BY <1>1, <1>2 DEF Reads, TrackAt
<1>6. Skipped = f
  <2>1. ASSUME NEW g \in 0 .. n, \A k \in 1 .. n : begins[k] < join <=> k <= g PROVE g = f
    <3>1. CASE g < f
      <4>1. f \in 1 .. n /\ f <= f /\ ~(f <= g)
        BY <1>3, <1>4, <3>1
      <4> QED
        BY <1>4, <2>1, <4>1
    <3>2. CASE f < g
      <4>1. g \in 1 .. n /\ g <= g /\ ~(g <= f)
        BY <1>3, <1>4, <3>2
      <4> QED
        BY <1>4, <2>1, <4>1
    <3> QED
      BY <1>3, <3>1, <3>2
  <2>2. Skipped = CHOOSE g \in 0 .. n : \A k \in 1 .. n : begins[k] < join <=> k <= g
    BY <1>2 DEF Skipped
  <2> QED
    BY <1>4, <2>1, <2>2
<1>7. PICK r \in Nat : n = f + r
  <2>1. n - f \in Nat /\ n = f + (n - f)
    BY <1>3, <1>4
  <2> QED
    BY <2>1
<1>v. PICK v : v = SentInView
  OBVIOUS
<1>8. v \in Seq(Messages) /\ Len(v) = r /\ \A i \in 1 .. r : v[i] = sent[f + i]
  <2>1. v = SubSeq(sent, f + 1, f + r)
    BY <1>2, <1>6, <1>7, <1>v DEF SentInView
  <2> QED
    <3>1. /\ SubSeq(sent, f + 1, f + r) \in Seq(Messages)
          /\ Len(SubSeq(sent, f + 1, f + r)) = r
          /\ \A i \in 1 .. r : SubSeq(sent, f + 1, f + r)[i] = sent[f + i]
      <4>1. f + r <= Len(sent)
        BY <1>2, <1>3, <1>7
      <4>2. \A s \in Seq(Messages) : \A p, k \in Nat : p + k <= Len(s) =>
              /\ SubSeq(s, p + 1, p + k) \in Seq(Messages)
              /\ Len(SubSeq(s, p + 1, p + k)) = k
              /\ \A i \in 1 .. k : SubSeq(s, p + 1, p + k)[i] = s[p + i]
        BY PieceOf
      <4> QED
        BY <1>3, <4>1, <4>2, Zenon
    <3> QED
      BY <2>1, <3>1
<1>9. d <= r
  BY <1>3, <1>5, <1>7
<1>10. PICK x : x = SubSeq(v, 1, d)
  OBVIOUS
<1>11. x \in Seq(Messages) /\ Len(x) = d /\ \A i \in 1 .. d : x[i] = v[i]
  <2>1. SubSeq(v, 0 + 1, 0 + d) = x
    BY <1>3, <1>10
  <2>2. \A i \in 1 .. d : 0 + i = i
    OBVIOUS
  <2>3. 0 \in Nat /\ 0 + d <= Len(v)
    BY <1>3, <1>8, <1>9
  <2>4. x \in Seq(Messages) /\ Len(x) = d /\ \A i \in 1 .. d : x[i] = v[0 + i]
    BY <1>3, <1>8, <2>1, <2>3, PieceOf
  <2> QED
    BY <2>2, <2>4
<1>12. \A i \in 1 .. d : frames[i] = x[i]
  <2>1. \A i \in 1 .. d : i \in 1 .. r
    BY <1>3, <1>9
  <2> QED
    BY <1>5, <1>8, <1>11, <2>1, Zenon
<1>13. frames = x
  BY <1>2, <1>3, <1>11, <1>12, SeqEqual
<1> QED
  BY <1>2, <1>v, <1>8, <1>9, <1>10, <1>13

(* As long as nothing is lost, _Framer.feed yields exactly what the peer   *)
(* sent since the capture began: whole messages, in order, none missing,   *)
(* none twice, none made of parts of others.  It holds for any messages a  *)
(* V2GTP header can describe in 16 bits, any number of them and any way of *)
(* cutting the stream into packets; in a capture that begins in the middle *)
(* of the connection, if no message contains what looks like a header.     *)
THEOREM DeliveryAlways ==
  ASSUME Recognisable
  PROVE  Spec => []Delivery
<1>1. Init => DeliveryInv
  BY DeliveryInit
<1>2. FlowIInv /\ FlowIInv' /\ DeliveryInv /\ [Next]_vars => DeliveryInv'
  BY DeliveryNext
<1>3. FlowIInv /\ DeliveryInv => Delivery
  BY DeliveryFollows
<1> QED
  BY <1>1, <1>2, <1>3, FlowInvariant, PTL DEF Spec

-----------------------------------------------------------------------------
(* Captures that lose pieces.  Every byte received stood in the stream     *)
(* where the history says, and later bytes stood further on.               *)
Rising(w) == \A i, j \in 1 .. Len(w) : i < j => w[i] < w[j]

Traced ==
  /\ Rising(where)
  /\ \A i \in 1 .. Len(where) :
       /\ join <= where[i] /\ where[i] < pos /\ where[i] < Len(wire)
       /\ received[i] = wire[where[i] + 1]

CutAt(f) == IsCut(begins, join, Len(sent), f)

RefInv ==
  /\ FlowIInv /\ Laid /\ Traced
  /\ pos = join \/ pos <= Len(wire)
  /\ \E f \in Nat : CutAt(f)

LEMMA RefInit == ASSUME Init, FlowIInv PROVE RefInv
<1>1. /\ sent = <<>> /\ begins = <<>> /\ wire = <<>> /\ where = <<>> /\ pos = join
  BY DEF Init
<1>2. Laid
  BY <1>1 DEF Laid, Layout, Placed, Ordered, NoGap
<1>3. Traced
  BY <1>1 DEF Traced, Rising
<1>4. CutAt(0)
  BY <1>1 DEF CutAt, IsCut
<1> QED
  BY <1>1, <1>2, <1>3, <1>4 DEF RefInv

\* The cut moves on with a message that ends before the capture begins.
LEMMA CutSend ==
  ASSUME NEW s, NEW b, NEW w, Layout(s, b, w), NEW j \in Nat, NEW f \in Nat,
         IsCut(b, j, Len(s), f)
  PROVE  /\ Len(w) < j => f = Len(s) /\ IsCut(Append(b, Len(w)), j, Len(s) + 1, f + 1)
         /\ ~(Len(w) < j) => IsCut(Append(b, Len(w)), j, Len(s) + 1, f)
<1>1. s \in Seq(Messages) /\ b \in Seq(Nat) /\ w \in Seq(Byte) /\ Len(b) = Len(s)
  BY DEF Layout
<1>2. PICK n, l, b2 : n = Len(s) /\ l = Len(w) /\ b2 = Append(b, l)
  OBVIOUS
<1>3. n \in Nat /\ l \in Nat /\ \A i \in 1 .. n + 1 : i \in 1 .. n \/ i = n + 1
  BY <1>1, <1>2
<1>4. (\A i \in 1 .. n : b2[i] = b[i]) /\ b2[n + 1] = l
  BY <1>1, <1>2, Appended
<1>5. f \in 0 .. n /\ \A k \in 1 .. n : b[k] < j <=> k <= f
  BY <1>2 DEF IsCut
<1>6. CASE l < j
  <2>1. f = n
    <3>1. SUFFICES ASSUME f # n PROVE FALSE
      OBVIOUS
    <3>2. f + 1 \in 1 .. n /\ ~(f + 1 <= f)
      BY <1>3, <1>5, <3>1
    <3>3. ~(b[f + 1] < j) /\ b[f + 1] \in Nat
      BY <1>2, <1>5, <3>2, LayoutTypes
    <3>4. b[f + 1] + V2GTP_HEADER_LEN <= End(s, b, f + 1) /\ End(s, b, f + 1) <= l
          /\ End(s, b, f + 1) \in Nat
      BY <1>2, <3>2, LayoutTypes
    <3> QED
      BY <1>3, <1>6, <3>3, <3>4 DEF V2GTP_HEADER_LEN
  <2>2. \A k \in 1 .. n + 1 : b2[k] < j
    BY <1>3, <1>4, <1>5, <1>6, <2>1
  <2>3. n + 1 \in 0 .. n + 1 /\ \A k \in 1 .. n + 1 : k <= n + 1
    BY <1>3
  <2>4. IsCut(b2, j, n + 1, n + 1)
    BY <2>2, <2>3 DEF IsCut
  <2> QED
    BY <1>2, <1>6, <2>1, <2>4
<1>7. CASE ~(l < j)
  <2>1. \A k \in 1 .. n : b2[k] < j <=> k <= f
    BY <1>4, <1>5
  <2>2. ~(b2[n + 1] < j) /\ ~(n + 1 <= f)
    BY <1>3, <1>4, <1>5, <1>7
  <2>3. f \in 0 .. n + 1
    BY <1>3, <1>5
  <2>4. IsCut(b2, j, n + 1, f)
    BY <1>3, <2>1, <2>2, <2>3, Zenon DEF IsCut
  <2> QED
    BY <1>2, <1>7, <2>4
<1> QED
  BY <1>6, <1>7

LEMMA RefSend ==
  ASSUME RefInv, FlowIInv', NEW m \in Messages, Send(m)
  PROVE  RefInv'
<1>1. PICK s, b, w : s = sent /\ b = begins /\ w = wire
  OBVIOUS
<1>2. /\ sent' = Append(s, m) /\ begins' = Append(b, Len(w)) /\ wire' = w \o Encode(m)
      /\ join' = join /\ pos' = pos /\ where' = where /\ received' = received
  BY <1>1 DEF Send, framerVars
<1>3. Layout(s, b, w)
  BY <1>1 DEF RefInv, Laid
<1>4. Laid'
  <2>1. Layout(Append(s, m), Append(b, Len(w)), w \o Encode(m))
    BY <1>3, LayoutSend
  <2> QED
    BY <1>2, <2>1 DEF Laid
<1>5. /\ w \in Seq(Byte) /\ where \in Seq(Nat) /\ join \in Nat /\ pos \in Nat /\ s \in Seq(Messages)
      /\ Len(w) \in Nat
  BY <1>1, JoinsAssumption DEF RefInv, FlowIInv, FlowTypeOK
<1>6. PICK z, l, e : z = wire' /\ l = Len(w) /\ e = Encode(m)
  OBVIOUS
<1>7. Len(z) = l + Len(e) /\ Len(e) \in Nat /\ \A i \in 1 .. l : z[i] = w[i]
  <2>1. \A u, v \in Seq(Byte) : Len(u \o v) = Len(u) + Len(v) /\ \A i \in 1 .. Len(u) : (u \o v)[i] = u[i]
    BY Extended
  <2>2. e \in Seq(Byte)
    BY <1>6, EncodeType
  <2>3. Len(w \o e) = Len(w) + Len(e) /\ \A i \in 1 .. Len(w) : (w \o e)[i] = w[i]
    BY <1>5, <2>1, <2>2, Zenon
  <2>4. z = w \o e
    BY <1>2, <1>6
  <2> QED
    BY <1>6, <2>2, <2>3, <2>4
<1>8. Traced'
  <2>1. Rising(where) /\ \A i \in 1 .. Len(where) :
          /\ join <= where[i] /\ where[i] < pos /\ where[i] < l /\ received[i] = w[where[i] + 1]
    BY <1>1, <1>6 DEF RefInv, Traced
  <2>2. \A i \in 1 .. Len(where) : where[i] \in Nat
    BY <1>5
  <2>3. \A i \in 1 .. Len(where) : where[i] < Len(z) /\ received[i] = z[where[i] + 1]
    <3>1. SUFFICES ASSUME NEW i \in 1 .. Len(where)
                   PROVE  where[i] < Len(z) /\ received[i] = z[where[i] + 1]
      OBVIOUS
    <3>2. where[i] \in Nat /\ where[i] < l /\ l \in Nat
      BY <1>5, <1>6, <2>1, <2>2
    <3>3. where[i] + 1 \in 1 .. l
      BY <3>2
    <3>4. where[i] < Len(z)
      BY <1>7, <3>2
    <3> QED
      BY <1>7, <2>1, <3>3, <3>4
  <2> QED
    BY <1>2, <1>6, <2>1, <2>3 DEF Traced
<1>9. pos' = join' \/ pos' <= Len(wire')
  <2>1. pos = join \/ pos <= l
    BY <1>1, <1>6 DEF RefInv
  <2>2. pos <= l => pos <= Len(z)
    BY <1>5, <1>6, <1>7
  <2> QED
    BY <1>2, <1>6, <2>1, <2>2
<1>10. \E f \in Nat : CutAt(f)'
  <2>1. PICK f \in Nat : IsCut(b, join, Len(s), f)
    BY <1>1 DEF RefInv, CutAt
  <2>2. \E g \in Nat : IsCut(Append(b, Len(w)), join, Len(s) + 1, g)
    BY <1>3, <1>5, <2>1, CutSend
  <2>3. Len(sent') = Len(s) + 1
    BY <1>2, <1>5
  <2> QED
    BY <1>2, <2>2, <2>3 DEF CutAt
<1> QED
  BY <1>4, <1>8, <1>9, <1>10 DEF RefInv

\* What a captured piece adds to what is known of the bytes received.
LEMMA CaptureAdds ==
  ASSUME FlowIInv, NEW n \in 1 .. Len(wire) - pos, Capture(n)
  PROVE  /\ n \in Nat /\ Len(where') = Len(where) + n /\ Len(where) \in Nat
         /\ \A i \in 1 .. Len(where) : where'[i] = where[i] /\ received'[i] = received[i]
         /\ \A i \in 1 .. n : where'[Len(where) + i] = pos + i - 1
                              /\ received'[Len(where) + i] = wire[pos + i]
         /\ pos + n <= Len(wire)
         /\ UNCHANGED <<sent, begins, wire, join, frames, starts>> /\ pos' = pos + n
<1>1. PICK data, r, w : data = SubSeq(wire, pos + 1, pos + n) /\ r = received /\ w = where
  OBVIOUS
<1>n. PICK new : new = [i \in 1 .. n |-> pos + i - 1]
  OBVIOUS
<1>c. \A u, v \in Seq(Byte) :
        /\ Len(u \o v) = Len(u) + Len(v)
        /\ \A i \in 1 .. Len(u) : (u \o v)[i] = u[i]
        /\ \A i \in 1 .. Len(v) : (u \o v)[Len(u) + i] = v[i]
  BY Extended
<1>d. \A u, v \in Seq(Nat) :
        /\ Len(u \o v) = Len(u) + Len(v)
        /\ \A i \in 1 .. Len(u) : (u \o v)[i] = u[i]
        /\ \A i \in 1 .. Len(v) : (u \o v)[Len(u) + i] = v[i]
  BY Extended
<1>2. /\ wire \in Seq(Byte) /\ r \in Seq(Byte) /\ w \in Seq(Nat) /\ Len(w) = Len(r) /\ Len(w) \in Nat
      /\ pos \in Nat /\ n \in Nat /\ pos + n <= Len(wire) /\ Len(wire) \in Nat
  BY <1>1 DEF FlowIInv, FlowTypeOK, TypeOK
<1>3. data \in Seq(Byte) /\ Len(data) = n /\ \A i \in 1 .. n : data[i] = wire[pos + i]
  BY <1>1, <1>2, PieceOf
<1>4. new \in Seq(Nat) /\ Len(new) = n /\ \A i \in 1 .. n : new[i] = pos + i - 1
  BY <1>n, <1>2
<1>5. /\ received' = r \o data /\ where' = w \o new /\ pos' = pos + n
      /\ UNCHANGED <<sent, begins, wire, join, frames, starts>>
  BY <1>1, <1>n DEF Capture, Packet, Feed
<1>6. /\ Len(r \o data) = Len(r) + Len(data)
      /\ \A i \in 1 .. Len(r) : (r \o data)[i] = r[i]
      /\ \A i \in 1 .. Len(data) : (r \o data)[Len(r) + i] = data[i]
  BY <1>2, <1>3, <1>c, Zenon
<1>7. /\ Len(w \o new) = Len(w) + Len(new)
      /\ \A i \in 1 .. Len(w) : (w \o new)[i] = w[i]
      /\ \A i \in 1 .. Len(new) : (w \o new)[Len(w) + i] = new[i]
  BY <1>2, <1>4, <1>d, Zenon
<1>8. \A i \in 1 .. Len(w) : where'[i] = w[i] /\ received'[i] = r[i]
  BY <1>2, <1>5, <1>6, <1>7
<1>9. \A i \in 1 .. n : where'[Len(w) + i] = pos + i - 1 /\ received'[Len(w) + i] = wire[pos + i]
  BY <1>2, <1>3, <1>4, <1>5, <1>6, <1>7
<1>10. Len(where') = Len(w) + n
  BY <1>4, <1>5, <1>7
<1> QED
  BY <1>1, <1>2, <1>5, <1>8, <1>9, <1>10

LEMMA RefCapture ==
  ASSUME RefInv, FlowIInv', NEW n \in 1 .. Len(wire) - pos, Capture(n)
  PROVE  RefInv'
<1>1. PICK N, x, y : N = Len(where) /\ x = where' /\ y = received'
  OBVIOUS
<1>e. /\ n \in Nat /\ Len(x) = N + n /\ N \in Nat
      /\ \A i \in 1 .. N : x[i] = where[i] /\ y[i] = received[i]
      /\ \A i \in 1 .. n : x[N + i] = pos + i - 1 /\ y[N + i] = wire[pos + i]
      /\ pos + n <= Len(wire)
      /\ UNCHANGED <<sent, begins, wire, join, frames, starts>> /\ pos' = pos + n
  BY <1>1, CaptureAdds DEF RefInv
<1>2. /\ n \in Nat /\ Len(x) = N + n /\ N \in Nat
      /\ \A i \in 1 .. N : x[i] = where[i] /\ y[i] = received[i]
      /\ \A i \in 1 .. n : x[N + i] = pos + i - 1 /\ y[N + i] = wire[pos + i]
      /\ pos + n <= Len(wire)
  BY <1>e
<1>3. /\ pos \in Nat /\ join \in Nat /\ join <= pos /\ Len(wire) \in Nat
      /\ \A i \in 1 .. N : where[i] \in Nat
  <2>1. pos \in Nat /\ join \in Nat /\ join <= pos /\ wire \in Seq(Byte) /\ where \in Seq(Nat)
    BY JoinsAssumption DEF RefInv, FlowIInv, FlowTypeOK
  <2> QED
    BY <1>1, <2>1
<1>4. \A i, j \in 1 .. N : i < j => where[i] < where[j]
  BY <1>1 DEF RefInv, Traced, Rising
<1>5. \A i \in 1 .. N : join <= where[i] /\ where[i] < pos /\ where[i] < Len(wire)
                        /\ received[i] = wire[where[i] + 1]
  BY <1>1 DEF RefInv, Traced
<1>6. ASSUME NEW i \in 1 .. N + n
      PROVE  i \in 1 .. N \/ \E c \in 1 .. n : i = N + c
  <2>1. CASE i \notin 1 .. N
    <3>1. i - N \in 1 .. n /\ i = N + (i - N)
      BY <1>2, <2>1
    <3> QED
      BY <3>1
  <2> QED
    BY <2>1
<1>7. ASSUME NEW i \in 1 .. N + n
      PROVE  join <= x[i] /\ x[i] < pos + n /\ x[i] < Len(wire) /\ y[i] = wire[x[i] + 1]
  <2>1. CASE i \in 1 .. N
    <3>1. x[i] = where[i] /\ y[i] = received[i]
      BY <1>2, <2>1, Zenon
    <3>2. join <= where[i] /\ where[i] < pos /\ where[i] < Len(wire)
          /\ received[i] = wire[where[i] + 1] /\ where[i] \in Nat
      BY <1>3, <1>5, <2>1, Zenon
    <3>3. where[i] < pos + n
      BY <1>2, <1>3, <3>2
    <3> QED
      BY <3>1, <3>2, <3>3, Zenon
  <2>2. ASSUME NEW c \in 1 .. n, i = N + c
        PROVE  join <= x[i] /\ x[i] < pos + n /\ x[i] < Len(wire) /\ y[i] = wire[x[i] + 1]
    <3>1. x[i] = pos + c - 1 /\ y[i] = wire[pos + c]
      BY <1>2, <2>2
    <3>2. (pos + c - 1) + 1 = pos + c /\ c \in Nat /\ 1 <= c /\ c <= n
      BY <1>2, <1>3
    <3> QED
      BY <1>2, <1>3, <3>1, <3>2
  <2> QED
    BY <1>6, <2>1, <2>2
<1>8. ASSUME NEW i \in 1 .. N + n, NEW j \in 1 .. N + n, i < j PROVE x[i] < x[j]
  <2>1. CASE j \in 1 .. N
    <3>1. i \in 1 .. N
      BY <1>2, <1>8, <2>1
    <3> QED
      BY <1>2, <1>4, <1>8, <2>1, <3>1
  <2>2. ASSUME NEW c \in 1 .. n, j = N + c PROVE x[i] < x[j]
    <3>0. c \in Nat /\ 1 <= c /\ c <= n
      BY <1>2
    <3>1. x[j] = pos + c - 1 /\ c \in Nat /\ 1 <= c
      BY <1>2, <2>2, <3>0, Zenon
    <3>2. CASE i \in 1 .. N
      BY <1>2, <1>3, <1>5, <3>1, <3>2
    <3>3. ASSUME NEW d \in 1 .. n, i = N + d PROVE x[i] < x[j]
      <4>1. x[i] = pos + d - 1
        BY <1>2, <3>3, Zenon
      <4>2. d \in Nat /\ d < c
        <5>1. n \in Nat /\ N \in Nat
          BY <1>2, Zenon
        <5> QED
          BY <1>8, <2>2, <3>3, <5>1
      <4> QED
        BY <1>3, <3>1, <4>1, <4>2
    <3> QED
      BY <1>6, <3>2, <3>3
  <2> QED
    BY <1>6, <2>1, <2>2
<1>9. Traced'
  <2>1. Rising(x)
    BY <1>2, <1>8 DEF Rising
  <2>2. \A i \in 1 .. Len(x) : join <= x[i] /\ x[i] < pos + n /\ x[i] < Len(wire)
                               /\ y[i] = wire[x[i] + 1]
    BY <1>2, <1>7
  <2> QED
    BY <1>1, <1>e, <2>1, <2>2 DEF Traced
<1>10. Laid' /\ \E f \in Nat : CutAt(f)'
  BY <1>e DEF RefInv, Laid, CutAt
<1>11. pos' = join' \/ pos' <= Len(wire')
  BY <1>e
<1> QED
  BY <1>9, <1>10, <1>11 DEF RefInv

(* A step that feeds the framer nothing leaves what is known of the bytes  *)
(* received as it is; a loss only moves the capture on.                    *)
LEMMA RefStay ==
  ASSUME RefInv, FlowIInv', UNCHANGED <<sent, begins, wire, join, where, received>>,
         \/ pos' = pos
         \/ \E n \in Nat : pos' = pos + n /\ pos + n <= Len(wire)
  PROVE  RefInv'
<1>1. Laid' /\ \E f \in Nat : CutAt(f)'
  BY DEF RefInv, Laid, CutAt
<1>2. pos' \in Nat /\ pos \in Nat /\ pos <= pos'
  BY DEF FlowIInv, FlowTypeOK, RefInv
<1>3. \A i \in 1 .. Len(where) : where[i] \in Nat /\ where[i] < pos
  BY DEF RefInv, FlowIInv, FlowTypeOK, Traced
<1>4. \A i \in 1 .. Len(where) : where[i] < pos'
  BY <1>2, <1>3
<1>5. Traced'
  BY <1>4 DEF RefInv, Traced
<1>6. pos' = join' \/ pos' <= Len(wire')
  BY DEF RefInv
<1> QED
  BY <1>1, <1>5, <1>6 DEF RefInv

LEMMA RefNext ==
  ASSUME RefInv, FlowIInv', [Next]_vars
  PROVE  RefInv'
<1>1. ASSUME NEW m \in Messages, Send(m) PROVE RefInv'
  BY <1>1, RefSend
<1>2. ASSUME NEW n \in 1 .. Len(wire) - pos, Capture(n) PROVE RefInv'
  BY <1>2, RefCapture
<1>3. ASSUME NEW n \in 1 .. Len(wire) - pos, Lose(n) PROVE RefInv'
  <2>1. n \in Nat /\ pos + n <= Len(wire)
    BY DEF RefInv, FlowIInv, FlowTypeOK
  <2>2. pos' = pos + n /\ UNCHANGED <<sent, begins, wire, join, where, received>>
    BY <1>3 DEF Lose, framerVars
  <2> QED
    BY <2>1, <2>2, RefStay
<1>4. CASE FramerStep
  <2>1. received' = received
    BY <1>4 DEF FramerStep, Loop, Resync, Yield, Suspend
  <2>2. pos' = pos /\ UNCHANGED <<sent, begins, wire, join, where, received>>
    BY <1>4, <2>1 DEF FramerStep, flowVars
  <2> QED
    BY <2>2, RefStay
<1>5. CASE UNCHANGED vars
  <2>1. pos' = pos /\ UNCHANGED <<sent, begins, wire, join, where, received>>
    BY <1>5 DEF vars, framerVars, flowVars
  <2> QED
    BY <2>1, RefStay
<1> QED
  BY <1>1, <1>2, <1>3, <1>4, <1>5 DEF Next, Sending, Capturing, Losing

LEMMA RefInvariant == Spec => []RefInv
<1>1. Init /\ FlowIInv => RefInv
  BY RefInit
<1>2. RefInv /\ FlowIInv' /\ [Next]_vars => RefInv'
  BY RefNext
<1> QED
  BY <1>1, <1>2, FlowInvariant, PTL DEF Spec

-----------------------------------------------------------------------------
LEMMA RefTypes ==
  ASSUME RefInv
  PROVE  /\ sent \in Seq(Messages) /\ Len(sent) \in Nat
         /\ begins \in Seq(Nat) /\ Len(begins) = Len(sent)
         /\ wire \in Seq(Byte) /\ Len(wire) \in Nat
         /\ join \in Nat /\ pos \in Nat /\ join <= pos
         /\ where \in Seq(Nat) /\ Len(where) \in Nat /\ Len(where) = Len(received)
         /\ received \in Seq(Byte) /\ consumed \in Nat /\ consumed <= Len(where)
         /\ frames \in Seq(Frame) /\ Len(frames) \in Nat
         /\ starts \in Seq(Nat) /\ Len(starts) = Len(frames)
<1>1. /\ sent \in Seq(Messages) /\ begins \in Seq(Nat) /\ Len(begins) = Len(sent) /\ wire \in Seq(Byte)
      /\ join \in Nat /\ pos \in Nat /\ join <= pos /\ where \in Seq(Nat) /\ Len(where) = Len(received)
  BY JoinsAssumption DEF RefInv, FlowIInv, FlowTypeOK
<1>2. /\ received \in Seq(Byte) /\ consumed \in Nat /\ frames \in Seq(Frame) /\ starts \in Seq(Nat)
      /\ Len(starts) = Len(frames) /\ buf \in Seq(Byte) /\ Len(received) = consumed + Len(buf)
  BY DEF RefInv, FlowIInv, FramerInv, TypeOK, Window
<1>3. PICK n, b : n = Len(where) /\ b = Len(buf)
  OBVIOUS
<1>4. n \in Nat /\ b \in Nat
  BY <1>1, <1>2, <1>3
<1>5. n = consumed + b
  BY <1>1, <1>2, <1>3
<1>6. consumed <= n
  BY <1>2, <1>4, <1>5
<1>7. Len(sent) \in Nat /\ Len(wire) \in Nat /\ Len(frames) \in Nat
  BY <1>1, <1>2
<1> QED
  BY <1>1, <1>2, <1>3, <1>4, <1>6, <1>7

LEMMA MessageFacts ==
  ASSUME RefInv, NEW k \in 1 .. Len(sent)
  PROVE  /\ sent[k] \in Messages /\ begins[k] \in Nat /\ EndOf(k) \in Nat
         /\ begins[k] + 8 <= EndOf(k) /\ EndOf(k) <= Len(wire)
         /\ Encode(sent[k]) \in Seq(Byte) /\ Len(Encode(sent[k])) \in Nat
         /\ Len(Encode(sent[k])) >= 8
         /\ EndOf(k) = begins[k] + Len(Encode(sent[k]))
         /\ Len(Encode(sent[k])) = 8 + Len(sent[k].body)
         /\ \A i \in 1 .. Len(Encode(sent[k])) : Encode(sent[k])[i] = wire[begins[k] + i]
         /\ \A j \in 1 .. Len(sent) : k < j => EndOf(k) <= begins[j]
<1>1. Layout(sent, begins, wire)
  BY DEF RefInv, Laid
<1>2. \A j \in 1 .. Len(sent) : EndOf(j) = End(sent, begins, j)
  BY DEF EndOf, End
<1>3. /\ sent[k] \in Messages /\ begins[k] \in Nat /\ EndOf(k) \in Nat
      /\ begins[k] + 8 <= EndOf(k) /\ EndOf(k) <= Len(wire)
  BY <1>1, <1>2, LayoutTypes DEF V2GTP_HEADER_LEN
<1>4. PICK e, l, b : e = Encode(sent[k]) /\ l = Len(sent[k].body) /\ b = begins[k]
  OBVIOUS
<1>5. e \in Seq(Byte) /\ l \in Nat /\ Len(e) = 8 + l
  BY <1>3, <1>4, EncodeType DEF V2GTP_HEADER_LEN
<1>6. EndOf(k) = b + 8 + l
  BY <1>4 DEF EndOf, V2GTP_HEADER_LEN
<1>7. Len(e) \in Nat /\ Len(e) >= 8 /\ b + 8 + l = b + Len(e)
  <2>1. b \in Nat
    BY <1>3, <1>4, Zenon
  <2>2. b + 8 + l = b + (8 + l) /\ 8 + l \in Nat /\ 8 + l >= 8
    BY <1>5, <2>1
  <2> QED
    BY <1>5, <2>2, Zenon
<1>8. \A i \in 1 .. Len(e) : e[i] = wire[b + i]
  BY <1>1, <1>4 DEF Layout, Placed, Inside
<1>9. \A j \in 1 .. Len(sent) : k < j => EndOf(k) <= begins[j]
  BY <1>1, <1>2 DEF Layout, Ordered
<1> QED
  BY <1>3, <1>4, <1>5, <1>6, <1>7, <1>8, <1>9

\* Messages begin at offsets that grow with their numbers.
LEMMA BeginsRise ==
  ASSUME RefInv, NEW j \in 1 .. Len(sent), NEW k \in 1 .. Len(sent)
  PROVE  (begins[j] <= begins[k]) <=> (j <= k)
<1>1. /\ begins[j] \in Nat /\ begins[k] \in Nat /\ EndOf(j) \in Nat /\ EndOf(k) \in Nat
      /\ begins[j] + 8 <= EndOf(j) /\ begins[k] + 8 <= EndOf(k)
      /\ (j < k => EndOf(j) <= begins[k]) /\ (k < j => EndOf(k) <= begins[j])
  BY MessageFacts
<1>2. j \in Nat /\ k \in Nat
  BY RefTypes
<1> QED
  BY <1>1, <1>2

LEMMA FrameFacts ==
  ASSUME RefInv, NEW i \in 1 .. Len(frames)
  PROVE  /\ starts[i] \in Nat /\ FrameEnd(i) \in Nat /\ frames[i] \in Frame
         /\ starts[i] + 8 <= FrameEnd(i) /\ FrameEnd(i) <= consumed /\ FrameEnd(i) <= Len(where)
         /\ Magic(received, starts[i])
         /\ frames[i].ptype = PayloadType(received, starts[i])
         /\ Len(frames[i].body) = PayloadLen(received, starts[i])
         /\ FrameEnd(i) = starts[i] + 8 + PayloadLen(received, starts[i])
         /\ \A j \in 1 .. Len(frames[i].body) :
              frames[i].body[j] = received[starts[i] + V2GTP_HEADER_LEN + j]
         /\ \A j \in 1 .. Len(frames) : i < j => FrameEnd(i) <= starts[j]
<1>1. IsFrameOnWire(i) /\ \A j \in 1 .. Len(frames) : i < j => FrameEnd(i) <= starts[j]
  BY DEF RefInv, FlowIInv, FramerInv, FramesOnWire
<1>2. frames[i] \in Frame /\ starts[i] \in Nat
  BY RefTypes, ElementOfSeq
<1>3. Len(frames[i].body) \in Nat
  BY <1>2 DEF Frame
<1>4. FrameEnd(i) = starts[i] + 8 + Len(frames[i].body)
  BY DEF FrameEnd, V2GTP_HEADER_LEN
<1>5. FrameEnd(i) \in Nat /\ starts[i] + 8 <= FrameEnd(i)
  BY <1>2, <1>3, <1>4, SMTT(30)
<1>6. /\ FrameEnd(i) <= consumed /\ Magic(received, starts[i])
      /\ frames[i].ptype = PayloadType(received, starts[i])
      /\ Len(frames[i].body) = PayloadLen(received, starts[i])
      /\ \A j \in 1 .. Len(frames[i].body) :
           frames[i].body[j] = received[starts[i] + V2GTP_HEADER_LEN + j]
  BY <1>1 DEF IsFrameOnWire
<1>7. FrameEnd(i) <= Len(where)
  BY <1>5, <1>6, RefTypes
<1>8. FrameEnd(i) = starts[i] + 8 + PayloadLen(received, starts[i])
  BY <1>4, <1>6, Zenon
<1> QED
  BY <1>1, <1>2, <1>5, <1>6, <1>7, <1>8

(* Where bytes that lie side by side in the stream have all been received, *)
(* they were received one after the other.                                 *)
LEMMA Together ==
  ASSUME NEW w \in Seq(Nat), Rising(w), NEW a \in 1 .. Len(w), NEW l \in Nat,
         \A m \in Nat : m < l => \E c \in 1 .. Len(w) : w[c] = w[a] + m
  PROVE  \A m \in Nat : m < l => a + m \in 1 .. Len(w) /\ w[a + m] = w[a] + m
<1>1. PICK n, x : n = Len(w) /\ x = w[a]
  OBVIOUS
<1>2. n \in Nat /\ a \in 1 .. n /\ \A i \in 1 .. n : w[i] \in Nat
  BY <1>1
<1>3. x \in Nat
  BY <1>1, <1>2
<1>4. \A i, j \in 1 .. n : i < j => w[i] < w[j]
  BY <1>1 DEF Rising
<1>5. \A m \in Nat : m < l => \E c \in 1 .. n : w[c] = x + m
  BY <1>1
<1> DEFINE T == {m \in Nat : m < l => a + m \in 1 .. n /\ w[a + m] = x + m}
<1>6. 0 \in T
  <2>1. a + 0 = a /\ x + 0 = x
    BY <1>2, <1>3
  <2> QED
    BY <1>1, <1>2, <2>1
<1>7. ASSUME NEW m \in Nat, m \in T PROVE m + 1 \in T
  <2> SUFFICES ASSUME m + 1 < l PROVE a + (m + 1) \in 1 .. n /\ w[a + (m + 1)] = x + (m + 1)
    OBVIOUS
  <2>1. a + m \in 1 .. n /\ w[a + m] = x + m
    BY <1>7
  <2>2. PICK c \in 1 .. n : w[c] = x + (m + 1)
    BY <1>5
  <2>3. a + m < c
    <3>1. SUFFICES ASSUME ~(a + m < c) PROVE FALSE
      OBVIOUS
    <3>2. c = a + m \/ c < a + m
      BY <1>2, <3>1
    <3>3. w[c] \in Nat /\ (w[c] = w[a + m] \/ w[c] < w[a + m])
      BY <1>2, <1>4, <2>1, <3>2, Zenon
    <3> QED
      BY <1>3, <2>1, <2>2, <3>3
  <2>4. a + (m + 1) \in 1 .. n /\ a + m < a + (m + 1) /\ a + (m + 1) <= c
    BY <1>2, <2>1, <2>3
  <2>5. x + m < w[a + (m + 1)] /\ w[a + (m + 1)] \in Nat
    BY <1>2, <1>4, <2>1, <2>4
  <2>6. c = a + (m + 1)
    <3>1. SUFFICES ASSUME a + (m + 1) < c PROVE FALSE
      BY <1>2, <2>4
    <3>2. w[a + (m + 1)] < x + (m + 1)
      BY <1>4, <2>2, <2>4, <3>1
    <3> QED
      BY <1>3, <2>5, <3>2
  <2> QED
    BY <2>2, <2>4, <2>6
<1> HIDE DEF T
<1>8. Nat \subseteq T
  BY <1>6, <1>7, NumberInduction
<1> QED
  BY <1>1, <1>8 DEF T

LEMMA ByteFacts ==
  ASSUME RefInv, NEW i \in 1 .. Len(where)
  PROVE  /\ where[i] \in Nat /\ join <= where[i] /\ where[i] < pos /\ where[i] < Len(wire)
         /\ received[i] = wire[where[i] + 1]
         /\ \A j \in 1 .. Len(where) : i < j => where[i] < where[j]
         /\ \A j \in 1 .. Len(where) : where[i] < where[j] => i < j
         /\ where[i] \in Received
<1>1. /\ join <= where[i] /\ where[i] < pos /\ where[i] < Len(wire)
      /\ received[i] = wire[where[i] + 1]
  BY DEF RefInv, Traced
<1>2. \A j, k \in 1 .. Len(where) : j < k => where[j] < where[k]
  BY DEF RefInv, Traced, Rising
<1>3. \A j \in 1 .. Len(where) : where[j] \in Nat
  BY RefTypes
<1>4. ASSUME NEW j \in 1 .. Len(where), where[i] < where[j] PROVE i < j
  <2>1. SUFFICES ASSUME ~(i < j) PROVE FALSE
    OBVIOUS
  <2>2. j = i \/ j < i
    BY <2>1, RefTypes
  <2>3. where[j] = where[i] \/ where[j] < where[i]
    BY <1>2, <2>2, Zenon
  <2>4. where[i] \in Nat /\ where[j] \in Nat
    BY <1>3
  <2> QED
    BY <1>4, <2>3, <2>4
<1>5. where[i] \in Received
  BY DEF Received
<1> QED
  BY <1>1, <1>2, <1>3, <1>4, <1>5

(* What reads as a header is, in its second byte, that of a message: only  *)
(* headers hold the inverse version, and only there.                       *)
LEMMA HeaderSource ==
  ASSUME Marked, RefInv, NEW q \in Nat, q + 2 <= Len(where), Magic(received, q)
  PROVE  \E k \in 1 .. Len(sent) : where[q + 2] = begins[k] + 1 /\ join <= begins[k]
<1>1. q + 1 \in 1 .. Len(where) /\ q + 2 \in 1 .. Len(where) /\ q + 1 < q + 2
  BY RefTypes
<1>2. PICK x, y : x = where[q + 1] /\ y = where[q + 2]
  OBVIOUS
<1>3. /\ x \in Nat /\ y \in Nat /\ join <= x /\ x < y /\ y < Len(wire)
      /\ received[q + 2] = wire[y + 1]
  BY <1>1, <1>2, ByteFacts
<1>4. PICK k \in 1 .. Len(sent) : begins[k] <= y /\ y < End(sent, begins, k)
  BY <1>3 DEF RefInv, Laid, Layout, NoGap
<1>5. y < EndOf(k)
  BY <1>4 DEF EndOf, End
<1>6. PICK e, b, l : e = Encode(sent[k]) /\ b = begins[k] /\ l = Len(e)
  OBVIOUS
<1>7. /\ sent[k] \in Messages /\ b \in Nat /\ l \in Nat /\ EndOf(k) = b + l
      /\ \A i \in 1 .. l : e[i] = wire[b + i]
  BY <1>6, MessageFacts
<1>8. PICK i \in 1 .. l : y + 1 = b + i
  <2>0. b <= y /\ y < b + l /\ y \in Nat /\ b \in Nat /\ l \in Nat
    BY <1>3, <1>4, <1>5, <1>6, <1>7, Zenon
  <2>1. (y + 1) - b \in 1 .. l /\ y + 1 = b + ((y + 1) - b)
    BY <2>0
  <2> QED
    BY <2>1
<1>9. e[i] = V2GTP_INVERSE_VERSION
  BY <1>3, <1>7, <1>8 DEF Magic
<1>10. i = 2
  BY <1>6, <1>7, <1>9 DEF Marked
<1>11. y = b + 1 /\ join <= b
  <2>1. join \in Nat
    BY RefTypes
  <2> QED
    BY <1>3, <1>7, <1>8, <1>10, <2>1
<1> QED
  BY <1>2, <1>6, <1>11

\* Every frame is read from one message, which began in view.
LEMMA FrameSource ==
  ASSUME Marked, RefInv, NEW i \in 1 .. Len(frames)
  PROVE  \E k \in 1 .. Len(sent) : ReadFrom(i, k) /\ join <= begins[k]
<1>1. /\ starts[i] \in Nat /\ starts[i] + 8 <= FrameEnd(i) /\ FrameEnd(i) <= Len(where)
      /\ FrameEnd(i) \in Nat /\ Magic(received, starts[i])
  BY FrameFacts
<1>2. starts[i] + 2 <= Len(where)
  <2>1. PICK a, e, w : a = starts[i] /\ e = FrameEnd(i) /\ w = Len(where)
    OBVIOUS
  <2>2. a \in Nat /\ e \in Nat /\ w \in Nat /\ a + 8 <= e /\ e <= w
    BY <1>1, <2>1, RefTypes, Zenon
  <2>3. a + 2 <= w
    BY <2>2
  <2> QED
    BY <2>1, <2>3, Zenon
<1> QED
  BY <1>1, <1>2, HeaderSource DEF ReadFrom

\* Frames come from their messages in order, each from another one.
LEMMA SourcesRise ==
  ASSUME RefInv, NEW i \in 1 .. Len(frames), NEW j \in 1 .. Len(frames),
         NEW k \in 1 .. Len(sent), NEW l \in 1 .. Len(sent), ReadFrom(i, k), ReadFrom(j, l)
  PROVE  (i < j => k < l) /\ (i = j => k = l)
<1>1. /\ starts[i] \in Nat /\ starts[i] + 2 \in 1 .. Len(where)
      /\ starts[j] \in Nat /\ starts[j] + 2 \in 1 .. Len(where)
  <2>1. ASSUME NEW x \in 1 .. Len(frames) PROVE starts[x] \in Nat /\ starts[x] + 2 \in 1 .. Len(where)
    <3>1. /\ starts[x] \in Nat /\ starts[x] + 8 <= FrameEnd(x) /\ FrameEnd(x) <= Len(where)
          /\ FrameEnd(x) \in Nat
      BY FrameFacts
    <3>2. Len(where) \in Nat
      BY RefTypes
    <3>3. PICK a, e, w : a = starts[x] /\ e = FrameEnd(x) /\ w = Len(where)
      OBVIOUS
    <3>4. a \in Nat /\ e \in Nat /\ w \in Nat /\ a + 8 <= e /\ e <= w
      BY <3>1, <3>2, <3>3, Zenon
    <3>5. a \in Nat /\ a + 2 \in 1 .. w
      BY <3>4
    <3> QED
      BY <3>3, <3>5, Zenon
  <2> QED
    BY <2>1
<1>2. where[starts[i] + 2] = begins[k] + 1 /\ where[starts[j] + 2] = begins[l] + 1
  BY DEF ReadFrom
<1>3. begins[k] \in Nat /\ begins[l] \in Nat /\ k \in Nat /\ l \in Nat
  BY MessageFacts, RefTypes
<1>4. (begins[k] <= begins[l]) <=> (k <= l)
  BY BeginsRise
<1>5. (begins[l] <= begins[k]) <=> (l <= k)
  BY BeginsRise
<1>6. ASSUME i < j PROVE k < l
  <2>1. FrameEnd(i) <= starts[j] /\ starts[i] + 8 <= FrameEnd(i) /\ FrameEnd(i) \in Nat
    BY <1>6, FrameFacts
  <2>2. starts[i] + 2 < starts[j] + 2
    <3>1. PICK a, c, e : a = starts[i] /\ c = starts[j] /\ e = FrameEnd(i)
      OBVIOUS
    <3>2. a \in Nat /\ c \in Nat /\ e \in Nat /\ e <= c /\ a + 8 <= e
      BY <1>1, <2>1, <3>1, Zenon
    <3>3. a + 2 < c + 2
      BY <3>2
    <3> QED
      BY <3>1, <3>3, Zenon
  <2>3. where[starts[i] + 2] < where[starts[j] + 2]
    <3>1. \A m, n \in 1 .. Len(where) : m < n => where[m] < where[n]
      BY ByteFacts, Zenon
    <3> QED
      BY <1>1, <2>2, <3>1, Zenon
  <2>4. begins[k] + 1 < begins[l] + 1
    BY <1>2, <2>3
  <2> QED
    BY <1>3, <1>5, <2>4
<1>7. ASSUME i = j PROVE k = l
  <2>1. begins[k] + 1 = begins[l] + 1
    BY <1>2, <1>7
  <2> QED
    BY <1>3, <1>4, <1>5, <2>1
<1> QED
  BY <1>6, <1>7

(* As far as the capture has come, the bytes of a message that is not      *)
(* damaged were fed to the framer one after the other.                     *)
LEMMA BytesOf ==
  ASSUME RefInv, NEW k \in 1 .. Len(sent), ~Damaged(k), NEW c \in Nat,
         c <= Len(Encode(sent[k])), begins[k] + c <= pos,
         NEW a \in 1 .. Len(where), where[a] = begins[k]
  PROVE  \A m \in Nat : m < c =>
           /\ a + m \in 1 .. Len(where) /\ where[a + m] = begins[k] + m
           /\ received[a + m] = Encode(sent[k])[m + 1]
<1>1. PICK e, b, l : e = Encode(sent[k]) /\ b = begins[k] /\ l = Len(e)
  OBVIOUS
<1>2. /\ b \in Nat /\ l \in Nat /\ EndOf(k) = b + l /\ \A i \in 1 .. l : e[i] = wire[b + i]
  BY <1>1, MessageFacts
<1>3. pos \in Nat /\ c <= l /\ b + c <= pos /\ where[a] = b /\ where \in Seq(Nat) /\ Rising(where)
  BY <1>1, RefTypes DEF RefInv, Traced
<1>4. ASSUME NEW m \in Nat, m < c PROVE \E d \in 1 .. Len(where) : where[d] = b + m
  <2>1. b + m \in b .. (b + l) - 1 /\ b + m < pos
    <3>1. b \in Nat /\ l \in Nat /\ pos \in Nat /\ c <= l /\ b + c <= pos
      BY <1>2, <1>3, Zenon
    <3> QED
      BY <1>4, <3>1
  <2>2. \A s \in b .. (b + l) - 1 : s < pos => s \in Received
    BY <1>1, <1>2 DEF Damaged
  <2>3. b + m \in Received
    BY <2>1, <2>2
  <2> QED
    BY <2>3 DEF Received
<1>5. \A m \in Nat : m < c => \E d \in 1 .. Len(where) : where[d] = where[a] + m
  BY <1>3, <1>4
<1>6. \A m \in Nat : m < c => a + m \in 1 .. Len(where) /\ where[a + m] = where[a] + m
  BY <1>3, <1>5, Together
<1>7. ASSUME NEW m \in Nat, m < c
      PROVE  a + m \in 1 .. Len(where) /\ where[a + m] = b + m /\ received[a + m] = e[m + 1]
  <2>1. a + m \in 1 .. Len(where) /\ where[a + m] = b + m
    BY <1>3, <1>6, <1>7
  <2>2. received[a + m] = wire[where[a + m] + 1]
    BY <2>1, ByteFacts
  <2>3. received[a + m] = wire[(b + m) + 1]
    BY <2>1, <2>2, Zenon
  <2>4. m + 1 \in 1 .. l /\ b + (m + 1) = (b + m) + 1
    <3>1. b \in Nat /\ l \in Nat /\ c <= l
      BY <1>2, <1>3, Zenon
    <3> QED
      BY <1>7, <3>1
  <2>5. e[m + 1] = wire[b + (m + 1)]
    BY <1>2, <2>4
  <2> QED
    BY <2>1, <2>3, <2>4, <2>5, Zenon
<1> QED
  BY <1>1, <1>7

\* The bytes of a message in what was received, as a string inside it.
LEMMA MessageInside ==
  ASSUME RefInv, NEW k \in 1 .. Len(sent), ~Damaged(k), EndOf(k) <= pos,
         NEW q \in Nat, q + 1 <= Len(where), where[q + 1] = begins[k]
  PROVE  /\ Inside(Encode(sent[k]), received, q)
         /\ q + Len(Encode(sent[k])) \in 1 .. Len(where)
         /\ where[q + Len(Encode(sent[k]))] = EndOf(k) - 1
<1>1. PICK e, b, l : e = Encode(sent[k]) /\ b = begins[k] /\ l = Len(e)
  OBVIOUS
<1>2. b \in Nat /\ l \in Nat /\ EndOf(k) = b + l /\ l >= 8 /\ e \in Seq(Byte)
  BY <1>1, MessageFacts
<1>3. q + 1 \in 1 .. Len(where) /\ Len(received) = Len(where) /\ Len(where) \in Nat
  BY RefTypes
<1>4. \A m \in Nat : m < l =>
        /\ (q + 1) + m \in 1 .. Len(where) /\ where[(q + 1) + m] = b + m
        /\ received[(q + 1) + m] = e[m + 1]
  <2>1. l <= l
    BY <1>2
  <2>2. l <= Len(Encode(sent[k])) /\ begins[k] + l <= pos
    BY <1>1, <1>2, <2>1, Zenon
  <2>3. \A c \in Nat : \A a \in 1 .. Len(where) :
          c <= Len(Encode(sent[k])) /\ begins[k] + c <= pos /\ where[a] = begins[k] =>
            \A m \in Nat : m < c =>
              /\ a + m \in 1 .. Len(where) /\ where[a + m] = begins[k] + m
              /\ received[a + m] = Encode(sent[k])[m + 1]
    BY BytesOf
  <2>4. \A m \in Nat : m < l =>
          /\ (q + 1) + m \in 1 .. Len(where) /\ where[(q + 1) + m] = begins[k] + m
          /\ received[(q + 1) + m] = Encode(sent[k])[m + 1]
    BY <1>2, <1>3, <2>2, <2>3, Zenon
  <2> QED
    BY <1>1, <2>4, Zenon
<1>5. l - 1 \in Nat /\ l - 1 < l /\ (q + 1) + (l - 1) = q + l /\ b + (l - 1) = (b + l) - 1
  BY <1>2
<1>6. q + l \in 1 .. Len(where) /\ where[q + l] = (b + l) - 1
  BY <1>4, <1>5
<1>7. ASSUME NEW i \in 1 .. l PROVE e[i] = received[q + i]
  <2>1. i - 1 \in Nat /\ i - 1 < l /\ (q + 1) + (i - 1) = q + i /\ (i - 1) + 1 = i
    BY <1>2
  <2> QED
    BY <1>4, <2>1
<1>8. q + l <= Len(received)
  BY <1>3, <1>6
<1>9. Inside(e, received, q)
  BY <1>1, <1>7, <1>8 DEF Inside
<1> QED
  BY <1>1, <1>2, <1>6, <1>9

\* A frame read where a message stands is that message.
LEMMA FrameIsMessage ==
  ASSUME RefInv, NEW i \in 1 .. Len(frames), NEW m \in Messages,
         Inside(Encode(m), received, starts[i])
  PROVE  frames[i] = m
<1>1. PICK s, p, f : s = received /\ p = starts[i] /\ f = frames[i]
  OBVIOUS
<1>2. /\ p \in Nat /\ f \in Frame /\ p + 8 <= FrameEnd(i) /\ FrameEnd(i) <= Len(where)
      /\ FrameEnd(i) \in Nat /\ f.ptype = PayloadType(s, p) /\ Len(f.body) = PayloadLen(s, p)
      /\ \A j \in 1 .. Len(f.body) : f.body[j] = s[p + V2GTP_HEADER_LEN + j]
  BY <1>1, FrameFacts
<1>3. s \in Seq(Byte) /\ Len(s) = Len(where) /\ Len(where) \in Nat
  BY <1>1, RefTypes
<1>4. p + V2GTP_HEADER_LEN <= Len(s)
  BY <1>2, <1>3 DEF V2GTP_HEADER_LEN
<1>5. Fits(s, p) /\ FrameAt(s, p) = m
  BY <1>1, <1>2, <1>3, MessageIsFrame
<1>6. /\ m \in Frame /\ m.ptype = PayloadType(s, p) /\ Len(m.body) = PayloadLen(s, p)
      /\ \A j \in 1 .. PayloadLen(s, p) : m.body[j] = s[p + V2GTP_HEADER_LEN + j]
  <2>1. /\ FrameAt(s, p) \in Frame
        /\ FrameAt(s, p).ptype = PayloadType(s, p)
        /\ Len(FrameAt(s, p).body) = PayloadLen(s, p)
        /\ \A j \in 1 .. PayloadLen(s, p) :
             FrameAt(s, p).body[j] = s[p + V2GTP_HEADER_LEN + j]
    BY <1>2, <1>3, <1>4, <1>5, FrameAtIsWire
  <2> QED
    BY <1>5, <2>1
<1>7. f.body = m.body
  <2>1. f.body \in Seq(Byte) /\ m.body \in Seq(Byte)
    BY <1>2, <1>6 DEF Frame
  <2>2. Len(f.body) = Len(m.body) /\ \A j \in 1 .. Len(f.body) : f.body[j] = m.body[j]
    BY <1>2, <1>6, Zenon
  <2> QED
    BY <2>1, <2>2, SeqEqual
<1> QED
  BY <1>1, <1>2, <1>6, <1>7 DEF Frame

\* The length in a header is that of the message whose header it is.
LEMMA LengthRead ==
  ASSUME NEW m \in Messages, NEW s, NEW p, \A i \in 1 .. 8 : s[p + i] = Encode(m)[i]
  PROVE  PayloadLen(s, p) = Len(m.body)
<1>1. PICK e : e = Encode(m)
  OBVIOUS
<1>2. s[p + 5] = e[5] /\ s[p + 6] = e[6] /\ s[p + 7] = e[7] /\ s[p + 8] = e[8]
  BY <1>1
<1>3. 0 + 5 = 5 /\ 0 + 6 = 6 /\ 0 + 7 = 7 /\ 0 + 8 = 8
  OBVIOUS
<1>4. High(s, p) = High(e, 0)
  BY <1>2, <1>3, Zenon DEF High
<1>5. Low(s, p) = Low(e, 0)
  BY <1>2, <1>3, Zenon DEF Low
<1>6. PayloadLen(e, 0) = Len(m.body)
  BY <1>1, EncodeHeader
<1> QED
  BY <1>4, <1>5, <1>6, Zenon DEF PayloadLen

(* A frame whose header is that of a message which lost nothing is that    *)
(* message, and it is read to its end and no further.                      *)
LEMMA ReadWhole ==
  ASSUME RefInv, NEW i \in 1 .. Len(frames), NEW k \in 1 .. Len(sent), ReadFrom(i, k), ~Damaged(k)
  PROVE  /\ frames[i] = sent[k] /\ EndOf(k) <= pos
         /\ FrameEnd(i) \in 1 .. Len(where) /\ where[FrameEnd(i)] = EndOf(k) - 1
<1>1. PICK e, b, l, p, z : e = Encode(sent[k]) /\ b = begins[k] /\ l = Len(e) /\ p = starts[i] /\ z = FrameEnd(i)
  OBVIOUS
<1>2. /\ b \in Nat /\ l \in Nat /\ EndOf(k) = b + l /\ l >= 8 /\ e \in Seq(Byte)
      /\ sent[k] \in Messages /\ l = 8 + Len(sent[k].body) /\ EndOf(k) \in Nat
  BY <1>1, MessageFacts
<1>3. /\ p \in Nat /\ z \in Nat /\ p + 8 <= z /\ z <= Len(where)
      /\ z = p + 8 + PayloadLen(received, p)
  BY <1>1, FrameFacts
<1>4. /\ Len(where) \in Nat /\ Len(received) = Len(where) /\ pos \in Nat
  BY RefTypes
<1>t. b \in Nat /\ l \in Nat /\ l >= 8 /\ p \in Nat /\ z \in Nat /\ pos \in Nat
  BY <1>2, <1>3, <1>4
<1>5. p + 2 \in 1 .. Len(where) /\ where[p + 2] = b + 1 /\ b + 1 < pos
  <2>1. p + 2 \in 1 .. Len(where)
    BY <1>3, <1>4
  <2>2. where[p + 2] = b + 1
    BY <1>1 DEF ReadFrom
  <2>3. where[p + 2] < pos
    BY <2>1, ByteFacts
  <2> QED
    BY <2>1, <2>2, <2>3
<1>6. PICK a \in 1 .. Len(where) : where[a] = b
  <2>1. b \in b .. (b + l) - 1 /\ b < pos
    BY <1>2, <1>4, <1>5
  <2>2. \A s \in b .. (b + l) - 1 : s < pos => s \in Received
    BY <1>1, <1>2 DEF Damaged
  <2> QED
    BY <2>1, <2>2 DEF Received
<1>7. \A c \in Nat : c <= l /\ b + c <= pos =>
        \A m \in Nat : m < c =>
          /\ a + m \in 1 .. Len(where) /\ where[a + m] = b + m
          /\ received[a + m] = e[m + 1]
  <2>1. \A c \in Nat : c <= Len(Encode(sent[k])) /\ begins[k] + c <= pos =>
          \A m \in Nat : m < c =>
            /\ a + m \in 1 .. Len(where) /\ where[a + m] = begins[k] + m
            /\ received[a + m] = Encode(sent[k])[m + 1]
    <3>1. where[a] = begins[k]
      BY <1>1, <1>6
    <3> QED
      BY <3>1, BytesOf
  <2> QED
    BY <1>1, <2>1, Zenon
<1>8. a = p + 1
  <2>1. 2 \in Nat /\ 2 <= l /\ b + 2 <= pos /\ 1 \in Nat /\ 1 < 2
    BY <1>2, <1>4, <1>5
  <2>2. a + 1 \in 1 .. Len(where) /\ where[a + 1] = b + 1
    BY <1>7, <2>1
  <2>3. ~(where[a + 1] < where[p + 2]) /\ ~(where[p + 2] < where[a + 1])
    BY <1>2, <1>5, <2>2
  <2>4. ~(a + 1 < p + 2) /\ ~(p + 2 < a + 1)
    BY <1>5, <2>2, <2>3, ByteFacts
  <2> QED
    BY <1>3, <1>4, <1>6, <2>4
<1>9. EndOf(k) <= pos
  <2>1. SUFFICES ASSUME pos < b + l PROVE FALSE
    BY <1>2, <1>4
  <2>2. PICK c \in Nat : pos = b + c /\ c >= 1 /\ c < l
    <3>1. pos - b \in Nat /\ pos = b + (pos - b) /\ pos - b >= 1 /\ pos - b < l
      BY <1>t, <1>5, <2>1
    <3> QED
      BY <3>1
  <2>3. \A m \in Nat : m < c =>
          /\ a + m \in 1 .. Len(where) /\ where[a + m] = b + m /\ received[a + m] = e[m + 1]
    <3>1. c <= l /\ b + c <= pos
      BY <1>2, <1>4, <2>2
    <3> QED
      BY <1>7, <3>1
  <2>4. Len(where) <= p + c
    <3>1. SUFFICES ASSUME p + c < Len(where) PROVE FALSE
      BY <1>3, <1>4
    <3>2. c - 1 \in Nat /\ c - 1 < c /\ a + (c - 1) = p + c
      BY <1>8, <1>3, <2>2
    <3>3. p + c \in 1 .. Len(where) /\ where[p + c] = b + (c - 1)
      BY <2>3, <3>2
    <3>4. (p + c) + 1 \in 1 .. Len(where) /\ p + c < (p + c) + 1
      BY <1>3, <1>4, <3>1
    <3>5. where[p + c] < where[(p + c) + 1] /\ where[(p + c) + 1] < pos
      BY <3>3, <3>4, ByteFacts
    <3> QED
      <4>1. PICK v : v = where[(p + c) + 1]
        OBVIOUS
      <4>2. v \in Nat
        BY <3>4, <4>1, ByteFacts
      <4>3. b + (c - 1) < v
        BY <3>3, <3>5, <4>1
      <4>4. v < pos
        BY <3>5, <4>1
      <4> QED
        BY <1>t, <2>2, <4>2, <4>3, <4>4
  <2>5. c >= 8
    BY <1>3, <1>4, <2>4
  <2>6. ASSUME NEW j \in 1 .. 8 PROVE received[p + j] = e[j]
    <3>1. j - 1 \in Nat /\ j - 1 < c /\ a + (j - 1) = p + j /\ (j - 1) + 1 = j
      BY <1>3, <1>8, <2>5
    <3> QED
      BY <2>3, <3>1
  <2>7. PayloadLen(received, p) = Len(sent[k].body)
    BY <1>1, <1>2, <2>6, LengthRead
  <2>8. z = p + l
    <3>1. PICK y : y = Len(sent[k].body) /\ y \in Nat
      BY <1>2, EncodeType
    <3>2. z = p + 8 + y /\ l = 8 + y
      BY <1>2, <1>3, <2>7, <3>1, Zenon
    <3>3. p + 8 + y = p + (8 + y)
      <4>1. y \in Nat
        BY <3>1, Zenon
      <4> QED
        BY <1>t, <4>1
    <3> QED
      BY <3>2, <3>3, Zenon
  <2> QED
    BY <1>2, <1>3, <1>4, <2>2, <2>4, <2>8
<1>10. Inside(e, received, p) /\ p + l \in 1 .. Len(where) /\ where[p + l] = (b + l) - 1
  <2>1. p + 1 <= Len(where) /\ where[p + 1] = begins[k]
    BY <1>1, <1>6, <1>8
  <2>2. /\ Inside(Encode(sent[k]), received, p) /\ p + Len(Encode(sent[k])) \in 1 .. Len(where)
        /\ where[p + Len(Encode(sent[k]))] = EndOf(k) - 1
    BY <1>3, <1>9, <2>1, MessageInside
  <2> QED
    BY <1>1, <1>2, <2>2, Zenon
<1>11. frames[i] = sent[k]
  BY <1>1, <1>2, <1>10, FrameIsMessage
<1>12. z = p + l
  <2>1. \A j \in 1 .. 8 : received[p + j] = e[j]
    <3>1. \A j \in 1 .. Len(e) : e[j] = received[p + j]
      BY <1>10 DEF Inside
    <3>2. \A j \in 1 .. 8 : j \in 1 .. l
      BY <1>t
    <3> QED
      BY <1>1, <3>1, <3>2, Zenon
  <2>2. PayloadLen(received, p) = Len(sent[k].body)
    BY <1>1, <1>2, <2>1, LengthRead
  <2>3. PICK y : y = Len(sent[k].body) /\ y \in Nat
    BY <1>2, EncodeType
  <2>4. z = p + 8 + y /\ l = 8 + y
    BY <1>2, <1>3, <2>2, <2>3, Zenon
  <2>5. p + 8 + y = p + (8 + y)
    <3>1. y \in Nat
      BY <2>3, Zenon
    <3> QED
      BY <1>t, <3>1
  <2> QED
    BY <2>4, <2>5, Zenon
<1> QED
  BY <1>1, <1>2, <1>9, <1>10, <1>11, <1>12, Zenon

(* Between two frames read one after the other no message is passed over   *)
(* unless it or one before it, in view, lost bytes: a message that is all  *)
(* there begins with a header, which the framer skips only if a frame      *)
(* before it reaches over it, and no whole message reaches that far.       *)
LEMMA Passed ==
  ASSUME Marked, RefInv, NEW i \in 1 .. Len(frames), NEW k \in 1 .. Len(sent), ReadFrom(i, k),
         NEW j \in 1 .. Len(sent), j < k, join <= begins[j],
         \A x \in 1 .. Len(frames) : \A y \in 1 .. Len(sent) : x < i /\ ReadFrom(x, y) => y < j
  PROVE  \E d \in 1 .. Len(sent) : d <= j /\ join <= begins[d] /\ Damaged(d)
<1> SUFFICES ASSUME \A d \in 1 .. Len(sent) : d <= j /\ join <= begins[d] => ~Damaged(d)
             PROVE  FALSE
  OBVIOUS
<1>1. j \in Nat /\ k \in Nat /\ i \in Nat /\ j <= j
  BY RefTypes
<1>2. ~Damaged(j)
  BY <1>1
<1>3. PICK b, l, z, p : b = begins[j] /\ l = Len(Encode(sent[j])) /\ z = EndOf(j) /\ p = starts[i]
  OBVIOUS
<1>4. b \in Nat /\ l \in Nat /\ l >= 8 /\ z = b + l /\ sent[j] \in Messages /\ z <= begins[k]
  BY <1>3, MessageFacts
<1>5. begins[k] \in Nat
  BY MessageFacts
<1>6. /\ p \in Nat /\ p + 8 <= FrameEnd(i) /\ FrameEnd(i) \in Nat /\ FrameEnd(i) <= Len(where)
      /\ FrameEnd(i) <= consumed
  BY <1>3, FrameFacts
<1>7. Len(where) \in Nat /\ pos \in Nat /\ consumed \in Nat /\ received \in Seq(Byte)
      /\ Len(received) = Len(where)
  BY RefTypes
<1>8. p + 2 \in 1 .. Len(where)
  BY <1>6, <1>7
<1>9. where[p + 2] = begins[k] + 1
  BY <1>3 DEF ReadFrom
<1>10. begins[k] + 1 < pos
  <2>1. where[p + 2] < pos
    BY <1>8, ByteFacts
  <2> QED
    BY <1>9, <2>1
<1>11. z <= pos /\ b < pos /\ b \in b .. z - 1
  BY <1>4, <1>5, <1>7, <1>10
<1>12. PICK c \in 1 .. Len(where) : where[c] = b
  <2>1. b \in Received
    BY <1>2, <1>3, <1>11 DEF Damaged
  <2> QED
    BY <2>1 DEF Received
<1>13. PICK h \in Nat : h + 1 = c
  <2>1. c - 1 \in Nat /\ (c - 1) + 1 = c
    BY <1>7
  <2> QED
    BY <2>1
<1>14. /\ Inside(Encode(sent[j]), received, h)
       /\ h + l \in 1 .. Len(where) /\ where[h + l] = z - 1
  <2>1. EndOf(j) <= pos /\ h + 1 <= Len(where) /\ where[h + 1] = begins[j]
    BY <1>3, <1>7, <1>11, <1>12, <1>13
  <2>2. /\ Inside(Encode(sent[j]), received, h)
        /\ h + Len(Encode(sent[j])) \in 1 .. Len(where)
        /\ where[h + Len(Encode(sent[j]))] = EndOf(j) - 1
    BY <1>2, <2>1, MessageInside
  <2> QED
    BY <1>3, <2>2, Zenon
<1>15. h < p
  <2>1. where[h + l] < where[p + 2]
    BY <1>4, <1>5, <1>9, <1>14, SMTT(30)
  <2>2. h + l < p + 2
    BY <1>8, <1>14, <2>1, ByteFacts
  <2> QED
    BY <1>4, <1>6, <2>2
<1>16. Magic(received, h)
  BY <1>4, <1>7, <1>14, MessageIsFrame
<1>17. InFrame(h)
  <2>1. h \in 0 .. consumed - 1
    BY <1>6, <1>7, <1>15
  <2> QED
    BY <1>16, <2>1 DEF RefInv, FlowIInv, FramerInv, OnlyStrayDropped
<1>18. PICK x \in 1 .. Len(frames) : starts[x] <= h /\ h < FrameEnd(x)
  BY <1>17 DEF InFrame
<1>19. x < i
  <2>1. SUFFICES ASSUME ~(x < i) PROVE FALSE
    OBVIOUS
  <2>2. x = i \/ i < x
    BY <1>1, <2>1
  <2>3. x # i
    BY <1>3, <1>6, <1>15, <1>18
  <2>4. i < x => FrameEnd(i) <= starts[x] /\ starts[x] \in Nat
    BY FrameFacts
  <2> QED
    BY <1>6, <1>15, <1>18, <2>2, <2>3, <2>4
<1>20. PICK y \in 1 .. Len(sent) : ReadFrom(x, y) /\ join <= begins[y]
  BY FrameSource
<1>21. y < j
  BY <1>19, <1>20
<1>22. ~Damaged(y)
  BY <1>1, <1>20, <1>21
<1>23. FrameEnd(x) \in 1 .. Len(where) /\ where[FrameEnd(x)] = EndOf(y) - 1
  BY <1>20, <1>22, ReadWhole
<1>24. EndOf(y) <= b /\ EndOf(y) \in Nat
  BY <1>3, <1>21, MessageFacts
<1>25. where[FrameEnd(x)] < where[c]
  BY <1>4, <1>12, <1>23, <1>24
<1>26. FrameEnd(x) < c
  BY <1>12, <1>23, <1>25, ByteFacts
<1> QED
  BY <1>13, <1>18, <1>23, <1>26

-----------------------------------------------------------------------------
(* What this says of the messages in view, all of it without a step.       *)
Sources(i, k) == i \in 1 .. Len(frames) /\ k \in 1 .. Len(sent) /\ ReadFrom(i, k)

SourcesGrow   == \A i, j, k, l \in Nat : Sources(i, k) /\ Sources(j, l) /\ i < j => k < l
SourcesDiffer == \A i, k, l \in Nat : Sources(i, k) /\ Sources(i, l) => k = l

ReadUnaltered ==
  \A i, k \in Nat : Sources(i, k) /\ ~Damaged(k) => frames[i] = sent[k] /\ EndOf(k) <= pos

Sourced ==
  /\ \A i \in 1 .. Len(frames) : \E k \in 1 .. Len(sent) : ReadFrom(i, k) /\ join <= begins[k]
  /\ SourcesGrow /\ SourcesDiffer /\ ReadUnaltered
  /\ \A i, k \in Nat : Sources(i, k) => begins[k] < pos

\* Message j, in view, is missing before frame i for a reason.
Explained(i, j) ==
  (\A x, y \in Nat : Sources(x, y) /\ x < i => y < j) =>
    \E d \in 1 .. Len(sent) : d <= j /\ join <= begins[d] /\ Damaged(d)

Gaps ==
  \A i, k \in Nat : Sources(i, k) =>
    \A j \in 1 .. Len(sent) : j < k /\ join <= begins[j] => Explained(i, j)

LEMMA SourcedAlways ==
  ASSUME Marked
  PROVE  RefInv => Sourced /\ Gaps
<1> SUFFICES ASSUME RefInv PROVE Sourced /\ Gaps
  OBVIOUS
<1>1. \A i \in 1 .. Len(frames) : \E k \in 1 .. Len(sent) : ReadFrom(i, k) /\ join <= begins[k]
  BY FrameSource
<1>2. SourcesGrow /\ SourcesDiffer
  BY SourcesRise DEF Sources, SourcesGrow, SourcesDiffer
<1>3. \A i, k \in Nat : Sources(i, k) /\ ~Damaged(k) => frames[i] = sent[k] /\ EndOf(k) <= pos
  BY ReadWhole DEF Sources
<1>4. ASSUME NEW i, NEW k, Sources(i, k) PROVE begins[k] < pos
  <2>1. i \in 1 .. Len(frames) /\ k \in 1 .. Len(sent) /\ where[starts[i] + 2] = begins[k] + 1
    BY <1>4 DEF Sources, ReadFrom
  <2>2. PICK p, z : p = starts[i] /\ z = FrameEnd(i)
    OBVIOUS
  <2>3. p \in Nat /\ z \in Nat /\ p + 8 <= z /\ z <= Len(where)
    BY <2>1, <2>2, FrameFacts
  <2>4. Len(where) \in Nat
    BY RefTypes
  <2>5. p + 2 \in 1 .. Len(where)
    BY <2>3, <2>4
  <2>6. where[p + 2] < pos
    BY <2>5, ByteFacts
  <2>7. begins[k] \in Nat /\ pos \in Nat
    BY <2>1, RefTypes, MessageFacts
  <2> QED
    BY <2>1, <2>2, <2>6, <2>7
<1>5. ASSUME NEW i, NEW k, Sources(i, k), NEW j \in 1 .. Len(sent), j < k, join <= begins[j]
      PROVE  Explained(i, j)
  <2> SUFFICES ASSUME \A x, y \in Nat : Sources(x, y) /\ x < i => y < j
               PROVE  \E d \in 1 .. Len(sent) : d <= j /\ join <= begins[d] /\ Damaged(d)
    BY DEF Explained
  <2>1. i \in 1 .. Len(frames) /\ k \in 1 .. Len(sent) /\ ReadFrom(i, k)
    BY <1>5 DEF Sources
  <2>2. \A x \in 1 .. Len(frames) : \A y \in 1 .. Len(sent) : x < i /\ ReadFrom(x, y) => y < j
    <3>1. \A x \in 1 .. Len(frames) : \A y \in 1 .. Len(sent) : x \in Nat /\ y \in Nat
      BY RefTypes
    <3> QED
      BY <3>1 DEF Sources
  <2> QED
    BY <1>5, <2>1, <2>2, Passed
<1> QED
  BY <1>1, <1>2, <1>3, <1>4, <1>5 DEF Sourced, ReadUnaltered, Gaps

-----------------------------------------------------------------------------
(* The message channel that the flow shows: the messages in view are those *)
(* after the cut, and the last one read is the source of the last frame.   *)
ViewOK ==
  /\ Skipped \in Nat /\ Skipped <= Len(sent) /\ CutAt(Skipped)
  /\ SentInView \in Seq(Messages) /\ Len(SentInView) = Len(sent) - Skipped
  /\ \A i \in 1 .. Len(SentInView) : SentInView[i] = sent[Skipped + i]

LastOK ==
  /\ frames = <<>> => LastRead = 0
  /\ frames # <<>> => LastRead \in 1 .. Len(SentInView) /\ Sources(Len(frames), Skipped + LastRead)

LEMMA CutUnique ==
  ASSUME NEW b, NEW j, NEW n \in Nat, NEW f, NEW g, IsCut(b, j, n, f), IsCut(b, j, n, g)
  PROVE  f = g
<1>1. f \in 0 .. n /\ \A k \in 1 .. n : b[k] < j <=> k <= f
  BY DEF IsCut
<1>2. g \in 0 .. n /\ \A k \in 1 .. n : b[k] < j <=> k <= g
  BY DEF IsCut
<1>3. \A k \in 1 .. n : k <= f <=> k <= g
  BY <1>1, <1>2, Zenon
<1>4. CASE f < g
  <2>1. g \in 1 .. n /\ g <= g /\ ~(g <= f)
    BY <1>1, <1>2, <1>4
  <2> QED
    BY <1>3, <2>1
<1>5. CASE g < f
  <2>1. f \in 1 .. n /\ f <= f /\ ~(f <= g)
    BY <1>1, <1>2, <1>5
  <2> QED
    BY <1>3, <2>1
<1> QED
  BY <1>1, <1>2, <1>4, <1>5

LEMMA SkippedIs ==
  ASSUME NEW f, CutAt(f), Len(sent) \in Nat
  PROVE  Skipped = f
<1>1. PICK n : n = Len(sent)
  OBVIOUS
<1>2. IsCut(begins, join, n, f)
  BY <1>1 DEF CutAt
<1>3. f \in 0 .. n /\ \A k \in 1 .. n : begins[k] < join <=> k <= f
  BY <1>2 DEF IsCut
<1>4. \A g \in 0 .. n : (\A k \in 1 .. n : begins[k] < join <=> k <= g) => g = f
  <2> SUFFICES ASSUME NEW g \in 0 .. n, \A k \in 1 .. n : begins[k] < join <=> k <= g PROVE g = f
    OBVIOUS
  <2>1. IsCut(begins, join, n, g)
    BY DEF IsCut
  <2> QED
    BY <1>1, <1>2, <2>1, CutUnique
<1>5. Skipped = CHOOSE g \in 0 .. n : \A k \in 1 .. n : begins[k] < join <=> k <= g
  BY <1>1 DEF Skipped
<1> QED
  BY <1>3, <1>4, <1>5

LEMMA ViewAlways == RefInv => ViewOK
<1> SUFFICES ASSUME RefInv PROVE ViewOK
  OBVIOUS
<1>1. PICK n, f : n = Len(sent) /\ f = Skipped
  OBVIOUS
<1>2. sent \in Seq(Messages) /\ n \in Nat
  BY <1>1, RefTypes
<1>3. CutAt(f)
  BY <1>1, <1>2, SkippedIs DEF RefInv
<1>4. f \in 0 .. n
  BY <1>1, <1>3 DEF CutAt, IsCut
<1>5. PICK r \in Nat : n = f + r
  <2>1. n - f \in Nat /\ n = f + (n - f)
    BY <1>2, <1>4
  <2> QED
    BY <2>1
<1>6. SentInView = SubSeq(sent, f + 1, f + r)
  BY <1>1, <1>5 DEF SentInView
<1>7. /\ SubSeq(sent, f + 1, f + r) \in Seq(Messages)
      /\ Len(SubSeq(sent, f + 1, f + r)) = r
      /\ \A i \in 1 .. r : SubSeq(sent, f + 1, f + r)[i] = sent[f + i]
  <2>1. f \in Nat /\ f + r <= Len(sent)
    BY <1>1, <1>2, <1>4, <1>5
  <2>2. \A s \in Seq(Messages) : \A p, k \in Nat : p + k <= Len(s) =>
          /\ SubSeq(s, p + 1, p + k) \in Seq(Messages)
          /\ Len(SubSeq(s, p + 1, p + k)) = k
          /\ \A i \in 1 .. k : SubSeq(s, p + 1, p + k)[i] = s[p + i]
    BY PieceOf
  <2> QED
    BY <1>2, <2>1, <2>2, Zenon
<1>8. n - f = r /\ f <= n /\ f \in Nat
  BY <1>2, <1>4, <1>5
<1>9. SentInView \in Seq(Messages) /\ Len(SentInView) = r
  BY <1>6, <1>7, Zenon
<1>10. \A i \in 1 .. Len(SentInView) : SentInView[i] = sent[f + i]
  BY <1>6, <1>7, Zenon
<1> QED
  BY <1>1, <1>3, <1>8, <1>9, <1>10, Zenon DEF ViewOK

\* The messages in view are the ones that begin after the capture did.
LEMMA InViewIs ==
  ASSUME RefInv, ViewOK, NEW k \in 1 .. Len(sent)
  PROVE  (join <= begins[k]) <=> (Skipped < k)
<1>1. begins[k] < join <=> k <= Skipped
  BY DEF ViewOK, CutAt, IsCut
<1>2. begins[k] \in Nat /\ join \in Nat /\ k \in Nat
  BY RefTypes, MessageFacts
<1>3. Skipped \in Nat
  BY DEF ViewOK
<1> QED
  BY <1>1, <1>2, <1>3

LEMMA LastAlways ==
  ASSUME Marked
  PROVE  RefInv => LastOK
<1> SUFFICES ASSUME RefInv PROVE LastOK
  OBVIOUS
<1>1. ViewOK /\ Sourced
  BY ViewAlways, SourcedAlways
<1>2. ASSUME frames # <<>>
      PROVE  LastRead \in 1 .. Len(SentInView) /\ Sources(Len(frames), Skipped + LastRead)
  <2>1. PICK d, f, v : d = Len(frames) /\ f = Skipped /\ v = Len(SentInView)
    OBVIOUS
  <2>2. d \in 1 .. Len(frames)
    BY <1>2, <2>1, RefTypes
  <2>3. PICK k \in 1 .. Len(sent) : ReadFrom(d, k) /\ join <= begins[k]
    BY <1>1, <2>2 DEF Sourced
  <2>4. f < k
    BY <1>1, <2>1, <2>3, InViewIs
  <2>5. f \in Nat /\ f <= Len(sent) /\ v = Len(sent) - f /\ Len(sent) \in Nat
    BY <1>1, <2>1, RefTypes DEF ViewOK
  <2>6. k - f \in 1 .. v /\ f + (k - f) = k
    BY <2>3, <2>4, <2>5
  <2>7. \E i \in 1 .. v : ReadFrom(d, f + i)
    BY <2>3, <2>6
  <2>8. LastRead = CHOOSE i \in 1 .. v : ReadFrom(d, f + i)
    BY <1>2, <2>1 DEF LastRead
  <2>9. LastRead \in 1 .. v /\ ReadFrom(d, f + LastRead)
    BY <2>7, <2>8
  <2>10. f + LastRead \in 1 .. Len(sent)
    BY <2>5, <2>9
  <2> QED
    BY <2>1, <2>2, <2>9, <2>10 DEF Sources
<1> QED
  BY <1>2 DEF LastOK, LastRead

-----------------------------------------------------------------------------
(* What the capture never handed on, and the messages in view it cost a    *)
(* byte.                                                                   *)
Missing == {x \in Nat : x < pos /\ x \notin Received}

Hurt(v, b, s, f, lost) ==
  {i \in 1 .. Len(v) :
     \E x \in b[f + i] .. (b[f + i] + V2GTP_HEADER_LEN + Len(s[f + i].body)) - 1 : x \in lost}

DamagedOK == DamagedInView = Hurt(SentInView, begins, sent, Skipped, Missing)

LEMMA DamagedAlways == RefInv => DamagedOK
<1> SUFFICES ASSUME RefInv PROVE DamagedOK
  OBVIOUS
<1>1. ASSUME NEW i \in 1 .. Len(SentInView)
      PROVE  Damaged(Skipped + i) <=>
               \E x \in begins[Skipped + i] ..
                        (begins[Skipped + i] + V2GTP_HEADER_LEN + Len(sent[Skipped + i].body)) - 1 :
                 x \in Missing
  <2>1. PICK k : k = Skipped + i
    OBVIOUS
  <2>2. k \in 1 .. Len(sent)
    <3>1. PICK f, v, n : f = Skipped /\ v = Len(SentInView) /\ n = Len(sent)
      OBVIOUS
    <3>2. f \in Nat /\ f <= n /\ v = n - f /\ n \in Nat
      BY <3>1, ViewAlways, RefTypes DEF ViewOK
    <3>3. i \in 1 .. v
      BY <3>1
    <3>4. f + i \in 1 .. n
      BY <3>2, <3>3
    <3> QED
      BY <2>1, <3>1, <3>4
  <2>3. begins[k] \in Nat /\ EndOf(k) \in Nat
    BY <2>2, MessageFacts
  <2>4. \A x \in begins[k] .. EndOf(k) - 1 : (x < pos /\ x \notin Received) <=> x \in Missing
    BY <2>3 DEF Missing
  <2>5. Damaged(k) <=> \E x \in begins[k] .. EndOf(k) - 1 : x \in Missing
    BY <2>4 DEF Damaged
  <2> QED
    BY <2>1, <2>5 DEF EndOf
<1> QED
  BY <1>1 DEF DamagedOK, DamagedInView, Hurt

(* The last message read stays the last while no frame is yielded and its  *)
(* source stays where it was.                                              *)
LEMMA LastKept ==
  ASSUME RefInv, ViewOK, ViewOK', LastOK, LastOK', Sourced', Skipped' = Skipped, frames' = frames,
         starts' = starts, Len(sent) <= Len(sent'), Len(sent') \in Nat,
         \A i \in 1 .. Len(where) : where'[i] = where[i],
         \A k \in 1 .. Len(sent) : begins'[k] = begins[k]
  PROVE  LastRead' = LastRead
<1>1. CASE frames = <<>>
  BY <1>1 DEF LastOK
<1>2. CASE frames # <<>>
  <2>1. PICK d, f, x, y : d = Len(frames) /\ f = Skipped /\ x = LastRead /\ y = LastRead'
    OBVIOUS
  <2>2. Sources(d, f + x) /\ x \in 1 .. Len(SentInView)
    BY <1>2, <2>1 DEF LastOK
  <2>3. /\ d \in 1 .. Len(frames) /\ f + x \in 1 .. Len(sent)
        /\ where[starts[d] + 2] = begins[f + x] + 1
    BY <2>2 DEF Sources, ReadFrom
  <2>4. starts[d] + 2 \in 1 .. Len(where)
    <3>1. PICK p, z : p = starts[d] /\ z = FrameEnd(d)
      OBVIOUS
    <3>2. p \in Nat /\ z \in Nat /\ p + 8 <= z /\ z <= Len(where)
      BY <2>3, <3>1, FrameFacts
    <3>3. Len(where) \in Nat
      BY RefTypes
    <3>4. p + 2 \in 1 .. Len(where)
      BY <3>2, <3>3
    <3> QED
      BY <3>1, <3>4
  <2>5. where'[starts'[d] + 2] = begins'[f + x] + 1
    BY <2>3, <2>4
  <2>6. f + x \in 1 .. Len(sent')
    BY <2>3, RefTypes
  <2>7. /\ d \in 1 .. Len(frames') /\ f + y \in 1 .. Len(sent')
        /\ where'[starts'[d] + 2] = begins'[f + y] + 1
    BY <1>2, <2>1 DEF LastOK, Sources, ReadFrom
  <2>8. \A i, k, l \in Nat :
          (/\ i \in 1 .. Len(frames') /\ k \in 1 .. Len(sent') /\ l \in 1 .. Len(sent')
           /\ where'[starts'[i] + 2] = begins'[k] + 1
           /\ where'[starts'[i] + 2] = begins'[l] + 1)
          => k = l
    <3>1. SourcesDiffer'
      BY DEF Sourced
    <3> QED
      BY <3>1 DEF SourcesDiffer, Sources, ReadFrom
  <2>9. f + x = f + y
    <3>1. d \in Nat /\ f + x \in Nat /\ f + y \in Nat
      BY <2>3, <2>6, <2>7
    <3> QED
      BY <2>3, <2>5, <2>6, <2>7, <2>8, <3>1
  <2>10. f \in Nat /\ x \in Nat /\ y \in Nat
    <3>1. f \in Nat /\ x \in Nat
      BY <2>1, <2>2 DEF ViewOK
    <3>2. y \in 1 .. Len(SentInView')
      BY <1>2, <2>1 DEF LastOK
    <3> QED
      BY <3>1, <3>2
  <2> QED
    BY <2>1, <2>9, <2>10
<1> QED
  BY <1>1, <1>2

(* A step that neither sends, loses nor yields anything is none of the     *)
(* channel.                                                                *)
LEMMA ViewStutter ==
  ASSUME RefInv, ViewOK, ViewOK', LastOK, LastOK', Sourced', DamagedOK, DamagedOK',
         UNCHANGED <<sent, begins, join, frames, starts>>,
         \A i \in 1 .. Len(where) : where'[i] = where[i],
         Missing' = Missing
  PROVE  UNCHANGED <<SentInView, DamagedInView, LastRead, frames>>
<1>1. Skipped' = Skipped
  BY DEF Skipped
<1>2. SentInView' = SentInView
  BY <1>1 DEF SentInView
<1>3. DamagedInView' = DamagedInView
  BY <1>1, <1>2 DEF DamagedOK
<1>4. LastRead' = LastRead
  <2>1. Len(sent) <= Len(sent') /\ Len(sent') \in Nat
    BY RefTypes
  <2>2. \A k \in 1 .. Len(sent) : begins'[k] = begins[k]
    OBVIOUS
  <2> QED
    BY <1>1, <2>1, <2>2, LastKept
<1> QED
  BY <1>2, <1>3, <1>4

LEMMA MissingCapture ==
  ASSUME RefInv, NEW n \in 1 .. Len(wire) - pos, Capture(n)
  PROVE  /\ Missing' = Missing
         /\ \A i \in 1 .. Len(where) : where'[i] = where[i]
<1>1. PICK N, w : N = Len(where) /\ w = where'
  OBVIOUS
<1>2. /\ n \in Nat /\ Len(w) = N + n /\ N \in Nat
      /\ \A i \in 1 .. N : w[i] = where[i]
      /\ \A i \in 1 .. n : w[N + i] = pos + i - 1
      /\ pos' = pos + n
  BY <1>1, CaptureAdds DEF RefInv
<1>3. pos \in Nat
  BY RefTypes
<1>4. Received' = {w[i] : i \in 1 .. N + n} /\ Received = {where[i] : i \in 1 .. N}
  BY <1>1, <1>2 DEF Received
<1>5. \A x \in Received : x \in Received' /\ x < pos
  <2>1. \A i \in 1 .. N : i \in 1 .. N + n
    BY <1>2
  <2>2. \A i \in 1 .. N : where[i] < pos
    BY <1>1, ByteFacts
  <2> QED
    BY <1>2, <1>4, <2>1, <2>2
<1>6. ASSUME NEW x \in Nat, x < pos + n, ~(x < pos) PROVE x \in Received'
  <2>1. (x - pos) + 1 \in 1 .. n /\ N + ((x - pos) + 1) \in 1 .. N + n
        /\ pos + ((x - pos) + 1) - 1 = x
    BY <1>2, <1>3, <1>6
  <2>2. w[N + ((x - pos) + 1)] = x
    BY <1>2, <2>1
  <2> QED
    BY <1>4, <2>1, <2>2
<1>7. ASSUME NEW x \in Received', x < pos PROVE x \in Received
  <2>1. PICK i \in 1 .. N + n : x = w[i]
    BY <1>4
  <2>2. CASE i \in 1 .. N
    BY <1>2, <1>4, <2>1, <2>2
  <2>3. CASE i \notin 1 .. N
    <3>1. PICK c \in 1 .. n : i = N + c
      <4>1. i - N \in 1 .. n /\ i = N + (i - N)
        BY <1>2, <2>3
      <4> QED
        BY <4>1
    <3>2. w[i] = pos + c - 1 /\ c \in Nat /\ 1 <= c
      BY <1>2, <3>1
    <3> QED
      BY <1>3, <1>7, <2>1, <3>2
  <2> QED
    BY <2>2, <2>3
<1>8. \A x \in Nat : (x < pos + n /\ x \notin Received') <=> (x < pos /\ x \notin Received)
  <2>1. \A x \in Nat : x < pos => x < pos + n
    BY <1>2, <1>3
  <2> QED
    BY <1>5, <1>6, <1>7, <2>1
<1>9. Missing' = {x \in Nat : x < pos + n /\ x \notin Received'}
  BY <1>2 DEF Missing
<1> QED
  BY <1>1, <1>2, <1>8, <1>9 DEF Missing

-----------------------------------------------------------------------------
Mapped == ViewOK /\ LastOK /\ Sourced /\ Gaps /\ DamagedOK

LEMMA MappedAlways ==
  ASSUME Marked
  PROVE  RefInv => Mapped
BY ViewAlways, LastAlways, SourcedAlways, DamagedAlways DEF Mapped

\* A message sent is one more in view, unless it ends before the capture begins.
LEMMA SimSend ==
  ASSUME RefInv, RefInv', Mapped, Mapped', NEW m \in Messages, Send(m)
  PROVE  \/ SentInView' = Append(SentInView, m) /\ UNCHANGED <<DamagedInView, LastRead, frames>>
         \/ UNCHANGED <<SentInView, DamagedInView, LastRead, frames>>
<1>1. /\ sent' = Append(sent, m) /\ begins' = Append(begins, Len(wire))
      /\ join' = join /\ pos' = pos /\ where' = where /\ frames' = frames /\ starts' = starts
  BY DEF Send, framerVars
<1>2. PICK n, f, g, l, v, u : /\ n = Len(sent) /\ f = Skipped /\ g = Skipped' /\ l = Len(wire)
                              /\ v = SentInView /\ u = SentInView'
  OBVIOUS
<1>3. /\ n \in Nat /\ l \in Nat /\ f \in Nat /\ f <= n /\ join \in Nat /\ pos \in Nat
      /\ Layout(sent, begins, wire) /\ IsCut(begins, join, n, f)
  BY <1>2, RefTypes DEF RefInv, Laid, Mapped, ViewOK, CutAt
<1>4. /\ Len(sent') = n + 1 /\ sent'[n + 1] = m /\ \A k \in 1 .. n : sent'[k] = sent[k]
      /\ begins'[n + 1] = l /\ \A k \in 1 .. n : begins'[k] = begins[k]
  <2>1. sent \in Seq(Messages) /\ begins \in Seq(Nat) /\ Len(begins) = n
    BY <1>2, RefTypes
  <2> QED
    BY <1>1, <1>2, <1>3, <2>1, Appended
<1>5. IsCut(Append(begins, l), join, n + 1, g) /\ g \in Nat
  BY <1>1, <1>2, <1>4 DEF Mapped, ViewOK, CutAt
<1>6. /\ v \in Seq(Messages) /\ Len(v) = n - f /\ \A i \in 1 .. Len(v) : v[i] = sent[f + i]
  BY <1>2 DEF Mapped, ViewOK
<1>7. /\ u \in Seq(Messages) /\ Len(u) = (n + 1) - g /\ \A i \in 1 .. Len(u) : u[i] = sent'[g + i]
  BY <1>2, <1>4 DEF Mapped, ViewOK
<1>8. /\ l < join => f = n /\ IsCut(Append(begins, l), join, n + 1, f + 1)
      /\ ~(l < join) => IsCut(Append(begins, l), join, n + 1, f)
  BY <1>2, <1>3, CutSend
<1>9. /\ DamagedInView = Hurt(v, begins, sent, f, Missing)
      /\ DamagedInView' = Hurt(u, begins', sent', g, Missing)
  <2>1. Missing' = Missing
    BY <1>1 DEF Missing, Received
  <2> QED
    BY <1>2, <2>1 DEF Mapped, DamagedOK
<1>10. CASE l < join
  <2>1. f = n /\ g = n + 1
    <3>1. n + 1 \in Nat
      BY <1>3
    <3> QED
      BY <1>5, <1>8, <1>10, <3>1, CutUnique
  <2>2. Len(v) = 0 /\ Len(u) = 0
    BY <1>3, <1>6, <1>7, <2>1
  <2>3. u = v
    BY <1>6, <1>7, <2>2
  <2>4. DamagedInView' = {} /\ DamagedInView = {}
    BY <1>9, <2>2 DEF Hurt
  <2>5. frames = <<>>
    BY <1>2, <2>2 DEF Mapped, LastOK
  <2>6. LastRead = 0 /\ LastRead' = 0
    BY <1>1, <2>5 DEF Mapped, LastOK
  <2> QED
    BY <1>1, <1>2, <2>3, <2>4, <2>6
<1>11. CASE ~(l < join)
  <2>1. g = f
    <3>1. n + 1 \in Nat
      BY <1>3
    <3> QED
      BY <1>5, <1>8, <1>11, <3>1, CutUnique
  <2>2. PICK r \in Nat : n = f + r
    <3>1. n - f \in Nat /\ n = f + (n - f)
      BY <1>3
    <3> QED
      BY <3>1
  <2>3. Len(v) = r /\ Len(u) = r + 1 /\ f + (r + 1) = n + 1
    BY <1>3, <1>6, <1>7, <2>1, <2>2
  <2>4. \A i \in 1 .. r : f + i \in 1 .. n
    BY <1>3, <2>2
  <2>5. \A i \in 1 .. r + 1 : i \in 1 .. r \/ i = r + 1
    BY <2>2
  <2>6. u = Append(v, m)
    <3>1. /\ Append(v, m) \in Seq(Messages) /\ Len(Append(v, m)) = r + 1
          /\ \A i \in 1 .. r : Append(v, m)[i] = v[i]
          /\ Append(v, m)[r + 1] = m
      BY <1>6, <2>3, Appended
    <3>2. ASSUME NEW i \in 1 .. r PROVE u[i] = v[i]
      <4>1. i \in 1 .. r + 1
        BY <2>2
      <4>2. u[i] = sent'[f + i] /\ v[i] = sent[f + i]
        BY <1>6, <1>7, <2>1, <2>3, <4>1
      <4> QED
        BY <1>4, <2>4, <4>2
    <3>3. u[r + 1] = m
      <4>1. r + 1 \in 1 .. r + 1
        BY <2>2
      <4>2. u[r + 1] = sent'[f + (r + 1)]
        BY <1>7, <2>1, <2>3, <4>1
      <4> QED
        BY <1>4, <2>3, <4>2
    <3>4. \A i \in 1 .. Len(u) : u[i] = Append(v, m)[i]
      BY <2>3, <2>5, <3>1, <3>2, <3>3, Zenon
    <3> QED
      BY <1>7, <2>3, <3>1, <3>4, SeqEqual
  <2>7. DamagedInView' = DamagedInView
    <3> DEFINE H(i, b, s) ==
                 \E x \in b[f + i] .. (b[f + i] + V2GTP_HEADER_LEN + Len(s[f + i].body)) - 1 : x \in Missing
    <3>1. \A i \in 1 .. r : H(i, begins', sent') <=> H(i, begins, sent)
      BY <1>4, <2>4
    <3>2. ~H(r + 1, begins', sent')
      <4>1. pos <= l
        BY <1>2, <1>3, <1>11 DEF RefInv
      <4>2. begins'[f + (r + 1)] = l
        BY <1>4, <2>3
      <4>3. PICK z : z = (l + V2GTP_HEADER_LEN + Len(sent'[f + (r + 1)].body)) - 1
        OBVIOUS
      <4>4. \A x \in l .. z : ~(x < pos)
        BY <1>3, <4>1
      <4>5. \A x \in l .. z : x \notin Missing
        BY <4>4 DEF Missing
      <4> QED
        BY <4>2, <4>3, <4>5
    <3>3. /\ DamagedInView = {i \in 1 .. r : H(i, begins, sent)}
          /\ DamagedInView' = {i \in 1 .. r + 1 : H(i, begins', sent')}
      BY <1>9, <2>1, <2>3 DEF Hurt
    <3>4. \A i \in 1 .. r : i \in 1 .. r + 1
      BY <2>2
    <3> HIDE DEF H
    <3> QED
      BY <2>5, <3>1, <3>2, <3>3, <3>4
  <2>8. LastRead' = LastRead
    <3>1. Len(sent) <= Len(sent') /\ Len(sent') \in Nat
      BY <1>2, <1>3, <1>4
    <3>2. \A k \in 1 .. Len(sent) : begins'[k] = begins[k]
      BY <1>2, <1>4
    <3>3. Skipped' = Skipped
      BY <1>2, <2>1
    <3> QED
      BY <1>1, <3>1, <3>2, <3>3, LastKept DEF Mapped
  <2> QED
    BY <1>1, <1>2, <2>6, <2>7, <2>8
<1> QED
  BY <1>10, <1>11

(* A loss damages only messages after the last one read: a message whose   *)
(* end has not come yet is not read, unless it is damaged already.         *)
LEMMA SimLose ==
  ASSUME RefInv, RefInv', Mapped, Mapped', NEW n \in 1 .. Len(wire) - pos, Lose(n)
  PROVE  /\ \E ks \in SUBSET (LastRead + 1 .. Len(SentInView)) :
              DamagedInView' = DamagedInView \cup ks
         /\ UNCHANGED <<SentInView, LastRead, frames>>
<1>1. /\ sent' = sent /\ begins' = begins /\ join' = join /\ where' = where /\ pos' = pos + n
      /\ frames' = frames /\ starts' = starts
  BY DEF Lose, framerVars
<1>2. Skipped' = Skipped
  BY <1>1 DEF Skipped
<1>3. SentInView' = SentInView
  BY <1>1, <1>2 DEF SentInView
<1>4. LastRead' = LastRead
  <2>1. Len(sent) <= Len(sent') /\ Len(sent') \in Nat
    BY <1>1, RefTypes
  <2>2. \A k \in 1 .. Len(sent) : begins'[k] = begins[k]
    BY <1>1
  <2> QED
    BY <1>1, <1>2, <2>1, <2>2, LastKept DEF Mapped
<1>5. PICK f, v, lost : f = Skipped /\ v = SentInView /\ lost = Missing'
  OBVIOUS
<1>6. /\ DamagedInView = Hurt(v, begins, sent, f, Missing)
      /\ DamagedInView' = Hurt(v, begins, sent, f, lost)
  BY <1>1, <1>2, <1>3, <1>5 DEF Mapped, DamagedOK
<1>7. \A x \in Missing : x \in lost
  <2>1. pos \in Nat /\ n \in Nat
    BY RefTypes
  <2>2. \A x \in Nat : x < pos => x < pos + n
    BY <2>1
  <2>3. lost = {x \in Nat : x < pos + n /\ x \notin Received}
    BY <1>1, <1>5 DEF Missing, Received
  <2> QED
    BY <2>2, <2>3 DEF Missing
<1>8. DamagedInView \subseteq DamagedInView'
  BY <1>6, <1>7 DEF Hurt
<1>9. ASSUME NEW i \in DamagedInView', i \notin DamagedInView
      PROVE  i \in LastRead + 1 .. Len(SentInView)
  <2>1. i \in 1 .. Len(v) /\ Len(v) \in Nat /\ f \in Nat /\ Len(v) = Len(sent) - f
        /\ f <= Len(sent) /\ Len(sent) \in Nat
    <3>1. i \in 1 .. Len(v)
      BY <1>6, <1>9 DEF Hurt
    <3>2. f \in Nat /\ v \in Seq(Messages) /\ Len(v) = Len(sent) - f /\ f <= Len(sent)
      BY <1>5 DEF Mapped, ViewOK
    <3>3. Len(sent) \in Nat
      BY RefTypes
    <3> QED
      BY <3>1, <3>2, <3>3
  <2>2. PICK k : k = f + i
    OBVIOUS
  <2>3. k \in 1 .. Len(sent)
    BY <2>1, <2>2
  <2>4. SUFFICES ASSUME ~(LastRead < i) PROVE FALSE
    <3>1. LastRead \in Nat
      <4>1. LastRead = 0 \/ LastRead \in 1 .. Len(v)
        BY <1>5 DEF Mapped, LastOK
      <4> QED
        BY <4>1
    <3> QED
      BY <1>5, <2>1, <2>4, <3>1
  <2>5. frames # <<>>
    <3>1. ~(0 < i) => FALSE
      BY <2>1
    <3> QED
      BY <2>4, <3>1 DEF Mapped, LastOK
  <2>6. PICK d, y, z : d = Len(frames) /\ y = LastRead /\ z = f + y
    OBVIOUS
  <2>7. y \in 1 .. Len(v) /\ Sources(d, z)
    BY <1>5, <2>5, <2>6 DEF Mapped, LastOK
  <2>8. d \in Nat /\ z \in 1 .. Len(sent) /\ z \in Nat
    BY <2>7, RefTypes DEF Sources
  <2>9. y \in Nat /\ i \in Nat /\ (i = y \/ i < y)
    BY <2>1, <2>4, <2>6, <2>7
  <2>10. ~Damaged(k)
    BY <1>5, <1>9, <2>1, <2>2 DEF DamagedInView
  <2>11. EndOf(k) <= pos
    <3>1. CASE i = y
      <4>1. k = z
        BY <2>2, <2>6, <3>1
      <4> QED
        BY <2>7, <2>8, <2>10, <4>1 DEF Mapped, Sourced, ReadUnaltered
    <3>2. CASE i < y
      <4>1. k < z
        BY <2>1, <2>2, <2>6, <2>9, <3>2
      <4>2. EndOf(k) <= begins[z] /\ EndOf(k) \in Nat /\ begins[z] \in Nat
        BY <2>3, <2>8, <4>1, MessageFacts
      <4>3. begins[z] < pos
        BY <2>7, <2>8 DEF Mapped, Sourced
      <4>4. pos \in Nat
        BY RefTypes
      <4> QED
        BY <4>2, <4>3, <4>4
    <3> QED
      BY <2>9, <3>1, <3>2
  <2>12. PICK x \in begins[k] .. EndOf(k) - 1 : x \in lost
    BY <1>6, <1>9, <2>2 DEF Hurt, EndOf
  <2>13. x \in Nat /\ x \notin Received
    BY <1>1, <1>5, <2>12 DEF Missing, Received
  <2>14. x < pos
    <3>1. EndOf(k) \in Nat /\ begins[k] \in Nat /\ pos \in Nat
      BY <2>3, MessageFacts, RefTypes
    <3> QED
      BY <2>11, <2>12, <3>1
  <2> QED
    BY <2>10, <2>12, <2>13, <2>14 DEF Damaged
<1>10. DamagedInView' = DamagedInView \cup (DamagedInView' \ DamagedInView)
  BY <1>8
<1>11. DamagedInView' \ DamagedInView \in SUBSET (LastRead + 1 .. Len(SentInView))
  BY <1>9
<1> QED
  BY <1>1, <1>3, <1>4, <1>10, <1>11

(* A frame yielded delivers its source, which comes after the last one,    *)
(* and passes over no message without a reason.                            *)
LEMMA SimYield ==
  ASSUME RefInv, RefInv', Mapped, Mapped', Yield, UNCHANGED flowVars
  PROVE  \E k \in LastRead + 1 .. Len(SentInView) : Channel!Deliver(k)
<1>1. /\ UNCHANGED <<sent, begins, join, where, pos>>
      /\ frames' = Append(frames, FrameAt(buf, 0)) /\ starts' = Append(starts, consumed)
  BY DEF Yield, flowVars
<1>2. Skipped' = Skipped
  BY <1>1 DEF Skipped
<1>3. SentInView' = SentInView
  BY <1>1, <1>2 DEF SentInView
<1>4. DamagedInView' = DamagedInView
  <2>1. Missing' = Missing
    BY <1>1 DEF Missing, Received
  <2> QED
    BY <1>1, <1>2, <1>3, <2>1 DEF Mapped, DamagedOK
<1>5. PICK d, f, v, n, y, z, q : /\ d = Len(frames) /\ f = Skipped /\ v = SentInView /\ n = Len(sent)
                                 /\ y = LastRead /\ z = LastRead' /\ q = frames'
  OBVIOUS
<1>6. /\ d \in Nat /\ frames \in Seq(Frame) /\ starts \in Seq(Nat) /\ Len(starts) = d
      /\ q \in Seq(Frame) /\ n \in Nat /\ consumed \in Nat
  <2>1. q \in Seq(Frame)
    BY <1>5 DEF RefInv, FlowIInv, FlowTypeOK, TypeOK
  <2> QED
    BY <1>5, <2>1, RefTypes
<1>7. /\ Len(q) = d + 1 /\ \A i \in 1 .. d : q[i] = frames[i]
  <2>1. PICK fr : fr = FrameAt(buf, 0)
    OBVIOUS
  <2>2. q = Append(frames, fr)
    BY <1>1, <1>5, <2>1
  <2> QED
    BY <1>5, <1>6, <2>2
<1>8. \A i \in 1 .. d : starts'[i] = starts[i]
  BY <1>1, <1>6, Appended
<1>9. /\ f \in Nat /\ f <= n /\ v \in Seq(Messages) /\ Len(v) = n - f /\ Len(v) \in Nat
      /\ \A i \in 1 .. Len(v) : v[i] = sent[f + i]
  <2>1. /\ f \in Nat /\ f <= n /\ v \in Seq(Messages) /\ Len(v) = n - f
        /\ \A i \in 1 .. Len(v) : v[i] = sent[f + i]
    BY <1>5 DEF Mapped, ViewOK
  <2> QED
    BY <2>1
<1> DEFINE S(i, k) == i \in 1 .. d + 1 /\ k \in 1 .. n /\ where[starts'[i] + 2] = begins[k] + 1
<1>10. \A i, k \in Nat : Sources(i, k)' <=> S(i, k)
  BY <1>1, <1>5, <1>7 DEF Sources, ReadFrom
<1>11. z \in 1 .. Len(v) /\ S(d + 1, f + z)
  <2>1. q # <<>>
    BY <1>6, <1>7
  <2>2. z \in 1 .. Len(v) /\ Sources(Len(frames), Skipped + LastRead)'
    BY <1>3, <1>5, <2>1 DEF Mapped, LastOK
  <2> QED
    BY <1>1, <1>2, <1>5, <1>7, <2>2 DEF Sources, ReadFrom
<1>12. \A i, j, k, l \in Nat : S(i, k) /\ S(j, l) /\ i < j => k < l
  <2>1. SourcesGrow'
    BY DEF Mapped, Sourced
  <2> QED
    BY <1>1, <1>5, <1>7, <2>1 DEF SourcesGrow, Sources, ReadFrom
<1>13. \A i, k, l \in Nat : S(i, k) /\ S(i, l) => k = l
  <2>1. SourcesDiffer'
    BY DEF Mapped, Sourced
  <2> QED
    BY <1>1, <1>5, <1>7, <2>1 DEF SourcesDiffer, Sources, ReadFrom
<1>14. frames # <<>> => y \in 1 .. Len(v) /\ S(d, f + y)
  <2> SUFFICES ASSUME frames # <<>> PROVE y \in 1 .. Len(v) /\ S(d, f + y)
    OBVIOUS
  <2>1. y \in 1 .. Len(v) /\ Sources(d, f + y)
    BY <1>5 DEF Mapped, LastOK
  <2>2. /\ d \in 1 .. d /\ f + y \in 1 .. n /\ where[starts[d] + 2] = begins[f + y] + 1
    BY <1>5, <2>1 DEF Sources, ReadFrom
  <2>3. d \in 1 .. d + 1
    BY <1>6, <2>2
  <2>4. starts'[d] = starts[d]
    BY <1>8, <2>2
  <2> QED
    BY <2>1, <2>2, <2>3, <2>4
<1>15. frames = <<>> => y = 0 /\ d = 0
  BY <1>5 DEF Mapped, LastOK
<1> HIDE DEF S
<1>16. y \in Nat /\ z \in Nat /\ f + y \in Nat /\ f + z \in Nat
  BY <1>9, <1>11, <1>14, <1>15
<1>17. y < z
  <2>1. CASE frames = <<>>
    BY <1>9, <1>11, <1>15, <2>1
  <2>2. CASE frames # <<>>
    <3>1. d < d + 1 /\ d + 1 \in Nat
      BY <1>6
    <3>2. f + y < f + z
      BY <1>6, <1>11, <1>12, <1>14, <1>16, <2>2, <3>1
    <3> QED
      BY <1>9, <1>16, <3>2
  <2> QED
    BY <2>1, <2>2
<1>18. z \in LastRead + 1 .. Len(SentInView)
  BY <1>5, <1>9, <1>11, <1>16, <1>17
<1>19. \A k : Damaged(k)' <=> Damaged(k)
  BY <1>1 DEF Damaged, EndOf, Received
<1>20. ASSUME NEW j \in y + 1 .. z - 1
       PROVE  \E e \in DamagedInView : e <= j
  <2>1. PICK J : J = f + j
    OBVIOUS
  <2>2. j \in Nat /\ y < j /\ j < z /\ z <= Len(v)
    BY <1>11, <1>16
  <2>3. J \in 1 .. n /\ J < f + z /\ f < J /\ f + y < J /\ J \in Nat
    BY <1>6, <1>9, <1>16, <2>1, <2>2
  <2>4. join <= begins[J]
    BY <1>5, <2>3, InViewIs DEF Mapped
  <2>5. \A x, k \in Nat : S(x, k) /\ x < d + 1 => k < J
    <3> SUFFICES ASSUME NEW x \in Nat, NEW k \in Nat, S(x, k), x < d + 1 PROVE k < J
      OBVIOUS
    <3>1. x \in 1 .. d
      BY <1>6 DEF S
    <3>2. frames # <<>>
      BY <1>6, <1>15, <3>1
    <3>3. S(d, f + y)
      BY <1>14, <3>2
    <3>4. x < d \/ x = d
      BY <1>6, <3>1
    <3>5. k < f + y \/ k = f + y
      BY <1>6, <1>12, <1>13, <1>16, <3>3, <3>4
    <3> QED
      BY <1>16, <2>3, <3>5
  <2>6. PICK e \in 1 .. n : e <= J /\ join <= begins[e] /\ Damaged(e)
    <3>1. \A i, k \in Nat : S(i, k) =>
            \A c \in 1 .. n : c < k /\ join <= begins[c] /\ (\A x, w \in Nat : S(x, w) /\ x < i => w < c) =>
              \E e \in 1 .. n : e <= c /\ join <= begins[e] /\ Damaged(e)
      <4>1. Gaps'
        BY DEF Mapped
      <4>2. \A i, k \in Nat : Sources(i, k)' =>
              \A c \in 1 .. n : c < k /\ join <= begins[c] => Explained(i, c)'
        BY <1>1, <1>5, <4>1 DEF Gaps
      <4>3. ASSUME NEW i \in Nat, NEW c \in 1 .. n, Explained(i, c)',
                   \A x, w \in Nat : S(x, w) /\ x < i => w < c
            PROVE  \E e \in 1 .. n : e <= c /\ join <= begins[e] /\ Damaged(e)
        <5>1. \A x, w \in Nat : Sources(x, w)' /\ x < i => w < c
          BY <1>10, <4>3
        <5>2. \E e \in 1 .. n : e <= c /\ join <= begins[e] /\ Damaged(e)'
          BY <1>1, <1>5, <4>3, <5>1 DEF Explained
        <5> QED
          BY <1>19, <5>2
      <4> QED
        BY <1>10, <4>2, <4>3
    <3>2. d + 1 \in Nat
      BY <1>6
    <3> QED
      BY <1>11, <1>16, <2>3, <2>4, <2>5, <3>1, <3>2
  <2>7. f < e
    BY <1>5, <2>6, InViewIs DEF Mapped
  <2>8. e - f \in 1 .. Len(v) /\ f + (e - f) = e /\ e - f <= j
    BY <1>6, <1>9, <2>1, <2>2, <2>6, <2>7
  <2>9. e - f \in DamagedInView
    BY <1>5, <2>6, <2>8 DEF DamagedInView
  <2> QED
    BY <2>8, <2>9
<1>21. z \notin DamagedInView => q[d + 1] = v[z]
  <2> SUFFICES ASSUME z \notin DamagedInView PROVE q[d + 1] = v[z]
    OBVIOUS
  <2>1. ~Damaged(f + z)
    BY <1>5, <1>11 DEF DamagedInView
  <2>2. ReadUnaltered'
    BY DEF Mapped, Sourced
  <2>3. d + 1 \in Nat
    BY <1>6
  <2>4. Sources(d + 1, f + z)' /\ ~Damaged(f + z)'
    BY <1>10, <1>11, <1>16, <1>19, <2>1, <2>3
  <2>5. q[d + 1] = sent[f + z]
    BY <1>1, <1>5, <1>16, <2>2, <2>3, <2>4 DEF ReadUnaltered
  <2> QED
    BY <1>9, <1>11, <2>5
<1>22. SubSeq(q, 1, d) = frames
  <2>1. PICK x : x = SubSeq(q, 1, d)
    OBVIOUS
  <2>2. SubSeq(q, 0 + 1, 0 + d) = x /\ 0 + d <= Len(q) /\ \A i \in 1 .. d : 0 + i = i
    BY <1>6, <1>7, <2>1
  <2>3. 0 \in Nat /\ d \in Nat /\ q \in Seq(Frame)
    BY <1>6
  <2>4. /\ SubSeq(q, 0 + 1, 0 + d) \in Seq(Frame) /\ Len(SubSeq(q, 0 + 1, 0 + d)) = d
        /\ \A i \in 1 .. d : SubSeq(q, 0 + 1, 0 + d)[i] = q[0 + i]
    BY <2>2, <2>3, PieceOf
  <2>5. x \in Seq(Frame) /\ Len(x) = d /\ \A i \in 1 .. d : x[i] = q[0 + i]
    BY <2>2, <2>4, Zenon
  <2>6. \A i \in 1 .. d : x[i] = frames[i]
    BY <1>7, <2>2, <2>5
  <2>7. Len(x) = Len(frames) /\ \A i \in 1 .. Len(x) : x[i] = frames[i]
    BY <1>5, <2>5, <2>6
  <2> QED
    BY <1>6, <2>1, <2>5, <2>7, SeqEqual
<1>23. Channel!Deliver(z)
  <2>1. \A j \in LastRead + 1 .. z - 1 : Channel!MayBeMissing(j)
    BY <1>5, <1>20 DEF Channel!MayBeMissing
  <2>2. Len(frames') = Len(frames) + 1 /\ SubSeq(frames', 1, Len(frames)) = frames
    BY <1>5, <1>7, <1>22
  <2>3. z \notin DamagedInView => frames'[Len(frames')] = SentInView[z]
    BY <1>5, <1>7, <1>21
  <2> QED
    BY <1>3, <1>4, <1>5, <2>1, <2>2, <2>3 DEF Channel!Deliver
<1> QED
  BY <1>18, <1>23

LEMMA SimNext ==
  ASSUME RefInv, RefInv', Mapped, Mapped', [Next]_vars
  PROVE  [Channel!Next]_(Channel!chanVars)
<1>1. ASSUME UNCHANGED <<SentInView, DamagedInView, LastRead, frames>>
      PROVE  [Channel!Next]_(Channel!chanVars)
  BY <1>1 DEF Channel!chanVars
<1>2. ASSUME UNCHANGED <<sent, begins, join, frames, starts>>,
             \A i \in 1 .. Len(where) : where'[i] = where[i], Missing' = Missing
      PROVE  [Channel!Next]_(Channel!chanVars)
  <2>1. UNCHANGED <<SentInView, DamagedInView, LastRead, frames>>
    BY <1>2, ViewStutter DEF Mapped
  <2> QED
    BY <1>1, <2>1
<1>3. ASSUME UNCHANGED <<sent, begins, join, frames, starts, where, pos>>
      PROVE  [Channel!Next]_(Channel!chanVars)
  <2>1. Missing' = Missing
    BY <1>3 DEF Missing, Received
  <2>2. \A i \in 1 .. Len(where) : where'[i] = where[i]
    BY <1>3
  <2> QED
    BY <1>2, <1>3, <2>1, <2>2
<1>4. ASSUME NEW m \in Messages, Send(m) PROVE [Channel!Next]_(Channel!chanVars)
  <2>1. CASE SentInView' = Append(SentInView, m) /\ UNCHANGED <<DamagedInView, LastRead, frames>>
    <3>1. Channel!Send(m)
      BY <2>1 DEF Channel!Send
    <3> QED
      BY <3>1 DEF Channel!Next
  <2> QED
    BY <1>1, <1>4, <2>1, SimSend
<1>5. ASSUME NEW n \in 1 .. Len(wire) - pos, Capture(n) PROVE [Channel!Next]_(Channel!chanVars)
  <2>1. Missing' = Missing /\ \A i \in 1 .. Len(where) : where'[i] = where[i]
    BY <1>5, MissingCapture
  <2>2. UNCHANGED <<sent, begins, join, frames, starts>>
    BY <1>5 DEF Capture, Packet, Feed
  <2> QED
    BY <1>2, <2>1, <2>2
<1>6. ASSUME NEW n \in 1 .. Len(wire) - pos, Lose(n) PROVE [Channel!Next]_(Channel!chanVars)
  <2>1. PICK ks \in SUBSET (LastRead + 1 .. Len(SentInView)) :
          DamagedInView' = DamagedInView \cup ks
    BY <1>6, SimLose
  <2>2. UNCHANGED <<SentInView, LastRead, frames>>
    BY <1>6, SimLose
  <2>3. Channel!Damage(ks)
    BY <2>1, <2>2 DEF Channel!Damage
  <2> QED
    BY <2>1, <2>3 DEF Channel!Next
<1>7. CASE FramerStep
  <2>1. CASE Yield
    <3>1. \E k \in LastRead + 1 .. Len(SentInView) : Channel!Deliver(k)
      BY <1>7, <2>1, SimYield DEF FramerStep
    <3> QED
      BY <3>1 DEF Channel!Next
  <2>2. CASE Resync \/ Suspend
    <3>1. UNCHANGED <<sent, begins, join, frames, starts, where, pos>>
      BY <1>7, <2>2 DEF FramerStep, flowVars, Resync, Suspend
    <3> QED
      BY <1>3, <3>1
  <2> QED
    BY <1>7, <2>1, <2>2 DEF FramerStep, Loop
<1>8. CASE UNCHANGED vars
  <2>1. UNCHANGED <<sent, begins, join, frames, starts, where, pos>>
    BY <1>8 DEF vars, framerVars, flowVars
  <2> QED
    BY <1>3, <2>1
<1> QED
  BY <1>4, <1>5, <1>6, <1>7, <1>8 DEF Next, Sending, Capturing, Losing

LEMMA SimInit ==
  ASSUME Init, RefInv, Mapped
  PROVE  Channel!Init
<1>1. sent = <<>> /\ frames = <<>>
  BY DEF Init, FramerInit
<1>2. SentInView = <<>>
  <2>1. PICK f, v, n : f = Skipped /\ v = SentInView /\ n = Len(sent)
    OBVIOUS
  <2>2. f \in Nat /\ f <= n /\ v \in Seq(Messages) /\ Len(v) = n - f
    BY <2>1 DEF Mapped, ViewOK
  <2>3. n = 0
    BY <1>1, <2>1
  <2>4. Len(v) = 0
    BY <2>2, <2>3
  <2> QED
    BY <2>1, <2>2, <2>4
<1>3. DamagedInView = {}
  BY <1>2 DEF DamagedInView
<1>4. LastRead = 0
  BY <1>1 DEF Mapped, LastOK
<1> QED
  BY <1>1, <1>2, <1>3, <1>4 DEF Channel!Init

(* The flow implements the message channel, losses included: a frame that  *)
(* _Framer.feed yields after pieces of the stream were lost may be made of *)
(* anything, and may swallow messages behind it, but a message all of      *)
(* which was captured comes out unaltered, in order and once if it comes   *)
(* out, and one is missing only behind a message that lost bytes.  It      *)
(* holds for any messages that have a single byte 254, any number of them, *)
(* of losses and of packets, and any place where the capture begins.       *)
THEOREM FlowRefinesChannel ==
  ASSUME Marked
  PROVE  Spec => RefinesChannel
<1>1. RefInv => Mapped
  BY MappedAlways
<1>2. Init /\ RefInv /\ Mapped => Channel!Init
  BY SimInit
<1>3. RefInv /\ RefInv' /\ Mapped /\ Mapped' /\ [Next]_vars => [Channel!Next]_(Channel!chanVars)
  BY SimNext
<1> QED
  BY <1>1, <1>2, <1>3, RefInvariant, PTL DEF Spec, RefinesChannel, Channel!Spec

=============================================================================
