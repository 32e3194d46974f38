------------------------ MODULE StreamDecoderProofs -------------------------
(***************************************************************************)
(* For any number of vehicles, chargers and packets, any message size and  *)
(* any start of the capture: the index column is dense and in order of     *)
(* completion, no role label is wrong, every flow is read as if it were    *)
(* alone, and between packets no complete message is left over.            *)
(***************************************************************************)
EXTENDS StreamDecoder, FiniteSetTheorems, SequenceTheorems, TLAPS

(* Cells cut out of the wire are cells.                                    *)
LEMMA CellsType ==
  ASSUME NEW f \in Flows, NEW from \in Nat, NEW n \in Nat
  PROVE  Cells(f, from, n) \in Seq(Cell)
<1>1. ASSUME NEW i \in 1 .. n PROVE CellAt(f, from + i - 1) \in Cell
  <2>1. PICK j \in Nat : j = from + i - 1
    OBVIOUS
  <2>2. j \div Parts \in Nat /\ j % Parts \in Nat
    BY PartsAssumption
  <2>3. QED
    BY <2>1, <2>2 DEF CellAt, Cell
<1>2. QED
  BY <1>1, SeqDef DEF Cells

(* A framer always holds cells.                                            *)
LEMMA FramerType ==
  ASSUME TypeOK, NEW f \in Flows
  PROVE  FramerOf(f) \in Seq(Cell)
BY DEF TypeOK, FramerOf, Key

LEMMA StoreType ==
  ASSUME TypeOK, NEW f \in Flows, NEW b \in Seq(Cell), Store(f, b)
  PROVE  DOMAIN framers' \subseteq Flows /\ framers' \in [DOMAIN framers' -> Seq(Cell)]
BY DEF TypeOK, Store, Key

LEMMA NoFlowIsFlow == NoFlow \in Flows
BY FlowsAssumption, Zenon DEF NoFlow

LEMMA SdpFramesType ==
  ASSUME NEW sdp \in SdpFrames
  PROVE  \/ sdp.kind = "request"
         \/ sdp.kind = "response" /\ sdp.endpoint \in SECCs
BY DEF SdpFrames, Request, Response

-----------------------------------------------------------------------------
LEMMA InitInv == Init => DecoderInv
<1>1. SUFFICES ASSUME Init PROVE DecoderInv
  OBVIOUS
<1> USE <1>1 DEF Init
<1>2. pos \in [Flows -> Nat]
  BY JoinsAssumption
<1>3. TypeOK
  BY <1>2, NoFlowIsFlow DEF TypeOK
<1>4. SeccIsLast /\ IndexIsOrder /\ RoleIsRight
  BY DEF SeccIsLast, LastHeard, IndexIsOrder, RoleIsRight
<1>5. QED
  BY <1>3, <1>4 DEF DecoderInv

(* A step that delivers no message and leaves the endpoint alone.          *)
LEMMA QuietStep ==
  ASSUME DecoderInv, TypeOK', UNCHANGED <<index, secc, records, heard>>
  PROVE  DecoderInv'
BY DEF DecoderInv, SeccIsLast, IndexIsOrder, RoleIsRight

LEMMA TcpPacketInv ==
  ASSUME DecoderInv, NEW f \in Flows, NEW n \in Nat, TcpPacket(f, n)
  PROVE  DecoderInv'
<1>1. TypeOK /\ pos[f] \in Nat
  BY DEF DecoderInv, TypeOK
<1>2. FramerOf(f) \o Cells(f, pos[f], n) \in Seq(Cell)
  BY <1>1, FramerType, CellsType, ConcatProperties
<1>3. DOMAIN framers' \subseteq Flows /\ framers' \in [DOMAIN framers' -> Seq(Cell)]
  BY <1>1, <1>2, StoreType DEF TcpPacket
<1>4. pos' \in [Flows -> Nat]
  BY <1>1 DEF TypeOK, TcpPacket
<1>5. TypeOK'
  BY <1>1, <1>3, <1>4 DEF TypeOK, TcpPacket
<1>6. QED
  BY <1>5, QuietStep DEF TcpPacket

LEMMA ResyncInv ==
  ASSUME DecoderInv, Resync
  PROVE  DecoderInv'
<1>1. TypeOK /\ flow \in Flows
  BY DEF DecoderInv, TypeOK
<1>2. Tail(FramerOf(flow)) \in Seq(Cell)
  BY <1>1, FramerType, HeadTailProperties DEF Resync
<1>3. DOMAIN framers' \subseteq Flows /\ framers' \in [DOMAIN framers' -> Seq(Cell)]
  BY <1>1, <1>2, StoreType DEF Resync
<1>4. TypeOK'
  BY <1>1, <1>3 DEF TypeOK, Resync
<1>5. QED
  BY <1>4, QuietStep DEF Resync

LEMMA TcpDoneInv ==
  ASSUME DecoderInv, TcpDone
  PROVE  DecoderInv'
<1>1. TypeOK'
  BY NoFlowIsFlow DEF DecoderInv, TypeOK, TcpDone
<1>2. QED
  BY <1>1, QuietStep DEF TcpDone

LEMMA SdpDatagramInv ==
  ASSUME DecoderInv, NEW fs \in Datagrams, SdpDatagram(fs)
  PROVE  DecoderInv'
<1>1. fs \in Seq(SdpFrames)
  <2>1. CASE \E a \in SdpFrames : fs = <<a>>
    <3>1. PICK a \in SdpFrames : fs = <<a>>
      BY <2>1
    <3>2. QED
      BY <3>1
  <2>2. CASE \E a, b \in SdpFrames : fs = <<a, b>>
    <3>1. PICK a \in SdpFrames, b \in SdpFrames : fs = <<a, b>>
      BY <2>2
    <3>2. QED
      BY <3>1
  <2>3. QED
    BY <2>1, <2>2 DEF Datagrams
<1>2. TypeOK'
  BY <1>1 DEF DecoderInv, TypeOK, SdpDatagram
<1>3. QED
  BY <1>2, QuietStep DEF SdpDatagram

LEMMA SdpDoneInv ==
  ASSUME DecoderInv, SdpDone
  PROVE  DecoderInv'
<1>1. TypeOK'
  BY DEF DecoderInv, TypeOK, SdpDone
<1>2. QED
  BY <1>1, QuietStep DEF SdpDone

-----------------------------------------------------------------------------
(* A delivered message is a record, numbered with the count of those       *)
(* before it.                                                              *)
LEMMA MessageType ==
  ASSUME DecoderInv, Message
  PROVE  TypeOK'
<1>1. TypeOK /\ flow \in Flows /\ index \in Nat /\ records \in Seq(Record)
  BY DEF DecoderInv, TypeOK
<1>2. PICK b : b = FramerOf(flow)
  OBVIOUS
<1>3. b \in Seq(Cell)
  BY <1>1, <1>2, FramerType
<1>4. Len(b) >= Parts /\ Len(b) \in Nat
  BY <1>2, <1>3 DEF Message, Holds
<1>5. SubSeq(b, 1, Parts) \in Seq(Cell)
  BY <1>3, <1>4, PartsAssumption, SubSeqProperties
<1>6. SubSeq(b, Parts + 1, Len(b)) \in Seq(Cell)
  BY <1>3, <1>4, PartsAssumption, SubSeqProperties
<1>7. DOMAIN framers' \subseteq Flows /\ framers' \in [DOMAIN framers' -> Seq(Cell)]
  <2>1. Store(flow, SubSeq(b, Parts + 1, Len(b)))
    BY <1>2 DEF Message
  <2>2. QED
    BY <1>1, <1>6, <2>1, StoreType
<1>8. records' \in Seq(Record)
  <2>1. heard \in Seq(SECCs) /\ Direction(flow, secc) \in {"EVCC->SECC", "SECC->EVCC", "ports"}
    BY <1>1 DEF TypeOK, Direction
  <2>2. [flow |-> flow, cells |-> SubSeq(b, 1, Parts), index |-> index,
         direction |-> Direction(flow, secc), heard |-> heard] \in Record
    BY <1>1, <1>5, <2>1 DEF Record
  <2>3. records' = Append(records,
          [flow |-> flow, cells |-> SubSeq(b, 1, Parts), index |-> index,
           direction |-> Direction(flow, secc), heard |-> heard])
    BY <1>2 DEF Message
  <2>4. QED
    BY <1>1, <2>2, <2>3
<1>9. index' \in Nat
  BY <1>1 DEF Message, After
<1>10. QED
  BY <1>1, <1>7, <1>8, <1>9 DEF TypeOK, Message

LEMMA MessageInv ==
  ASSUME DecoderInv, Message
  PROVE  DecoderInv'
<1>1. /\ SeccIsLast /\ IndexIsOrder /\ RoleIsRight
      /\ records \in Seq(Record) /\ index \in Nat
  BY DEF DecoderInv, TypeOK
<1>2. PICK r : /\ records' = Append(records, r)
               /\ r.flow = flow /\ r.index = index
               /\ r.direction = Direction(flow, secc) /\ r.heard = heard
  BY DEF Message
<1>3. /\ Len(records') = Len(records) + 1
      /\ records'[Len(records) + 1] = r
      /\ \A i \in 1 .. Len(records) : records'[i] = records[i]
  BY <1>1, <1>2
<1>4. IndexIsOrder'
  <2>1. index' = Len(records')
    BY <1>1, <1>3 DEF IndexIsOrder, Message, After
  <2>2. ASSUME NEW i \in 1 .. Len(records') PROVE records'[i].index = i - 1
    <3>1. CASE i = Len(records) + 1
      BY <1>1, <1>2, <1>3, <3>1 DEF IndexIsOrder
    <3>2. CASE i \in 1 .. Len(records)
      BY <1>1, <1>3, <3>2 DEF IndexIsOrder
    <3>3. QED
      BY <1>1, <1>3, <3>1, <3>2
  <2>3. QED
    BY <2>1, <2>2 DEF IndexIsOrder
<1>5. RightRole(r)
  <2>1. flow[1] # flow[2] /\ NoEndpoint \notin {flow[1], flow[2]}
    <3>1. flow \in (EVs \X SECCs) \cup (SECCs \X EVs)
      BY FlowsAssumption DEF DecoderInv, TypeOK
    <3> QED
      BY <3>1, EndpointsAssumption
  <2>2. LastHeard(r.heard) = secc
    BY <1>1, <1>2 DEF SeccIsLast
  <2> QED
    BY <1>2, <2>1, <2>2, Zenon DEF RightRole, Direction
<1>6. RoleIsRight'
  <2>1. ASSUME NEW i \in 1 .. Len(records') PROVE RightRole(records'[i])
    <3>1. CASE i = Len(records) + 1
      BY <1>3, <1>5, <3>1
    <3>2. CASE i \in 1 .. Len(records)
      BY <1>1, <1>3, <3>2 DEF RoleIsRight
    <3> QED
      BY <1>1, <1>3, <3>1, <3>2
  <2> QED
    BY <2>1 DEF RoleIsRight, RightRole, LastHeard
<1>7. SeccIsLast'
  BY <1>1 DEF SeccIsLast, Message
<1>8. QED
  BY <1>4, <1>6, <1>7, MessageType DEF DecoderInv

LEMMA SdpFrameInv ==
  ASSUME DecoderInv, SdpFrame
  PROVE  DecoderInv'
<1>1. /\ TypeOK /\ SeccIsLast /\ IndexIsOrder /\ RoleIsRight
      /\ heard \in Seq(SECCs) /\ datagram \in Seq(SdpFrames) /\ datagram # <<>>
      /\ secc \in SECCs \cup {NoEndpoint}
  BY DEF DecoderInv, TypeOK, SdpFrame
<1>2. PICK sdp \in SdpFrames : sdp = Head(datagram)
  BY <1>1, HeadTailProperties
<1>3. datagram' \in Seq(SdpFrames)
  BY <1>1, HeadTailProperties DEF SdpFrame
<1>4. CASE sdp.kind = "request"
  <2>1. secc' = secc /\ heard' = heard
    BY <1>2, <1>4 DEF SdpFrame, EndpointAfter
  <2>2. TypeOK'
    BY <1>1, <1>3, <2>1 DEF TypeOK, SdpFrame
  <2>3. QED
    BY <2>1, <2>2, QuietStep DEF SdpFrame
<1>5. CASE sdp.kind = "response" /\ sdp.endpoint \in SECCs
  <2>1. secc' = sdp.endpoint /\ heard' = Append(heard, sdp.endpoint)
    BY <1>2, <1>5 DEF SdpFrame, EndpointAfter
  <2>2. TypeOK'
    BY <1>1, <1>3, <1>5, <2>1 DEF TypeOK, SdpFrame
  <2>3. SeccIsLast'
    <3>1. heard' # <<>> /\ heard'[Len(heard')] = sdp.endpoint
      BY <1>1, <1>5, <2>1
    <3> QED
      BY <2>1, <3>1 DEF SeccIsLast, LastHeard
  <2>4. IndexIsOrder' /\ RoleIsRight'
    BY <1>1 DEF SdpFrame, IndexIsOrder, RoleIsRight, RightRole, LastHeard
  <2>5. QED
    BY <2>2, <2>3, <2>4 DEF DecoderInv
<1>6. QED
  BY <1>2, <1>4, <1>5, SdpFramesType

LEMMA NextInv ==
  ASSUME DecoderInv, [Next]_vars
  PROVE  DecoderInv'
<1>1. CASE TcpArrives
  <2>1. PICK f \in Flows : \E n \in 1 .. MaxMessages * Parts - pos[f] : TcpPacket(f, n)
    BY <1>1 DEF TcpArrives
  <2>2. pos[f] \in Nat /\ MaxMessages * Parts \in Nat
    BY PartsAssumption, BoundsAssumption DEF DecoderInv, TypeOK
  <2>3. PICK n \in Nat : TcpPacket(f, n)
    BY <2>1, <2>2
  <2>4. QED
    BY <2>3, TcpPacketInv
<1>2. CASE Resync
  BY <1>2, ResyncInv
<1>3. CASE Message
  BY <1>3, MessageInv
<1>4. CASE TcpDone
  BY <1>4, TcpDoneInv
<1>5. CASE SdpArrives
  BY <1>5, SdpDatagramInv DEF SdpArrives
<1>6. CASE SdpFrame
  BY <1>6, SdpFrameInv
<1>7. CASE SdpDone
  BY <1>7, SdpDoneInv
<1>8. CASE UNCHANGED vars
  <2>1. TypeOK'
    BY <1>8 DEF DecoderInv, TypeOK, vars
  <2>2. QED
    BY <1>8, <2>1, QuietStep DEF vars
<1>9. QED
  BY <1>1, <1>2, <1>3, <1>4, <1>5, <1>6, <1>7, <1>8 DEF Next

(* The decoder's inductive invariant: types, the numbering, the labels and *)
(* that the endpoint in use is one that SDP announced, which is what makes *)
(* a label right when it is given.                                         *)
THEOREM DecoderInvariant == Spec => []DecoderInv
BY InitInv, NextInv, PTL DEF Spec

(* Every variable of V2gStreamDecoder keeps its type.                      *)
THEOREM DecoderTypes == Spec => []TypeOK
<1>1. DecoderInv => TypeOK
  BY DEF DecoderInv
<1>2. QED
  BY <1>1, DecoderInvariant, PTL

(* The index column is dense and in order of completion over all flows.    *)
THEOREM IndexDense == Spec => []IndexIsOrder
<1>1. DecoderInv => IndexIsOrder
  BY DEF DecoderInv
<1>2. QED
  BY <1>1, DecoderInvariant, PTL

(* A message labelled with roles belongs to a flow of a charger that had   *)
(* announced itself, and the roles are the right way round.                *)
THEOREM RoleNeverWrong == Spec => []RoleIsRight
<1>1. DecoderInv => RoleIsRight
  BY DEF DecoderInv
<1>2. QED
  BY <1>1, DecoderInvariant, PTL

-----------------------------------------------------------------------------
(* Whole messages are multiples of Parts cells: at most one boundary lies  *)
(* in any Parts successive offsets.                                        *)
LEMMA NextBoundary ==
  ASSUME NEW m \in Int, NEW n \in Int, m < n
  PROVE  m * Parts + Parts <= n * Parts
<1>1. PICK d \in Nat : n = m + 1 + d
  BY n - (m + 1) \in Nat
<1>2. n * Parts = m * Parts + Parts + d * Parts
  BY <1>1, PartsAssumption
<1>3. d * Parts >= 0
  BY PartsAssumption
<1> QED
  BY <1>2, <1>3, PartsAssumption

LEMMA BoundaryDivision ==
  ASSUME NEW k \in Nat, NEW x \in Int, k * Parts <= x, x < k * Parts + Parts
  PROVE  x \div Parts = k
<1> DEFINE q == x \div Parts
           r == x % Parts
<1>1. q \in Int /\ r \in Int /\ x = q * Parts + r /\ 0 <= r /\ r < Parts
  BY PartsAssumption
<1> HIDE DEF q, r
<1>2. q * Parts \in Int /\ k * Parts \in Int
  BY <1>1, PartsAssumption
<1>3. ~(q < k)
  BY <1>1, <1>2, NextBoundary, PartsAssumption
<1>4. ~(k < q)
  BY <1>1, <1>2, NextBoundary, PartsAssumption
<1> QED
  BY <1>1, <1>3, <1>4 DEF q

(* Where a whole message may begin before offset x of a stream.            *)
LEMMA Boundary ==
  ASSUME NEW k \in Nat, NEW x \in Nat, x <= k * Parts, k * Parts < x + Parts
  PROVE  (x % Parts = 0) <=> (x = k * Parts)
<1> DEFINE q == x \div Parts
           r == x % Parts
<1>1. q \in Nat /\ r \in Nat /\ x = q * Parts + r /\ r < Parts
  BY PartsAssumption
<1> HIDE DEF q, r
<1>2. q * Parts \in Int /\ k * Parts \in Int
  BY <1>1, PartsAssumption
<1>3. ASSUME r = 0
      PROVE  x = k * Parts
  <2>1. ~(q < k)
    BY <1>1, <1>2, <1>3, NextBoundary, PartsAssumption
  <2>2. ~(k < q)
    BY <1>1, <1>2, <1>3, NextBoundary, PartsAssumption
  <2>3. q = k
    BY <1>1, <2>1, <2>2
  <2> QED
    BY <1>1, <1>2, <1>3, <2>3
<1>4. ASSUME x = k * Parts
      PROVE  r = 0
  <2>1. q = k
    BY <1>1, <1>2, <1>4, BoundaryDivision, PartsAssumption DEF q
  <2> QED
    BY <1>1, <1>2, <1>4, <2>1
<1> QED
  BY <1>3, <1>4 DEF r

(* The first message of a flow that the capture sees whole begins at the   *)
(* first boundary from where the capture began.                            *)
LEMMA FirstWhole ==
  ASSUME TypeOK, NEW f \in Flows
  PROVE  /\ First(f) \in Nat
         /\ First(f) - 1 \in Nat
         /\ join[f] \in Nat
         /\ join[f] <= (First(f) - 1) * Parts
         /\ (First(f) - 1) * Parts < join[f] + Parts
<1> DEFINE q == join[f] \div Parts
           r == join[f] % Parts
<1>1. join[f] \in Nat
  BY JoinsAssumption DEF TypeOK
<1>2. q \in Nat /\ r \in Nat /\ join[f] = q * Parts + r /\ r < Parts
  BY <1>1, PartsAssumption
<1>3. First(f) = IF r = 0 THEN q + 1 ELSE q + 2
  BY DEF First
<1> HIDE DEF q, r
<1>4. CASE r = 0
  <2>1. First(f) \in Nat /\ First(f) - 1 = q
    BY <1>2, <1>3, <1>4
  <2> QED
    BY <1>1, <1>2, <1>4, <2>1, PartsAssumption
<1>5. CASE r # 0
  <2>1. First(f) \in Nat /\ First(f) - 1 = q + 1
    BY <1>2, <1>3, <1>5
  <2>2. (q + 1) * Parts = q * Parts + Parts
    BY <1>2, PartsAssumption
  <2> QED
    BY <1>1, <1>2, <1>5, <2>1, <2>2, PartsAssumption
<1> QED
  BY <1>4, <1>5

-----------------------------------------------------------------------------
(* Runs of cells of one flow.                                              *)
LEMMA CellsAt ==
  ASSUME NEW f \in Flows, NEW from \in Nat, NEW n \in Nat
  PROVE  /\ DOMAIN Cells(f, from, n) = 1 .. n
         /\ Len(Cells(f, from, n)) = n
         /\ \A i \in 1 .. n : Cells(f, from, n)[i] = CellAt(f, from + i - 1)
<1>1. Cells(f, from, n) = [i \in 1 .. n |-> CellAt(f, from + i - 1)]
  BY DEF Cells
<1>2. Cells(f, from, n) \in Seq(Cell)
  BY CellsType
<1>3. DOMAIN Cells(f, from, n) = 1 .. n
  BY <1>1
<1>4. Len(Cells(f, from, n)) = n
  BY <1>2, <1>3
<1> QED
  BY <1>1, <1>3, <1>4

LEMMA CellsConcat ==
  ASSUME NEW f \in Flows, NEW from \in Nat, NEW m \in Nat, NEW n \in Nat
  PROVE  Cells(f, from, m) \o Cells(f, from + m, n) = Cells(f, from, m + n)
<1>0. PICK mid \in Nat, len \in Nat : mid = from + m /\ len = m + n
  OBVIOUS
<1> DEFINE a == Cells(f, from, m)
           b == Cells(f, mid, n)
           c == Cells(f, from, len)
<1>1. a \in Seq(Cell) /\ b \in Seq(Cell) /\ c \in Seq(Cell)
  BY CellsType
<1>2. Len(a) = m /\ Len(b) = n /\ Len(c) = len /\ len = m + n
  BY <1>0, CellsAt
<1>3. \A i \in 1 .. m : a[i] = CellAt(f, from + i - 1)
  BY CellsAt
<1>4. \A i \in 1 .. n : b[i] = CellAt(f, mid + i - 1)
  BY CellsAt
<1>5. \A i \in 1 .. len : c[i] = CellAt(f, from + i - 1)
  BY CellsAt
<1> HIDE DEF a, b, c
<1> DEFINE s == a \o b
<1>6. /\ s \in Seq(Cell) /\ Len(s) = Len(c)
      /\ \A i \in 1 .. len : s[i] = IF i <= m THEN a[i] ELSE b[i - m]
  BY <1>1, <1>2, ConcatProperties
<1> HIDE DEF s
<1>7. ASSUME NEW i \in 1 .. len PROVE s[i] = c[i]
  <2>1. CASE i <= m
    <3>1. i \in 1 .. m
      BY <2>1
    <3>2. s[i] = a[i]
      BY <1>6, <2>1
    <3> QED
      BY <1>3, <1>5, <3>1, <3>2
  <2>2. CASE i > m
    <3>1. PICK j \in 1 .. n : j = i - m
      BY <1>2, <2>2
    <3>2. mid + j - 1 = from + i - 1
      BY <1>0, <3>1
    <3>3. s[i] = b[j]
      BY <1>6, <2>2, <3>1
    <3>4. b[j] = CellAt(f, mid + j - 1)
      BY <1>4
    <3> QED
      BY <1>5, <3>2, <3>3, <3>4
  <2> QED
    BY <2>1, <2>2
<1>8. s = c
  BY <1>1, <1>2, <1>6, <1>7, SeqEqual
<1> QED
  BY <1>0, <1>8 DEF s, a, b, c

LEMMA CellsCut ==
  ASSUME NEW f \in Flows, NEW from \in Nat, NEW n \in Nat, NEW k \in 0 .. n
  PROVE  /\ SubSeq(Cells(f, from, n), 1, k) = Cells(f, from, k)
         /\ SubSeq(Cells(f, from, n), k + 1, n) = Cells(f, from + k, n - k)
<1>0. PICK mid \in Nat, left \in Nat : mid = from + k /\ left = n - k
  OBVIOUS
<1> DEFINE s == Cells(f, from, n)
           a == Cells(f, from, k)
           b == Cells(f, mid, left)
<1>1. s \in Seq(Cell) /\ a \in Seq(Cell) /\ b \in Seq(Cell)
  <2>1. k \in Nat
    OBVIOUS
  <2>2. s \in Seq(Cell)
    BY CellsType
  <2>3. a \in Seq(Cell)
    BY <2>1, CellsType
  <2>4. b \in Seq(Cell)
    BY CellsType
  <2> QED
    BY <2>2, <2>3, <2>4
<1>2. Len(s) = n /\ Len(a) = k /\ Len(b) = left
  BY CellsAt
<1>3. \A i \in 1 .. n : s[i] = CellAt(f, from + i - 1)
  BY CellsAt
<1>4. \A i \in 1 .. k : a[i] = CellAt(f, from + i - 1)
  BY CellsAt
<1>5. \A i \in 1 .. left : b[i] = CellAt(f, mid + i - 1)
  BY CellsAt
<1> HIDE DEF s, a, b
<1>6. /\ SubSeq(s, 1, k) \in Seq(Cell) /\ Len(SubSeq(s, 1, k)) = k
      /\ \A i \in 1 .. k : SubSeq(s, 1, k)[i] = s[i]
  BY <1>1, <1>2, SubSeqProperties
<1>7. SubSeq(s, 1, k) = a
  BY <1>1, <1>2, <1>3, <1>4, <1>6, SeqEqual
<1>8. /\ SubSeq(s, k + 1, n) \in Seq(Cell) /\ Len(SubSeq(s, k + 1, n)) = left
      /\ \A i \in 1 .. left : SubSeq(s, k + 1, n)[i] = s[k + i]
  BY <1>0, <1>1, <1>2, SubSeqProperties
<1>9. ASSUME NEW i \in 1 .. left
      PROVE  SubSeq(s, k + 1, n)[i] = b[i]
  <2>1. k + i \in 1 .. n /\ from + (k + i) - 1 = mid + i - 1
    BY <1>0
  <2>2. s[k + i] = CellAt(f, mid + i - 1)
    BY <1>3, <2>1
  <2> QED
    BY <1>5, <1>8, <2>2
<1>10. SubSeq(s, k + 1, n) = b
  BY <1>1, <1>2, <1>8, <1>9, SeqEqual
<1> QED
  BY <1>0, <1>7, <1>10 DEF s, a, b

LEMMA CellsTail ==
  ASSUME NEW f \in Flows, NEW from \in Nat, NEW n \in Nat \ {0}
  PROVE  Tail(Cells(f, from, n)) = Cells(f, from + 1, n - 1)
<1>1. Cells(f, from, n) \in Seq(Cell) /\ Len(Cells(f, from, n)) = n
  BY CellsType, CellsAt
<1>2. Tail(Cells(f, from, n)) = SubSeq(Cells(f, from, n), 1 + 1, n)
  BY <1>1, TailIsSubSeq
<1>3. SubSeq(Cells(f, from, n), 1 + 1, n) = Cells(f, from + 1, n - 1)
  BY CellsCut, 1 \in 0 .. n
<1> QED
  BY <1>2, <1>3

-----------------------------------------------------------------------------
(* How the records of a flow are counted when one is delivered.            *)
LEMMA CountNat ==
  ASSUME NEW f, NEW n \in Nat
  PROVE  Count(f, n) \in Nat
<1> DEFINE S == {j \in 1 .. n : records[j].flow = f}
<1>1. IsFiniteSet(1 .. n)
  BY FS_Interval
<1>2. IsFiniteSet(S)
  BY <1>1, FS_Subset, S \subseteq 1 .. n
<1> QED
  BY <1>2, FS_CardinalityType DEF Count

LEMMA CountDelivered ==
  ASSUME records \in Seq(Record), NEW r, records' = Append(records, r), NEW f
  PROVE  /\ \A i \in 0 .. Len(records) : Count(f, i)' = Count(f, i)
         /\ r.flow = f => Count(f, Len(records))' = Count(f, Len(records)) + 1
         /\ r.flow # f => Count(f, Len(records))' = Count(f, Len(records))
<1>0. PICK n \in Nat : n = Len(records)
  OBVIOUS
<1> DEFINE S(m) == {j \in 1 .. m : records[j].flow = f}
           T(m) == {j \in 1 .. m : records'[j].flow = f}
<1>1. Len(records') = n + 1 /\ records'[n + 1] = r /\ \A j \in 1 .. n : records'[j] = records[j]
  BY <1>0
<1>2. ASSUME NEW i \in 0 .. n PROVE Count(f, i)' = Count(f, i)
  <2>1. T(i) = S(i)
    BY <1>1
  <2> QED
    BY <2>1 DEF Count
<1>3. CASE r.flow = f
  <2>1. T(n + 1) = S(n) \cup {n + 1}
    BY <1>0, <1>1, <1>3
  <2>2. IsFiniteSet(S(n)) /\ n + 1 \notin S(n)
    <3>1. IsFiniteSet(1 .. n)
      BY <1>0, FS_Interval
    <3>2. S(n) \subseteq 1 .. n /\ n + 1 \notin 1 .. n
      BY <1>0
    <3> QED
      BY <3>1, <3>2, FS_Subset
  <2>3. Cardinality(T(n + 1)) = Cardinality(S(n)) + 1
    BY <2>1, <2>2, FS_AddElement
  <2> QED
    BY <1>0, <1>1, <1>2, <1>3, <2>3 DEF Count
<1>4. CASE r.flow # f
  <2>1. T(n + 1) = S(n)
    BY <1>0, <1>1, <1>4
  <2> QED
    BY <1>0, <1>1, <1>2, <1>4, <2>1 DEF Count
<1> QED
  BY <1>0, <1>2, <1>3, <1>4

-----------------------------------------------------------------------------
(* What a framer holds is the stretch of its own flow from the first cell  *)
(* it has not dealt with to the last one that arrived.  The next message   *)
(* begins at the first boundary in that stretch, and cells stand before it *)
(* only as long as the flow has delivered nothing: they are the rest of    *)
(* the message during which the capture began.                             *)
At(f)  == pos[f] - Len(FramerOf(f))
Due(f) == (First(f) - 1 + Count(f, Len(records))) * Parts

InStep(f) ==
  /\ At(f) \in Nat
  /\ FramerOf(f) = Cells(f, At(f), Len(FramerOf(f)))
  /\ At(f) <= Due(f) /\ Due(f) < At(f) + Parts
  /\ At(f) < Due(f) => Count(f, Len(records)) = 0

\* Nothing is left that the framer's loop would take up.
Quiet(f) == FramerOf(f) # <<>> => IsHeader(FramerOf(f)[1]) /\ ~Holds(FramerOf(f))

ApartInv ==
  /\ FlowsApart
  /\ \A f \in Flows : InStep(f)
  /\ \A f \in Flows : Quiet(f) \/ (pc = "tcp" /\ f = flow)

LEMMA StoreOwn ==
  ASSUME NEW f \in Flows, NEW b, Store(f, b)
  PROVE  /\ FramerOf(f)' = b
         /\ \A g \in Flows : g # f => FramerOf(g)' = FramerOf(g)
BY DEF Store, FramerOf, Key

(* A flow of which nothing arrives and nothing is delivered.               *)
LEMMA OtherFlow ==
  ASSUME NEW f \in Flows, InStep(f), FramerOf(f)' = FramerOf(f), pos'[f] = pos[f],
         Count(f, Len(records))' = Count(f, Len(records)), join' = join
  PROVE  InStep(f)' /\ (Quiet(f) => Quiet(f)')
<1>1. At(f)' = At(f) /\ Due(f)' = Due(f)
  BY DEF At, Due, First
<1> QED
  BY <1>1 DEF InStep, Quiet

LEMMA RecordsApart ==
  ASSUME FlowsApart, UNCHANGED <<records, join>>
  PROVE  FlowsApart'
BY DEF FlowsApart, First, Count

LEMMA DueType ==
  ASSUME TypeOK, NEW f \in Flows
  PROVE  /\ First(f) - 1 + Count(f, Len(records)) \in Nat
         /\ Due(f) = (First(f) - 1 + Count(f, Len(records))) * Parts
         /\ Due(f) \in Nat
<1>1. PICK n \in Nat : n = Len(records)
  BY DEF TypeOK
<1>2. Count(f, n) \in Nat
  BY CountNat
<1>3. PICK k \in Nat : k = First(f) - 1 + Count(f, n)
  BY <1>2, FirstWhole
<1>4. k * Parts \in Nat
  BY PartsAssumption
<1> QED
  BY <1>1, <1>3, <1>4 DEF Due

(* Nor does a step that touches no framer.                                 *)
LEMMA OutsideFramers ==
  ASSUME ApartInv, UNCHANGED <<framers, records, pos, join>>,
         \A f \in Flows : (Quiet(f) \/ (pc = "tcp" /\ f = flow))
                            => (Quiet(f) \/ (pc' = "tcp" /\ f = flow'))
  PROVE  ApartInv'
<1>1. FlowsApart'
  BY RecordsApart DEF ApartInv
<1>2. ASSUME NEW f \in Flows PROVE InStep(f)' /\ (Quiet(f) => Quiet(f)')
  <2>1. FramerOf(f)' = FramerOf(f) /\ Count(f, Len(records))' = Count(f, Len(records))
    BY DEF FramerOf, Count
  <2> QED
    BY <2>1, OtherFlow DEF ApartInv
<1> QED
  BY <1>1, <1>2 DEF ApartInv

LEMMA InitApart == Init => ApartInv
<1> SUFFICES ASSUME Init PROVE ApartInv
  OBVIOUS
<1>1. TypeOK
  BY InitInv DEF DecoderInv
<1>2. FlowsApart
  BY DEF Init, FlowsApart
<1>3. ASSUME NEW f \in Flows PROVE InStep(f) /\ Quiet(f)
  <2>1. FramerOf(f) = <<>> /\ pos[f] = join[f] /\ records = <<>>
    BY DEF Init, FramerOf
  <2>2. Count(f, Len(records)) = 0
    <3>1. {j \in 1 .. 0 : records[j].flow = f} = {}
      OBVIOUS
    <3> QED
      BY <2>1, <3>1, FS_EmptySet DEF Count
  <2>3. At(f) = join[f] /\ Due(f) = (First(f) - 1) * Parts /\ join[f] \in Nat
    BY <1>1, <2>1, <2>2, FirstWhole DEF At, Due
  <2>4. Cells(f, join[f], 0) = <<>>
    BY <2>3, CellsType, CellsAt
  <2> QED
    BY <1>1, <2>1, <2>2, <2>3, <2>4, FirstWhole DEF InStep, Quiet
<1> QED
  BY <1>2, <1>3 DEF ApartInv

(* What a step that delivers nothing has to do to the framer it touches.   *)
LEMMA NothingDelivered ==
  ASSUME ApartInv, UNCHANGED <<records, join>>, NEW f \in Flows,
         \A g \in Flows : g # f => FramerOf(g)' = FramerOf(g) /\ pos'[g] = pos[g],
         \A g \in Flows : g # f => (Quiet(g) \/ (pc' = "tcp" /\ g = flow')),
         InStep(f)', pc' = "tcp" /\ flow' = f
  PROVE  ApartInv'
<1>1. FlowsApart'
  BY RecordsApart DEF ApartInv
<1>2. ASSUME NEW g \in Flows, g # f PROVE InStep(g)' /\ Quiet(g)'
  <2>1. FramerOf(g)' = FramerOf(g) /\ Count(g, Len(records))' = Count(g, Len(records))
    BY <1>2 DEF Count
  <2> QED
    BY <1>2, <2>1, OtherFlow DEF ApartInv
<1> QED
  BY <1>1, <1>2 DEF ApartInv

LEMMA TcpPacketApart ==
  ASSUME TypeOK, ApartInv, NEW f \in Flows, NEW n \in Nat, TcpPacket(f, n)
  PROVE  ApartInv'
<1> DEFINE b == FramerOf(f)
<1>1. b \in Seq(Cell) /\ Len(b) \in Nat /\ pos[f] \in Nat
  BY FramerType DEF TypeOK
<1>2. InStep(f) /\ At(f) \in Nat /\ b = Cells(f, At(f), Len(b))
  BY DEF ApartInv, InStep
<1>3. PICK from \in Nat : from = At(f) /\ pos[f] = from + Len(b)
  BY <1>1, <1>2 DEF At
<1>4. PICK len \in Nat : len = Len(b) + n
  BY <1>1
<1>5. FramerOf(f)' = Cells(f, from, len)
  <2>1. FramerOf(f)' = b \o Cells(f, pos[f], n)
    BY StoreOwn DEF TcpPacket
  <2>2. Cells(f, from, Len(b)) \o Cells(f, pos[f], n) = Cells(f, from, len)
    <3>1. PICK p \in Nat, m \in Nat : p = pos[f] /\ m = Len(b)
      BY <1>1
    <3>2. p = from + m /\ len = m + n
      BY <1>3, <1>4, <3>1
    <3>3. Cells(f, from, m) \o Cells(f, from + m, n) = Cells(f, from, m + n)
      <4>1. \A i, j, k \in Nat : Cells(f, i, j) \o Cells(f, i + j, k) = Cells(f, i, j + k)
        BY CellsConcat, Zenon
      <4> QED
        BY <4>1, Zenon
    <3> QED
      BY <3>1, <3>2, <3>3
  <2> QED
    BY <1>2, <1>3, <2>1, <2>2
<1>6. Len(FramerOf(f)') = len
  BY <1>5, CellsAt
<1>7. At(f)' = from
  <2>1. pos'[f] = pos[f] + n
    BY DEF TcpPacket, TypeOK
  <2> QED
    BY <1>1, <1>3, <1>4, <1>6, <2>1 DEF At
<1>8. Due(f)' = Due(f) /\ Count(f, Len(records))' = Count(f, Len(records))
  BY DEF TcpPacket, Due, First, Count
<1>9. InStep(f)'
  BY <1>2, <1>3, <1>5, <1>6, <1>7, <1>8 DEF InStep
<1>10. \A g \in Flows : g # f => FramerOf(g)' = FramerOf(g) /\ pos'[g] = pos[g]
  BY StoreOwn DEF TcpPacket, TypeOK
<1>11. \A g \in Flows : Quiet(g)
  BY DEF ApartInv, TcpPacket
<1> QED
  BY <1>9, <1>10, <1>11, NothingDelivered DEF TcpPacket

(* The cell at the front of a framer is a header exactly when the next     *)
(* message begins with it.                                                 *)
LEMMA FrontCell ==
  ASSUME TypeOK, ApartInv, NEW f \in Flows, FramerOf(f) # <<>>
  PROVE  IsHeader(FramerOf(f)[1]) <=> At(f) = Due(f)
<1> DEFINE b == FramerOf(f)
           k == First(f) - 1 + Count(f, Len(records))
<1>1. b \in Seq(Cell) /\ Len(b) \in Nat \ {0}
  BY FramerType
<1>2. At(f) \in Nat /\ b = Cells(f, At(f), Len(b)) /\ At(f) <= Due(f) /\ Due(f) < At(f) + Parts
  BY DEF ApartInv, InStep
<1>3. b[1] = CellAt(f, At(f))
  <2>1. PICK a \in Nat, m \in Nat : a = At(f) /\ m = Len(b) /\ 1 \in 1 .. m
    BY <1>1, <1>2
  <2>2. Cells(f, a, m)[1] = CellAt(f, a + 1 - 1)
    BY <2>1, CellsAt
  <2> QED
    BY <1>2, <2>1, <2>2
<1>4. b[1].part = (At(f) % Parts) + 1
  BY <1>3 DEF CellAt
<1>5. k \in Nat /\ Due(f) = k * Parts
  BY DueType
<1>6. At(f) % Parts = 0 <=> At(f) = k * Parts
  BY <1>2, <1>5, Boundary
<1>7. At(f) % Parts \in Nat
  BY <1>2, PartsAssumption
<1> QED
  BY <1>4, <1>5, <1>6, <1>7 DEF IsHeader

LEMMA ResyncApart ==
  ASSUME TypeOK, ApartInv, Resync
  PROVE  ApartInv'
<1>f. PICK f \in Flows : f = flow
  BY DEF TypeOK
<1>0. PICK b : f = flow /\ b = FramerOf(f)
  BY <1>f
<1>1. b \in Seq(Cell) /\ b # <<>> /\ Len(b) \in Nat \ {0} /\ pos[f] \in Nat
  BY <1>0, FramerType DEF TypeOK, Resync
<1>2. InStep(f) /\ At(f) \in Nat /\ b = Cells(f, At(f), Len(b))
  BY <1>0, <1>1 DEF ApartInv, InStep
<1>3. PICK from \in Nat : from = At(f) /\ pos[f] = from + Len(b)
  BY <1>0, <1>1, <1>2 DEF At
<1>4. FramerOf(f)' = Cells(f, from + 1, Len(b) - 1)
  <2>1. FramerOf(f)' = Tail(b)
    BY <1>0, StoreOwn DEF Resync
  <2> QED
    BY <1>1, <1>2, <1>3, <2>1, CellsTail
<1>5. Len(FramerOf(f)') = Len(b) - 1 /\ At(f)' = from + 1
  <2>1. Len(FramerOf(f)') = Len(b) - 1
    <3>1. PICK a \in Nat, m \in Nat : a = from + 1 /\ m = Len(b) - 1
      BY <1>1, <1>3, from + 1 \in Nat, Len(b) - 1 \in Nat
    <3>2. FramerOf(f)' = Cells(f, a, m)
      BY <1>4, <3>1
    <3>3. Len(Cells(f, a, m)) = m
      BY <1>1, <3>1, CellsAt
    <3> QED
      BY <3>1, <3>2, <3>3
  <2> QED
    BY <1>1, <1>3, <2>1 DEF At, Resync
<1>6. Due(f)' = Due(f) /\ Count(f, Len(records))' = Count(f, Len(records))
  BY DEF Resync, Due, First, Count
<1>7. from < Due(f) /\ Due(f) < from + Parts /\ Due(f) \in Int
  <2>1. from # Due(f)
    BY <1>0, <1>1, <1>3, FrontCell DEF Resync
  <2>2. Due(f) \in Int
    BY <1>1, DueType
  <2> QED
    BY <1>2, <1>3, <2>1, <2>2 DEF InStep
<1>8. InStep(f)'
  <2>1. Count(f, Len(records)) = 0
    BY <1>2, <1>3, <1>7 DEF InStep
  <2>2. from + 1 \in Nat /\ from + 1 <= Due(f) /\ Due(f) < from + 1 + Parts
    BY <1>3, <1>7, PartsAssumption
  <2> QED
    BY <1>4, <1>5, <1>6, <2>1, <2>2 DEF InStep
<1>9. \A g \in Flows : g # f => FramerOf(g)' = FramerOf(g) /\ pos'[g] = pos[g]
  BY <1>0, StoreOwn DEF Resync
<1>10. \A g \in Flows : g # f => (Quiet(g) \/ (pc' = "tcp" /\ g = flow'))
  BY <1>0 DEF ApartInv, Resync
<1> QED
  BY <1>0, <1>8, <1>9, <1>10, NothingDelivered DEF Resync

LEMMA TcpDoneApart ==
  ASSUME ApartInv, TcpDone
  PROVE  ApartInv'
<1>1. Quiet(flow)
  BY DEF TcpDone, Quiet
<1>2. \A f \in Flows : Quiet(f)
  BY <1>1 DEF ApartInv
<1> QED
  BY <1>2, OutsideFramers DEF TcpDone

(* A delivered message is the next one of its flow.                        *)
LEMMA MessageApart ==
  ASSUME TypeOK, ApartInv, TypeOK', Message
  PROVE  ApartInv'
<1>f. PICK f \in Flows : f = flow
  BY DEF TypeOK
<1>0. PICK b : f = flow /\ b = FramerOf(f)
  BY <1>f
<1>1. b \in Seq(Cell) /\ pos[f] \in Nat /\ records \in Seq(Record)
  BY <1>0, FramerType DEF TypeOK
<1>2. InStep(f) /\ At(f) \in Nat /\ b = Cells(f, At(f), Len(b))
  BY <1>0 DEF ApartInv, InStep
<1>3. PICK m \in Nat : m = Len(b) - Parts /\ Len(b) = m + Parts /\ Len(b) >= Parts
  <2>1. Len(b) \in Nat /\ Len(b) >= Parts
    BY <1>0, <1>1 DEF Message, Holds
  <2> QED
    BY <2>1, PartsAssumption
<1>4. PICK from \in Nat : from = At(f) /\ pos[f] = from + Len(b)
  <2>1. Len(b) \in Nat /\ At(f) = pos[f] - Len(b)
    BY <1>0, <1>1 DEF At
  <2> QED
    BY <1>1, <1>2, <2>1
<1>5. PICK n \in Nat : n = Len(records)
  BY <1>1
<1>6. PICK k \in Nat : /\ k = First(f) - 1 + Count(f, n) /\ from = k * Parts
                       /\ First(f) \in Int /\ Count(f, n) \in Nat
  <2>1. b # <<>>
    BY <1>1, <1>3, PartsAssumption
  <2>2. At(f) = Due(f)
    BY <1>0, <2>1, FrontCell DEF Message
  <2>3. First(f) - 1 \in Nat /\ Count(f, n) \in Nat
    BY <1>5, FirstWhole, CountNat
  <2> QED
    <3>1. from = (First(f) - 1 + Count(f, n)) * Parts
      BY <1>4, <1>5, <2>2, DueType
    <3>2. First(f) \in Int
      BY FirstWhole
    <3> QED
      BY <2>3, <3>1, <3>2
<1>7. SubSeq(b, 1, Parts) = WholeMessage(f, First(f) + Count(f, n))
  <2>1. PICK len \in Nat : len = Len(b) /\ Parts \in 0 .. len
    BY <1>3, PartsAssumption
  <2>2. SubSeq(Cells(f, from, len), 1, Parts) = Cells(f, from, Parts)
    <3>1. f \in Flows /\ from \in Nat /\ len \in Nat /\ Parts \in 0 .. len
      BY <2>1
    <3> QED
      BY ONLY <3>1, CellsCut, Zenon
  <2>3. (First(f) + Count(f, n)) - 1 = k
    BY <1>6
  <2>4. WholeMessage(f, First(f) + Count(f, n)) = Cells(f, k * Parts, Parts)
    BY <2>3 DEF WholeMessage
  <2> QED
    BY <1>2, <1>4, <1>6, <2>1, <2>2, <2>4
<1>8. PICK r : /\ records' = Append(records, r)
               /\ r.flow = f /\ r.cells = SubSeq(b, 1, Parts)
  BY <1>0 DEF Message
<1>9. /\ Len(records') = n + 1
      /\ records'[n + 1] = r
      /\ \A i \in 1 .. n : records'[i] = records[i]
  BY <1>1, <1>5, <1>8
<1>10. \A g \in Flows : First(g)' = First(g)
  BY DEF Message, First
<1>11. FlowsApart'
  <2> SUFFICES ASSUME NEW i \in 1 .. n + 1, NEW g, g = records'[i].flow
               PROVE  records'[i].cells = WholeMessage(g, First(g)' + Count(g, i - 1)')
    BY <1>9 DEF FlowsApart
  <2>1. CASE i = n + 1
    <3>1. g = f /\ records'[i].cells = SubSeq(b, 1, Parts) /\ i - 1 = n
      BY <1>8, <1>9, <2>1
    <3>2. Count(f, n)' = Count(f, n)
      BY <1>1, <1>5, <1>8, CountDelivered, n \in 0 .. n
    <3> QED
      BY <1>7, <1>10, <3>1, <3>2
  <2>2. CASE i \in 1 .. n
    <3>1. g \in Flows /\ g = records[i].flow /\ records'[i] = records[i]
      <4>1. records[i] \in Record /\ records'[i] = records[i]
        BY <1>1, <1>5, <1>9, <2>2
      <4> QED
        BY <4>1 DEF Record
    <3>2. Count(g, i - 1)' = Count(g, i - 1)
      BY <1>1, <1>5, <1>8, <2>2, CountDelivered, i - 1 \in 0 .. n
    <3>3. records[i].cells = WholeMessage(g, First(g) + Count(g, i - 1))
      BY <1>5, <2>2, <3>1 DEF ApartInv, FlowsApart
    <3> QED
      BY <1>10, <3>1, <3>2, <3>3
  <2> QED
    BY <1>5, <2>1, <2>2
<1>12. InStep(f)'
  <2>1. PICK a \in Nat, len \in Nat : /\ a = from + Parts /\ len = Len(b) /\ len - Parts = m
                                      /\ Parts \in 0 .. len
    <3>1. Parts \in Nat /\ Len(b) \in Nat /\ Parts <= Len(b) /\ from + Parts \in Nat
      BY <1>3, <1>4, PartsAssumption
    <3> QED
      BY <1>3, <3>1
  <2>2. FramerOf(f)' = Cells(f, a, m)
    <3>1. FramerOf(f)' = SubSeq(b, Parts + 1, Len(b))
      BY <1>0, StoreOwn DEF Message
    <3>2. SubSeq(Cells(f, from, len), Parts + 1, len) = Cells(f, from + Parts, len - Parts)
      <4>1. from \in Nat /\ len \in Nat /\ Parts \in 0 .. len /\ f \in Flows
        BY <1>4, <2>1
      <4> QED
        BY <4>1, CellsCut, Zenon
    <3> QED
      BY <1>2, <1>4, <2>1, <3>1, <3>2
  <2>3. Len(FramerOf(f)') = m
    BY <1>1, <2>2, CellsAt
  <2>4. At(f)' = a
    <3>1. At(f)' = pos[f] - m
      BY <2>3 DEF At, Message
    <3>2. pos[f] = a + m
      BY <1>3, <1>4, <2>1, PartsAssumption
    <3> QED
      BY <3>1, <3>2
  <2>5. Count(f, Len(records))' = Count(f, n) + 1
    BY <1>1, <1>5, <1>8, CountDelivered
  <2>6. Due(f)' = a
    <3>1. Due(f)' = (First(f) - 1 + (Count(f, n) + 1)) * Parts
      BY <1>10, <2>5 DEF Due
    <3>2. First(f) - 1 + (Count(f, n) + 1) = k + 1
      BY <1>6
    <3>3. (k + 1) * Parts = k * Parts + Parts
      BY <2>1
    <3> QED
      BY <1>6, <2>1, <3>1, <3>2, <3>3
  <2> QED
    BY <2>1, <2>2, <2>3, <2>4, <2>6, PartsAssumption DEF InStep
<1>13. ASSUME NEW g \in Flows, g # f
       PROVE  InStep(g)' /\ (Quiet(g) => Quiet(g)')
  <2>1. FramerOf(g)' = FramerOf(g)
    BY <1>0, <1>13, StoreOwn DEF Message
  <2>3. Count(g, Len(records))' = Count(g, Len(records))
    BY <1>1, <1>8, <1>13, CountDelivered
  <2>4. pos'[g] = pos[g] /\ join' = join
    BY DEF Message
  <2> QED
    BY <2>1, <2>3, <2>4, OtherFlow DEF ApartInv
<1> QED
  BY <1>0, <1>11, <1>12, <1>13 DEF ApartInv, Message

-----------------------------------------------------------------------------
(* A flow at rest has delivered every message that ended so far.           *)
LEMMA QuietIsUpToDate ==
  ASSUME TypeOK, NEW f \in Flows, InStep(f), Quiet(f)
  PROVE  LET complete == (pos[f] \div Parts) - (First(f) - 1)
         IN  Count(f, Len(records)) = IF complete > 0 THEN complete ELSE 0
<1> DEFINE b == FramerOf(f)
<1>1. PICK n \in Nat : n = Count(f, Len(records))
  BY CountNat, Len(records) \in Nat DEF TypeOK
<1>2. PICK j \in Nat : j = First(f) - 1 /\ First(f) = j + 1
  BY FirstWhole
<1>3. PICK a \in Nat : a = At(f) /\ a <= Due(f) /\ Due(f) < a + Parts /\ (a < Due(f) => n = 0)
  BY <1>1 DEF InStep
<1>4. PICK k \in Nat : k = j + n
  OBVIOUS
<1>5. Due(f) = k * Parts /\ Due(f) \in Nat
  BY <1>1, <1>2, <1>4, DueType
<1>6. b \in Seq(Cell) /\ Len(b) \in Nat /\ pos[f] = a + Len(b) /\ pos[f] \in Nat
  BY <1>3, FramerType DEF At, TypeOK
<1>7. CASE a = Due(f)
  <2>1. Len(b) < Parts
    <3>1. b = <<>> => Len(b) = 0
      OBVIOUS
    <3> QED
      BY <1>6, <3>1, PartsAssumption DEF Quiet, Holds
  <2>2. k * Parts <= pos[f] /\ pos[f] < k * Parts + Parts
    BY <1>5, <1>6, <1>7, <2>1, PartsAssumption
  <2>3. pos[f] \div Parts = k
    BY <1>6, <2>2, BoundaryDivision
  <2>4. (pos[f] \div Parts) - (First(f) - 1) = n
    <3>1. (pos[f] \div Parts) - (First(f) - 1) = k - j
      BY <1>2, <2>3, Zenon
    <3> QED
      BY <1>4, <3>1
  <2> QED
    BY <1>1, <2>4
<1>8. CASE a < Due(f)
  <2>1. n = 0 /\ k = j
    <3>1. n = 0
      BY <1>3, <1>8
    <3> QED
      BY <1>4, <3>1
  <2>2. b = <<>>
    <3>1. ASSUME b # <<>> PROVE FALSE
      <4>1. IsHeader(b[1])
        BY <3>1 DEF Quiet
      <4>2. b[1].part = (a % Parts) + 1
        <5>1. PICK m \in Nat : m = Len(b) /\ 1 \in 1 .. m
          BY <1>6, <3>1
        <5>2. b = Cells(f, a, m)
          BY <1>3, <5>1 DEF InStep
        <5>3. b[1] = CellAt(f, a + 1 - 1)
          BY <5>1, <5>2, CellsAt
        <5> QED
          BY <5>3 DEF CellAt
      <4>3. a % Parts = 0
        BY <4>1, <4>2, PartsAssumption DEF IsHeader
      <4>4. a = k * Parts
        BY <1>3, <1>5, <4>3, Boundary
      <4> QED
        BY <1>5, <1>8, <4>4
    <3> QED
      BY <3>1
  <2>3. pos[f] = a
    BY <1>6, <2>2
  <2>4. PICK q \in Nat : q = pos[f] \div Parts /\ q * Parts <= a /\ a < q * Parts + Parts
    <3>1. PICK q \in Nat, r \in Nat : q = a \div Parts /\ r = a % Parts /\ a = q * Parts + r /\ r < Parts
      BY PartsAssumption
    <3> QED
      BY <2>3, <3>1, PartsAssumption
  <2>5. q * Parts \in Int /\ k * Parts \in Int
    BY PartsAssumption
  <2>6. ~(k < q)
    BY <1>3, <1>5, <1>8, <2>4, <2>5, NextBoundary, PartsAssumption
  <2>7. q # k
    BY <1>3, <1>5, <1>8, <2>4
  <2> QED
    BY <1>1, <1>2, <2>1, <2>4, <2>6, <2>7
<1> QED
  BY <1>3, <1>5, <1>7, <1>8

(* Every flow's framer is in step with its flow in every execution.        *)
THEOREM FlowsInStep == Spec => []ApartInv
<1>1. DecoderInv /\ ApartInv /\ [Next]_vars => ApartInv'
  <2> SUFFICES ASSUME DecoderInv, ApartInv, [Next]_vars PROVE ApartInv'
    OBVIOUS
  <2>1. TypeOK /\ TypeOK'
    BY NextInv DEF DecoderInv
  <2>2. CASE TcpArrives
    <3>1. PICK f \in Flows : \E n \in 1 .. MaxMessages * Parts - pos[f] : TcpPacket(f, n)
      BY <2>2 DEF TcpArrives
    <3>2. pos[f] \in Nat /\ MaxMessages * Parts \in Nat
      BY <2>1, PartsAssumption, BoundsAssumption, SMTT(30) DEF TypeOK
    <3>3. PICK n \in Nat : TcpPacket(f, n)
      BY <3>1, <3>2
    <3> QED
      BY <2>1, <3>3, TcpPacketApart
  <2>3. CASE Resync
    BY <2>1, <2>3, ResyncApart
  <2>4. CASE Message
    BY <2>1, <2>4, MessageApart
  <2>5. CASE TcpDone
    BY <2>5, TcpDoneApart
  <2>6. CASE SdpArrives \/ SdpFrame \/ SdpDone \/ UNCHANGED vars
    BY <2>6, OutsideFramers DEF SdpArrives, SdpDatagram, SdpFrame, SdpDone, vars
  <2> QED
    BY <2>2, <2>3, <2>4, <2>5, <2>6 DEF Next
<1> QED
  BY <1>1, InitApart, DecoderInvariant, PTL DEF Spec

(* However packets of several connections, of both directions and of SDP   *)
(* interleave, each flow's messages come out whole, in order and once.     *)
THEOREM FlowsStayApart == Spec => []FlowsApart
<1>1. ApartInv => FlowsApart
  BY DEF ApartInv
<1> QED
  BY <1>1, FlowsInStep, PTL

(* Between packets every message that has arrived has been delivered.      *)
THEOREM NothingPending == Spec => []UpToDate
<1>1. DecoderInv /\ ApartInv => UpToDate
  <2> SUFFICES ASSUME DecoderInv, ApartInv, pc = "idle", NEW f \in Flows
               PROVE  LET complete == (pos[f] \div Parts) - (First(f) - 1)
                      IN  Count(f, Len(records)) = IF complete > 0 THEN complete ELSE 0
    BY DEF UpToDate
  <2>1. TypeOK /\ InStep(f) /\ Quiet(f)
    BY DEF DecoderInv, ApartInv
  <2> QED
    BY <2>1, QuietIsUpToDate
<1> QED
  BY <1>1, FlowsInStep, DecoderInvariant, PTL

=============================================================================
