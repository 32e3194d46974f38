--------------------------- MODULE StreamDecoder ----------------------------
(***************************************************************************)
(* V2gStreamDecoder (stream.py): one decoder fed with every packet of a    *)
(* capture, whatever connections, chargers and interfaces they belong to.  *)
(* It keeps one framer per TCP direction, the SECC endpoint that SDP last  *)
(* announced, and one message counter, and calls back for each record.     *)
(*                                                                         *)
(* Module Framer models the bytes.  Here a message is Parts cells, the     *)
(* first of which carries the header, and the framer's loop works on       *)
(* cells: a cell that is not a header at the front of a buffer is stray.   *)
(*                                                                         *)
(* feed_packet runs on one thread and calls back synchronously: pc keeps   *)
(* the next packet out until the loop it started has ended.                *)
(***************************************************************************)
EXTENDS Integers, Sequences, FiniteSets

CONSTANTS
  EVs,          \* TCP endpoints (address and port) of vehicles
  SECCs,        \* TCP endpoints of chargers
  Flows,        \* the TCP directions in the capture: pairs of endpoints
  Joins,        \* cells of a flow that went by before the capture began
  Parts,        \* cells per message
  MaxMessages,  \* bound on the messages of a flow
  MaxSdp,       \* bound on the SDP frames of a capture
  NoEndpoint    \* (None, None)

ASSUME EndpointsAssumption ==
  /\ EVs \cap SECCs = {}
  /\ NoEndpoint \notin EVs \cup SECCs
ASSUME FlowsAssumption ==
  /\ Flows # {}
  /\ Flows \subseteq (EVs \X SECCs) \cup (SECCs \X EVs)
ASSUME JoinsAssumption == Joins \subseteq Nat
ASSUME PartsAssumption == Parts \in Nat \ {0}
ASSUME BoundsAssumption == MaxMessages \in Nat /\ MaxSdp \in Nat

VARIABLES
  framers,  \* self._framers: what each framer created so far has buffered
  index,    \* self._index
  secc,     \* (self.secc_ip, self.secc_port)
  pc,       \* "idle", "tcp" or "sdp": the loop feed_packet is in
  flow,     \* the flow whose framer is being read
  datagram, \* the SDP frames still to be read from the current datagram
  records,  \* what on_message was called with
  pos,      \* history: cells of each flow that went by
  join,     \* history: where in each flow the capture began
  heard     \* history: the endpoints announced so far, in order

vars == <<framers, index, secc, pc, flow, datagram, records, pos, join, heard>>

-----------------------------------------------------------------------------
\* flow means nothing while no segment is being read.
NoFlow == CHOOSE f \in Flows : TRUE

(* The wire.  Cell i of flow f, counted from 0.                            *)
CellAt(f, i) == [flow |-> f, msg |-> (i \div Parts) + 1, part |-> (i % Parts) + 1]

Cells(f, from, n) == [i \in 1 .. n |-> CellAt(f, from + i - 1)]

WholeMessage(f, k) == Cells(f, (k - 1) * Parts, Parts)

(* An SDP frame: a request, or a response that names an endpoint.  A       *)
(* response shorter than 20 bytes is read as a request (_parse_sdp).       *)
Request     == [kind |-> "request",  endpoint |-> NoEndpoint]
Response(c) == [kind |-> "response", endpoint |-> c]
SdpFrames   == {Request} \cup {Response(c) : c \in SECCs}

(* protocol.v2g_direction                                                  *)
Direction(f, known) ==
  IF known = NoEndpoint THEN "ports"
  ELSE IF f[2] = known THEN "EVCC->SECC"
  ELSE IF f[1] = known THEN "SECC->EVCC"
  ELSE "ports"

\* The key of a flow in self._framers: (src, sport, dst, dport).
MutKey(f) == f[2]
MutSharedKey(f) == CHOOSE g \in Flows : g[2] = f[2]
Key(f) == f

\* self._framers.setdefault(key, _Framer())
FramerOf(f) == IF Key(f) \in DOMAIN framers THEN framers[Key(f)] ELSE <<>>

Store(f, b) ==
  framers' = [k \in DOMAIN framers \cup {Key(f)} |-> IF k = Key(f) THEN b ELSE framers[k]]

\* A message has fully arrived at the front of the buffer.
MutHolds(b) == Len(b) > Parts
Holds(b) == Len(b) >= Parts

IsHeader(cell) == cell.part = 1

\* self._index += 1
MutAfter(i) == i
After(i) == i + 1

-----------------------------------------------------------------------------
Init ==
  /\ framers = [k \in {} |-> <<>>]
  /\ index = 0
  /\ secc = NoEndpoint
  /\ pc = "idle"
  /\ flow = NoFlow
  /\ datagram = <<>>
  /\ records = <<>>
  /\ join \in [Flows -> Joins]
  /\ pos = join
  /\ heard = <<>>

(* A TCP segment with n cells of flow f.  A segment with no payload, and a *)
(* packet that is neither TCP nor SDP, returns early and changes nothing.  *)
TcpPacket(f, n) ==
  /\ pc = "idle"
  /\ pos[f] + n <= MaxMessages * Parts
  /\ Store(f, FramerOf(f) \o Cells(f, pos[f], n))
  /\ pos' = [pos EXCEPT ![f] = @ + n]
  /\ flow' = f
  /\ pc' = "tcp"
  /\ UNCHANGED <<index, secc, datagram, records, join, heard>>

(* The framer's loop: skip a stray cell ...                                *)
Resync ==
  LET b == FramerOf(flow) IN
  /\ pc = "tcp"
  /\ b # <<>>
  /\ ~IsHeader(b[1])
  /\ Store(flow, Tail(b))
  /\ UNCHANGED <<index, secc, pc, flow, datagram, records, pos, join, heard>>

(* ... or take the message off the buffer, number it, label it with what   *)
(* is known of the SECC now, and call on_message.                          *)
Message ==
  LET b == FramerOf(flow) IN
  /\ pc = "tcp"
  /\ Holds(b)
  /\ IsHeader(b[1])
  /\ records' = Append(records,
       [flow |-> flow, cells |-> SubSeq(b, 1, Parts), index |-> index,
        direction |-> Direction(flow, secc), heard |-> heard])
  /\ index' = After(index)
  /\ Store(flow, SubSeq(b, Parts + 1, Len(b)))
  /\ UNCHANGED <<secc, pc, flow, datagram, pos, join, heard>>

(* ... or stop: nothing more is complete.                                  *)
TcpDone ==
  LET b == FramerOf(flow) IN
  /\ pc = "tcp"
  /\ b # <<>> => (IsHeader(b[1]) /\ ~Holds(b))
  /\ pc' = "idle"
  /\ flow' = NoFlow
  /\ UNCHANGED <<framers, index, secc, datagram, records, pos, join, heard>>

(* A UDP datagram to or from port 15118, read by a framer of its own.      *)
SdpDatagram(fs) ==
  /\ pc = "idle"
  /\ datagram' = fs
  /\ pc' = "sdp"
  /\ UNCHANGED <<framers, index, secc, flow, records, pos, join, heard>>

\* What one SDP frame does to the endpoint.
MutEndpointAfter(sdp) == sdp.endpoint
EndpointAfter(sdp) == IF sdp.kind = "response" THEN sdp.endpoint ELSE secc

SdpFrame ==
  /\ pc = "sdp"
  /\ datagram # <<>>
  /\ secc' = EndpointAfter(Head(datagram))
  /\ heard' = IF Head(datagram).kind = "response"
              THEN Append(heard, Head(datagram).endpoint) ELSE heard
  /\ datagram' = Tail(datagram)
  /\ UNCHANGED <<framers, index, pc, flow, records, pos, join>>

SdpDone ==
  /\ pc = "sdp"
  /\ datagram = <<>>
  /\ pc' = "idle"
  /\ UNCHANGED <<framers, index, secc, flow, datagram, records, pos, join, heard>>

-----------------------------------------------------------------------------
Datagrams == {<<a>> : a \in SdpFrames} \cup {<<a, b>> : a, b \in SdpFrames}

TcpArrives == \E f \in Flows : \E n \in 1 .. MaxMessages * Parts - pos[f] : TcpPacket(f, n)

SdpArrives ==
  \E fs \in Datagrams : Len(heard) + Len(fs) <= MaxSdp /\ SdpDatagram(fs)

Next ==
  \/ TcpArrives \/ Resync \/ Message \/ TcpDone
  \/ SdpArrives \/ SdpFrame \/ SdpDone

Spec == Init /\ [][Next]_vars

-----------------------------------------------------------------------------
Cell == [flow : Flows, msg : Nat, part : Nat]

Record == [flow : Flows, cells : Seq(Cell), index : Nat,
           direction : {"EVCC->SECC", "SECC->EVCC", "ports"}, heard : Seq(SECCs)]

TypeOK ==
  /\ DOMAIN framers \subseteq Flows
  /\ framers \in [DOMAIN framers -> Seq(Cell)]
  /\ index \in Nat
  /\ secc \in SECCs \cup {NoEndpoint}
  /\ pc \in {"idle", "tcp", "sdp"}
  /\ flow \in Flows
  /\ datagram \in Seq(SdpFrames)
  /\ records \in Seq(Record)
  /\ pos \in [Flows -> Nat]
  /\ join \in [Flows -> Joins]
  /\ heard \in Seq(SECCs)

(* The first message of a flow that the capture sees from its beginning.   *)
First(f) == IF join[f] % Parts = 0 THEN (join[f] \div Parts) + 1
            ELSE (join[f] \div Parts) + 2

\* How many of the first n records are messages of flow f.
Count(f, n) == Cardinality({j \in 1 .. n : records[j].flow = f})

(* Each TCP direction is read as if it were alone: its messages come out   *)
(* whole, in order and once each, from the first one the capture saw the   *)
(* beginning of, whatever packets of other connections, of the opposite    *)
(* direction and of SDP arrive in between (the framers' keys).             *)
FlowsApart ==
  \A i \in 1 .. Len(records) :
    LET f == records[i].flow
    IN  records[i].cells = WholeMessage(f, First(f) + Count(f, i - 1))

(* Between packets no completed message is left in a framer.               *)
UpToDate ==
  pc = "idle" =>
    \A f \in Flows :
      LET complete == (pos[f] \div Parts) - (First(f) - 1)
      IN  Count(f, Len(records)) = IF complete > 0 THEN complete ELSE 0

(* The index column numbers the messages of all flows in the order they    *)
(* completed, without a gap or a repetition, and message_count counts them.*)
IndexIsOrder ==
  /\ index = Len(records)
  /\ \A i \in 1 .. Len(records) : records[i].index = i - 1

\* The endpoint that was announced last.
LastHeard(h) == IF h = <<>> THEN NoEndpoint ELSE h[Len(h)]

(* A message has the role that the last announcement before it gives its   *)
(* flow: EVCC->SECC towards the endpoint announced last, SECC->EVCC from   *)
(* it.  The label falls back to the ports for flows of other chargers      *)
(* only, never for want of an answer that was there, however many          *)
(* requests and answers of others came since (v2g_direction).              *)
RightRole(r) ==
  LET last == LastHeard(r.heard) IN
  /\ r.direction = "EVCC->SECC" => r.flow[2] = last
  /\ r.direction = "SECC->EVCC" => r.flow[1] = last
  /\ r.direction = "ports" => last \notin {r.flow[1], r.flow[2]}

RoleIsRight == \A i \in 1 .. Len(records) : RightRole(records[i])

\* The endpoint in use is the one announced last.
SeccIsLast == secc = LastHeard(heard)

DecoderInv == TypeOK /\ SeccIsLast /\ IndexIsOrder /\ RoleIsRight

=============================================================================
