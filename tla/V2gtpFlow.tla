----------------------------- MODULE V2gtpFlow ------------------------------
(***************************************************************************)
(* One TCP direction from the sender to the framer: the peer writes V2GTP  *)
(* messages into a byte stream, the capture hands the framer pieces of     *)
(* that stream, cut anywhere (stream.py, V2gStreamDecoder, the TCP branch  *)
(* of feed_packet and its _Framer).  The capture may have been started     *)
(* while the connection was already open: it then sees the stream from     *)
(* offset join on.  It may also lose pieces: nothing in the code notices,  *)
(* the framer reads what comes next as the continuation.                   *)
(*                                                                         *)
(* begins and where are history: where in the stream each message begins,  *)
(* and where in the stream each byte stood that the framer was fed.        *)
(***************************************************************************)
EXTENDS Framer

CONSTANTS
  Messages,     \* the messages a peer may send
  Joins,        \* the stream offsets at which a capture may begin
  MaxMessages,  \* bound on the messages sent
  MaxLosses     \* bound on the pieces the capture loses

ASSUME MessagesAssumption ==
  \A m \in Messages :
    m \in Frame /\ m.ptype < Half /\ Len(m.body) < Half
ASSUME JoinsAssumption == Joins \subseteq Nat
ASSUME BoundsAssumption == MaxMessages \in Nat /\ MaxLosses \in Nat

VARIABLES
  sent,    \* the messages the peer has sent
  begins,  \* history: the stream offset of each message sent
  wire,    \* the byte stream as the peer wrote it
  join,    \* the stream offset at which the capture began
  pos,     \* the stream offset up to which the capture has come
  losses,  \* how many pieces were lost
  where    \* history: the stream offset of each byte received

flowVars == <<sent, begins, wire, join, pos, losses, where>>
vars == <<framerVars, flowVars>>

-----------------------------------------------------------------------------
(* The peer's V2GTP encoder.  Bodies are shorter than 2^16 bytes here.     *)
Encode(m) ==
  <<V2GTP_VERSION, V2GTP_INVERSE_VERSION,
    m.ptype \div 256, m.ptype % 256,
    0, 0, Len(m.body) \div 256, Len(m.body) % 256>> \o m.body

Send(m) ==
  /\ Len(sent) < MaxMessages
  /\ sent' = Append(sent, m)
  /\ begins' = Append(begins, Len(wire))
  /\ wire' = wire \o Encode(m)
  /\ UNCHANGED <<framerVars, join, pos, losses, where>>

\* n bytes of the stream, from offset p on, arrive in one packet.
Packet(p, n) ==
  /\ Feed(SubSeq(wire, p + 1, p + n))
  /\ where' = where \o [i \in 1 .. n |-> p + i - 1]

(* The next n bytes of the stream arrive.                                  *)
Capture(n) ==
  /\ Packet(pos, n)
  /\ pos' = pos + n
  /\ UNCHANGED <<sent, begins, wire, join, losses>>

(* The next n bytes reach the peer but not the capture.  Lost at a message *)
(* boundary they also stand for a connection that ended in the middle of a *)
(* message and a new one on the same four-tuple, which the code puts into  *)
(* the framer of the old one.                                              *)
Lose(n) ==
  /\ losses < MaxLosses
  /\ losses' = losses + 1
  /\ pos' = pos + n
  /\ UNCHANGED <<framerVars, sent, begins, wire, join, where>>

(* TCP sent n bytes again that the capture has already seen.               *)
Retransmit(i, n) ==
  /\ join <= i /\ i + n <= pos
  /\ Packet(i, n)
  /\ UNCHANGED <<sent, begins, wire, join, pos, losses>>

(* One iteration of the framer's loop.                                     *)
FramerStep == Loop /\ UNCHANGED flowVars

Init ==
  /\ FramerInit
  /\ sent = <<>> /\ begins = <<>> /\ wire = <<>>
  /\ join \in Joins
  /\ pos = join
  /\ losses = 0
  /\ where = <<>>

Sending   == \E m \in Messages : Send(m)
Capturing == \E n \in 1 .. Len(wire) - pos : Capture(n)
Losing    == \E n \in 1 .. Len(wire) - pos : Lose(n)

Next == Sending \/ Capturing \/ Losing \/ FramerStep

Spec == Init /\ [][Next]_vars

(* Sequential code runs on; neither the peer nor the capture has to.       *)
FairSpec == Spec /\ WF_vars(FramerStep)

(* The same flow when the network also repeats segments.                   *)
RetransmitNext ==
  Next \/ \E i \in 0 .. pos : \E n \in 1 .. pos - i : Retransmit(i, n)

RetransmitSpec == Init /\ [][RetransmitNext]_vars

-----------------------------------------------------------------------------
FlowTypeOK ==
  /\ TypeOK
  /\ sent \in Seq(Messages)
  /\ begins \in Seq(Nat)
  /\ Len(begins) = Len(sent)
  /\ wire \in Seq(Byte)
  /\ join \in Joins
  /\ pos \in Nat
  /\ pos >= join
  /\ losses \in Nat
  /\ where \in Seq(Nat)
  /\ Len(where) = Len(received)

(* How many messages begin before the capture does, and the messages that  *)
(* begin after it.                                                         *)
Skipped ==
  CHOOSE n \in 0 .. Len(sent) : \A k \in 1 .. Len(sent) : begins[k] < join <=> k <= n

SentInView == SubSeq(sent, Skipped + 1, Len(sent))

(* The capture begins with the stream, or no two bytes side by side within *)
(* a message are a pair of version bytes, except its first two: without    *)
(* one or the other a framer that is started in the middle of a message    *)
(* can take a part of it for a header.  Delivery is about this case.       *)
OneHeader(e) ==
  \A i \in 1 .. Len(e) - 1 :
    e[i] = V2GTP_VERSION /\ e[i + 1] = V2GTP_INVERSE_VERSION => i = 1

Recognisable == Joins = {0} \/ \A m \in Messages : OneHeader(Encode(m))

(* What comes out of the framer is what the peer sent since the capture    *)
(* began: whole messages, in order, none missing between two of them, none *)
(* twice, none made of parts of others, wherever the packets were cut and  *)
(* even if the capture began in the middle of a message.                   *)
Delivery ==
  losses = 0 =>
    /\ Len(frames) <= Len(SentInView)
    /\ frames = SubSeq(SentInView, 1, Len(frames))

EndOf(k) == begins[k] + V2GTP_HEADER_LEN + Len(sent[k].body)

Received == {where[i] : i \in 1 .. Len(where)}

Damaged(k) == \E s \in begins[k] .. EndOf(k) - 1 : s < pos /\ s \notin Received

(* Frame i is read from message k: the second byte of its header, which    *)
(* stands nowhere but in a header, is the second byte of the message.      *)
ReadFrom(i, k) == where[starts[i] + 2] = begins[k] + 1

(* Every message has one byte 254, the second of its header: what a framer *)
(* that lost bytes reads as a header can then be told to be of a message.  *)
Marked ==
  \A m \in Messages : \A i \in 1 .. Len(Encode(m)) :
    Encode(m)[i] = V2GTP_INVERSE_VERSION => i = 2

DamagedInView == {i \in 1 .. Len(SentInView) : Damaged(Skipped + i)}

LastRead ==
  IF frames = <<>> THEN 0
  ELSE CHOOSE i \in 1 .. Len(SentInView) : ReadFrom(Len(frames), Skipped + i)

(* The flow implements the message channel: even a frame that takes bytes  *)
(* of later messages for its body does not make the framer invent, repeat, *)
(* reorder or alter any of them.                                           *)
Channel == INSTANCE MessageChannel
             WITH Message   <- Messages,
                  sent      <- SentInView,
                  damaged   <- DamagedInView,
                  last      <- LastRead,
                  delivered <- frames

RefinesChannel == Channel!Spec

WhollyCaptured(k) == begins[k] >= join /\ EndOf(k) <= pos /\ ~Damaged(k)

\* How many bytes captured stand before offset s of the stream.
CapturedBefore(s) == Len(SelectSeq(where, LAMBDA w : w < s))

(* A message before k lost bytes and still claims bytes that are k's: its  *)
(* header was cut, so that it may claim anything, or the length announced  *)
(* in it reaches beyond the beginning of k.                                *)
Claimed(k) ==
  \E j \in 1 .. k - 1 :
    /\ Damaged(j)
    /\ \/ \E s \in begins[j] .. begins[j] + V2GTP_HEADER_LEN - 1 : s >= join /\ s \notin Received
       \/ CapturedBefore(begins[j]) + (EndOf(j) - begins[j]) > CapturedBefore(begins[k])

Due == {k \in 1 .. Len(sent) : WhollyCaptured(k) /\ ~Claimed(k)}

Delivered ==
  {k \in 1 .. Len(sent) : \E i \in 1 .. Len(frames) : ReadFrom(i, k) /\ frames[i] = sent[k]}

(* A message whose last byte has been captured is delivered without        *)
(* waiting for any later packet, and a loss before it costs it only if the *)
(* message that was cut reaches that far: the framer finds back.           *)
CapturedIsDelivered ==
  \A k \in 1 .. MaxMessages : k \in Due ~> k \in Delivered

=============================================================================
