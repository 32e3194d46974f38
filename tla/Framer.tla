------------------------------- MODULE Framer -------------------------------
(***************************************************************************)
(* _Framer (zelos_extension_v2g/stream.py): the incremental, length        *)
(* prefixed V2GTP framer of one TCP direction.                             *)
(*                                                                         *)
(* feed() is a generator: it appends the payload of one packet and then    *)
(* loops, handing each complete frame to its caller.  The loop is modelled *)
(* iteration by iteration; pc keeps the next packet out until the loop has *)
(* left, as the caller's for statement does.                               *)
(*                                                                         *)
(* buf and frames are the code's state and output.  received, consumed and *)
(* starts are history: every byte fed so far, how many of them left buf,   *)
(* and at which offset of received each frame began.                       *)
(***************************************************************************)
EXTENDS Integers, Sequences

V2GTP_VERSION         == 1
V2GTP_INVERSE_VERSION == 254
V2GTP_HEADER_LEN      == 8

Byte  == 0 .. 255
Half  == 65536  \* 2^16: a payload length is two 16-bit halves
Frame == [ptype : Nat, body : Seq(Byte)]

VARIABLES
  buf,       \* self.buf: bytes not yet framed
  pc,        \* "idle": no feed() is running; "loop": at the while test
  frames,    \* the (payload_type, body) pairs yielded so far
  received,  \* history: every byte appended so far
  consumed,  \* history: how many bytes have left buf
  starts     \* history: the offset in received at which each frame begins

framerVars == <<buf, pc, frames, received, consumed, starts>>

-----------------------------------------------------------------------------
(* The header at offset p of byte string s: the two version bytes, a       *)
(* big-endian 16-bit payload type and a big-endian 32-bit payload length.  *)

Magic(s, p) ==
  /\ s[p + 1] = V2GTP_VERSION
  /\ s[p + 2] = V2GTP_INVERSE_VERSION

\* the payload type read as a signed number
MutPayloadType(s, p) == (256 * s[p + 3] + s[p + 4]) - (IF s[p + 3] > 127 THEN 65536 ELSE 0)
PayloadType(s, p) == 256 * s[p + 3] + s[p + 4]

High(s, p)       == 256 * s[p + 5] + s[p + 6]
Low(s, p)        == 256 * s[p + 7] + s[p + 8]
PayloadLen(s, p) == Half * High(s, p) + Low(s, p)

FrameLen(s, p) == V2GTP_HEADER_LEN + PayloadLen(s, p)

FrameAt(s, p) == [ptype |-> PayloadType(s, p),
                  body  |-> SubSeq(s, p + V2GTP_HEADER_LEN + 1, p + FrameLen(s, p))]

HasHeader(b) == Len(b) >= V2GTP_HEADER_LEN

(* The frame whose header is at p has fully arrived: p + FrameLen(s, p) is  *)
(* at most Len(s), compared by 16-bit halves because a 32-bit length does  *)
(* not fit TLC's integers (theorem FitsMeaning of FramerProofs).           *)
Fits(s, p) ==
  LET room == Len(s) - p - V2GTP_HEADER_LEN
  IN  \/ High(s, p) < room \div Half
      \/ High(s, p) = room \div Half /\ Low(s, p) <= room % Half

MutComplete(b) == Fits(b, 0) /\ Len(b) # FrameLen(b, 0)
Complete(b) == Fits(b, 0)

\* del self.buf[0]
MutAfterStray(b) == <<>>
AfterStray(b) == Tail(b)

\* del self.buf[:total]
MutAfterFrame(b) == SubSeq(b, PayloadLen(b, 0) + 1, Len(b))
AfterFrame(b) == SubSeq(b, FrameLen(b, 0) + 1, Len(b))

-----------------------------------------------------------------------------
FramerInit ==
  /\ buf = <<>>
  /\ pc = "idle"
  /\ frames = <<>>
  /\ received = <<>>
  /\ consumed = 0
  /\ starts = <<>>

(* feed(data) up to its first while test.                                  *)
Feed(data) ==
  /\ pc = "idle"
  /\ buf' = buf \o data
  /\ received' = received \o data
  /\ pc' = "loop"
  /\ UNCHANGED <<frames, consumed, starts>>

(* The buffer does not begin with a V2GTP header: skip one byte.           *)
MutResync ==
  /\ pc = "loop"
  /\ HasHeader(buf)
  /\ ~Magic(buf, 0)
  /\ UNCHANGED framerVars
Resync ==
  /\ pc = "loop"
  /\ HasHeader(buf)
  /\ ~Magic(buf, 0)
  /\ buf' = AfterStray(buf)
  /\ consumed' = consumed + (Len(buf) - Len(buf'))
  /\ UNCHANGED <<pc, frames, received, starts>>

(* A whole frame is there: remove it from the buffer, then yield it.       *)
Yield ==
  /\ pc = "loop"
  /\ HasHeader(buf)
  /\ Magic(buf, 0)
  /\ Complete(buf)
  /\ frames' = Append(frames, FrameAt(buf, 0))
  /\ starts' = Append(starts, consumed)
  /\ buf' = AfterFrame(buf)
  /\ consumed' = consumed + (Len(buf) - Len(buf'))
  /\ UNCHANGED <<pc, received>>

(* The while test fails, or the frame at the front has not fully arrived.  *)
Waiting(b) == HasHeader(b) => (Magic(b, 0) /\ ~Complete(b))

Suspend ==
  /\ pc = "loop"
  /\ Waiting(buf)
  /\ pc' = "idle"
  /\ UNCHANGED <<buf, frames, received, consumed, starts>>

Loop == Resync \/ Yield \/ Suspend

-----------------------------------------------------------------------------
(* Every variable has its type.                                            *)
TypeOK ==
  /\ buf \in Seq(Byte)
  /\ pc \in {"idle", "loop"}
  /\ frames \in Seq(Frame)
  /\ received \in Seq(Byte)
  /\ consumed \in Nat
  /\ starts \in Seq(Nat)
  /\ Len(starts) = Len(frames)

(* The buffer is exactly the part of the input that was not consumed.      *)
Window ==
  /\ Len(received) = consumed + Len(buf)
  /\ \A i \in 1 .. Len(buf) : buf[i] = received[consumed + i]

FrameEnd(k) == starts[k] + V2GTP_HEADER_LEN + Len(frames[k].body)

IsFrameOnWire(k) ==
  /\ FrameEnd(k) <= consumed
  /\ Magic(received, starts[k])
  /\ frames[k].ptype = PayloadType(received, starts[k])
  /\ Len(frames[k].body) = PayloadLen(received, starts[k])
  /\ \A j \in 1 .. Len(frames[k].body) :
       frames[k].body[j] = received[starts[k] + V2GTP_HEADER_LEN + j]

(* Each frame yielded stands in the input, header, type, length and body,  *)
(* at its own place: no byte is invented, altered or used by two frames,   *)
(* however the input was cut into packets (README: "every event            *)
(* corresponds to a frame on the wire").                                   *)
FramesOnWire ==
  /\ \A k \in 1 .. Len(frames) : IsFrameOnWire(k)
  /\ \A k, l \in 1 .. Len(frames) : k < l => FrameEnd(k) <= starts[l]

InFrame(p) == \E k \in 1 .. Len(frames) : starts[k] <= p /\ p < FrameEnd(k)

(* A byte leaves the buffer only inside a frame or as a stray byte: no     *)
(* header on which a frame could have begun is ever skipped, and a byte is *)
(* called stray only with a whole header's worth of input in view.         *)
OnlyStrayDropped ==
  \A p \in 0 .. consumed - 1 :
    \/ InFrame(p)
    \/ /\ p + V2GTP_HEADER_LEN <= Len(received)
       /\ ~Magic(received, p)

(* When feed() has returned, what is left in the buffer is less than a     *)
(* header, or the beginning of one frame: no frame that has fully arrived  *)
(* waits for a later packet to be noticed.                                 *)
NothingWithheld ==
  pc = "idle" => \/ Len(buf) < V2GTP_HEADER_LEN
                 \/ Magic(buf, 0) /\ ~Fits(buf, 0)

(* The invariant that the framer's loop preserves.                         *)
FramerInv == TypeOK /\ Window /\ FramesOnWire /\ OnlyStrayDropped

=============================================================================
