---------------------------- MODULE FramerBytes -----------------------------
(***************************************************************************)
(* The framer fed with arbitrary bytes: every packet carries one element   *)
(* of Segments, in any order, valid V2GTP or not (TLS records, another     *)
(* protocol, the middle of a message).  V2gStreamDecoder.feed_packet       *)
(* returns before the framer when the payload is empty.                    *)
(***************************************************************************)
EXTENDS Framer

CONSTANTS
  Segments,  \* the payloads one packet may carry
  MaxBytes   \* bound on the bytes fed

ASSUME SegmentsAssumption == Segments \subseteq Seq(Byte)
ASSUME MaxBytesAssumption == MaxBytes \in Nat

Receive(data) ==
  /\ data # <<>>
  /\ Len(received) + Len(data) <= MaxBytes
  /\ Feed(data)

Init == FramerInit

Next == (\E data \in Segments : Receive(data)) \/ Loop

Spec == Init /\ [][Next]_framerVars

(* feed() is sequential code: its loop does not stop between iterations.   *)
FairSpec == Spec /\ WF_framerVars(Loop)

-----------------------------------------------------------------------------
(* From(s)[p]: the frames of byte string s read in one piece from offset p *)
(* on.  Batch(s), all of them, is the reference for the incremental framer.*)
From(s) ==
  LET from[p \in 0 .. Len(s)] ==
        IF Len(s) - p < V2GTP_HEADER_LEN THEN <<>>
        ELSE IF ~Magic(s, p) THEN from[p + 1]
        ELSE IF ~Fits(s, p) THEN <<>>
        ELSE <<FrameAt(s, p)>> \o from[p + FrameLen(s, p)]
  IN  from

Batch(s) == From(s)[0]

(* How the input was cut into packets does not matter: whenever feed() has *)
(* returned, the frames yielded over all calls are those of the whole      *)
(* input read at once.  A frame is never held back for a later packet.     *)
SegmentationIrrelevant == pc = "idle" => frames = Batch(received)

(* feed() always returns, whatever bytes it is given: the resync loop      *)
(* cannot spin on a buffer it does not shorten.                            *)
FeedReturns == (pc = "loop") ~> (pc = "idle")

=============================================================================
