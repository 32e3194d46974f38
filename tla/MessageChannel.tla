--------------------------- MODULE MessageChannel ---------------------------
(***************************************************************************)
(* What one TCP direction of the decoder promises its user, with neither   *)
(* bytes nor packets.  As long as the capture misses nothing, the messages *)
(* sent come out once each, in order and unaltered.  A message that lost   *)
(* bytes on the way to the capture may come out as anything and may hide   *)
(* messages behind it; those that do come out are unaltered, in order and  *)
(* never repeated all the same.                                            *)
(***************************************************************************)
EXTENDS Naturals, Sequences

CONSTANT Message

VARIABLES
  sent,       \* the messages the peer has sent, in order
  damaged,    \* the numbers of the messages of which bytes were lost
  last,       \* the number of the message last handed on
  delivered   \* what was handed on, in order

chanVars == <<sent, damaged, last, delivered>>

Init == sent = <<>> /\ damaged = {} /\ last = 0 /\ delivered = <<>>

Send(m) ==
  /\ sent' = Append(sent, m)
  /\ UNCHANGED <<damaged, last, delivered>>

Damage(ks) ==
  /\ damaged' = damaged \cup ks
  /\ UNCHANGED <<sent, last, delivered>>

(* A message may be passed over only if it or one before it was damaged.   *)
MayBeMissing(k) == \E d \in damaged : d <= k

Deliver(k) ==
  /\ \A j \in last + 1 .. k - 1 : MayBeMissing(j)
  /\ Len(delivered') = Len(delivered) + 1
  /\ SubSeq(delivered', 1, Len(delivered)) = delivered
  /\ k \notin damaged => delivered'[Len(delivered')] = sent[k]
  /\ last' = k
  /\ UNCHANGED <<sent, damaged>>

Next ==
  \/ \E m \in Message : Send(m)
  \/ \E ks \in SUBSET (last + 1 .. Len(sent)) : Damage(ks)
  \/ \E k \in last + 1 .. Len(sent) : Deliver(k)

Spec == Init /\ [][Next]_chanVars

=============================================================================
