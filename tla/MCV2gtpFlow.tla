---------------------------- MODULE MCV2gtpFlow -----------------------------
(***************************************************************************)
(* Messages with bodies of 0 and 2 bytes.  A body may end in a version     *)
(* byte, but the second byte of a header, 254, stands in no body, so that  *)
(* no two bytes that were sent side by side read as a header except at the *)
(* beginning of a message.                                                 *)
(***************************************************************************)
EXTENDS V2gtpFlow

ExiType == 32769  \* 0x8001

MCMessages ==
  { [ptype |-> ExiType, body |-> <<>>], [ptype |-> ExiType, body |-> <<128, 1>>] }

MCJoins == {0, 3, 9}

NoJoin == {0}

\* What theorems DeliveryAlways and FlowRefinesChannel of V2gtpFlowProofs ask for.
ASSUME HeadersRecognisable == Recognisable /\ Marked

=============================================================================
