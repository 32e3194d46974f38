-------------------------- MODULE MCStreamDecoder ---------------------------
(* Two chargers answer the same vehicle's SDP request; the vehicle talks   *)
(* to the first, and packets of the second are in the capture too.         *)
EXTENDS StreamDecoder

CONSTANTS ev1, secc1, secc2

OneEV    == {ev1}
TwoSECCs == {secc1, secc2}

ThreeWays == {<<ev1, secc1>>, <<secc1, ev1>>, <<secc2, ev1>>}

AnyCell == {0, 1}

=============================================================================
