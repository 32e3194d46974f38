---------------------------- MODULE MCConverter -----------------------------
EXTENDS Converter

CONSTANTS c1, c2

Two == {c1, c2}
One == {c1}

Request(by, input, dbc, overwrite) ==
  [by |-> by, input |-> input, respelled |-> FALSE, dbc |-> dbc, overwrite |-> overwrite]

(* The first conversion reads many captures, the second is asked for in    *)
(* many ways.                                                              *)
MCJobs ==
  [c \in Two |->
     IF c = c1
     THEN {Request("action", "capture", dbc, w) : dbc \in {"none", "there", "broken"},
                                                  w \in BOOLEAN}
     ELSE {Request(by, input, dbc, w) :
             by \in {"action", "cli"}, input \in {"capture", "unsupported", "missing", "trace"},
             dbc \in {"none", "missing"}, w \in BOOLEAN}
          \cup {[Request("action", "trace", "none", TRUE) EXCEPT !.respelled = TRUE]}]

Packet(ts, link, holds) ==
  [ts |-> ts, link |-> link, holds |-> holds, len |-> 60, fifth |-> 0, known |-> FALSE]

Sdp     == [kind |-> "sdp"]
Message == [kind |-> "message"]
Mme(name, len, groups) == [kind |-> "slac", name |-> name, len |-> len, groups |-> groups]

CanFrame == [Packet(0, "none", <<>>) EXCEPT !.len = 16]

(* Ethernet or cooked captures beside a CAN bus, time stamps out of order. *)
(* A packet with three records, SLAC bodies at the edge of their length, a *)
(* V2GTP message of 16 bytes in a TCP segment, which looks like a          *)
(* SocketCAN record, with a link frame and without; an SDP datagram        *)
(* without one, and undissected bytes that are no record.                  *)
MCPackets ==
  [c \in Two |->
     IF c = c1
     THEN { Packet(1, "ether", <<Mme("CM_ATTEN_CHAR.IND", 115, 58)>>),
            Packet(3, "ether", <<Mme("CM_ATTEN_CHAR.IND", 114, 58)>>),
            Packet(2, "cooked", <<Mme("CM_SLAC_MATCH.CNF", 45, 0)>>),
            Packet(2, "ether", <<Mme("other", 2, 0)>>),
            Packet(5, "cooked", <<Sdp>>),
            Packet(4, "ether", <<Message, Message, Message>>),
            [Packet(4, "ether", <<Message>>) EXCEPT !.len = 16],
            [Packet(7, "none", <<Message>>) EXCEPT !.len = 16], Packet(7, "none", <<Sdp>>),
            CanFrame, [CanFrame EXCEPT !.known = TRUE, !.ts = 6],
            [CanFrame EXCEPT !.fifth = 9], [CanFrame EXCEPT !.len = 72] }
     ELSE { Packet(1, "ether", <<Message>>) }]

(* A raw IPv6 capture: no link frame in front of the packets.  The payload *)
(* of the last is a V2GTP header, whose fifth byte is 0, and 8 bytes.      *)
RawIpJobs    == [c \in One |-> {Request("action", "capture", "none", FALSE)}]
RawIpPackets == [c \in One |-> {Packet(1, "none", <<Sdp>>), Packet(2, "none", <<Message>>),
                                  [Packet(3, "none", <<Message>>) EXCEPT !.len = 16]}]

(* A trace given as the input and, spelled in another way, as the output.  *)
TraceJobs ==
  [c \in One |-> {[Request(by, "trace", "none", TRUE) EXCEPT !.respelled = TRUE] :
                    by \in {"action", "cli"}}]

=============================================================================
