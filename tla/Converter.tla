----------------------------- MODULE Converter ------------------------------
(***************************************************************************)
(* Conversions, from the request to the outcome: resolve_trz_output,       *)
(* convert_capture and _dispatch_capture (converter.py) as convert_pcap    *)
(* (extension.py) and the convert command (cli/convert.py) call them, the  *)
(* records of a packet (stream.py, pcap.py, slac.py and the emit_slac and  *)
(* emit_sdp of codec.py), the parser that tells CAN frames from other      *)
(* bytes (socketcan.py) and the CAN decoder behind it (can_ingest.py).     *)
(*                                                                         *)
(* Actions of one agent and commands of several shells run side by side.   *)
(* What they share is the file system: here the one output path that all   *)
(* of them were given, or arrived at by themselves, as session.pcap and    *)
(* session.pcapng both do at session.trz.                                  *)
(*                                                                         *)
(* A packet is what reading it depends on: its time, its link layer, the   *)
(* records it completes, and for one that nothing dissects the length and  *)
(* the fifth byte of its bytes and whether the DBC knows the CAN id.       *)
(* Reassembly and the EXI decoders are the business of modules             *)
(* StreamDecoder and Codec.                                                *)
(***************************************************************************)
EXTENDS Integers, Sequences, FiniteSets, SequencesExt

CONSTANTS
  Conversions,  \* the conversions that are asked for
  Jobs,         \* the requests each may be, by conversion
  Packets,      \* the packets the capture of each may hold, by conversion
  MaxPackets    \* bound on the packets of a capture

(* input: the capture; a file of another format; no file; or a trace, the  *)
(* very file at the output path.  respelled: of the two paths of a trace   *)
(* that is its own output one is spelled in another way.                   *)
Job ==
  [by : {"action", "cli"}, input : {"capture", "unsupported", "missing", "trace"},
   respelled : BOOLEAN, dbc : {"none", "there", "broken", "missing"}, overwrite : BOOLEAN]

ASSUME ConversionsAssumption == Conversions \cap {"nobody", "before"} = {}
ASSUME JobsAssumption == Jobs \in [Conversions -> SUBSET Job]

(* SLAC is recognised by its link frame; SDP and V2GTP by IPv6, with or    *)
(* without one.  len and groups of an MME: its bytes after the link header *)
(* and the number of attenuation groups it announces.                      *)
IsRecord(r, link) ==
  \/ r.kind \in {"sdp", "message"}
  \/ r.kind = "slac" /\ link # "none" /\ r.len \in Nat /\ r.groups \in 0 .. 255
     /\ r.name \in {"CM_ATTEN_CHAR.IND", "CM_SLAC_MATCH.CNF", "other"}

ASSUME PacketsAssumption ==
  \A c \in Conversions : \A p \in Packets[c] :
    /\ p.ts \in Nat
    /\ p.link \in {"ether", "cooked", "none"}
    /\ p.holds \in Seq(Range(p.holds))
    /\ \A r \in Range(p.holds) : IsRecord(r, p.link)
    /\ p.len \in Nat /\ p.fifth \in 0 .. 255 /\ p.known \in BOOLEAN
ASSUME MaxPacketsAssumption == MaxPackets \in Nat

VARIABLES
  job,    \* what each conversion was asked for
  pc,     \* where each conversion is
  file,   \* the file at the output path: whose it is and in what state
  alone,  \* history: since the conversion found the output path free, no
          \* other has created or removed a file there
  work    \* what a conversion has read and what it has made of it

vars == <<job, pc, file, alone, work>>

-----------------------------------------------------------------------------
Absent    == [by |-> "nobody", state |-> "absent"]
OldOutput == [by |-> "before", state |-> "complete"]

EventNames == {"slac", "slac_attenuation", "slac_match", "sdp", "message", "can_raw", "can_codec"}
Counters   == {"slac", "sdp", "message", "can_raw", "can_codec"}

(* parse_socketcan: the bytes have the length of a classic SocketCAN       *)
(* record and a data length of at most 8.                                  *)
IsSocketcan(p) == p.len = 16 /\ p.fifth <= 8

\* pcap._parse_slac, slac.parse_atten_char_ind and slac.parse_slac_match_cnf.
SlacHeader   == 5
IsMme(r)     == r.len >= 3
HasProfile(r) == /\ r.name = "CM_ATTEN_CHAR.IND"
                 /\ r.groups # 0 /\ r.len - SlacHeader >= 52 + r.groups
HasKeys(r)   == r.name = "CM_SLAC_MATCH.CNF" /\ r.len - SlacHeader >= 40

(* The events logged for one record.                                       *)
EventsOf(r) ==
  IF r.kind # "slac" THEN <<r.kind>>
  ELSE IF ~IsMme(r) THEN <<>>
  ELSE IF HasProfile(r) THEN <<"slac", "slac_attenuation">>
  ELSE IF HasKeys(r) THEN <<"slac", "slac_match">>
  ELSE <<"slac">>

\* What feed_packet has emitted for a packet.
V2gEvents(p) == FlattenSeq([i \in DOMAIN p.holds |-> EventsOf(p.holds[i])])

\* What the CAN decoder logs: the raw frame, and its signals with a DBC.
CanEvents(p, dbc) ==
  IF dbc # "none" /\ p.known THEN <<"can_raw", "can_codec">> ELSE <<"can_raw">>

(* _dispatch_capture: without a link frame a packet is a SocketCAN record  *)
(* or skipped; feed_packet sees the others.                                *)
MutEvents(p, dbc) ==
  IF IsSocketcan(p) THEN CanEvents(p, dbc)
  ELSE IF p.link # "none" THEN V2gEvents(p) ELSE <<>>
Events(p, dbc) ==
  IF p.link # "none" THEN V2gEvents(p)
  ELSE IF IsSocketcan(p) THEN CanEvents(p, dbc) ELSE <<>>

RowsOf(p, events) == [i \in 1 .. Len(events) |-> [event |-> events[i], ts |-> p.ts]]

(* track(ts): first and last are the least and the greatest time seen.     *)
MutTrack(s, t) == IF s = <<>> THEN <<t, t>> ELSE <<s[1], t>>
Track(s, t) ==
  IF s = <<>> THEN <<t, t>>
  ELSE <<IF t < s[1] THEN t ELSE s[1], IF t > s[2] THEN t ELSE s[2]>>

\* The counters that the records of a packet increment.
Count(c, events) ==
  [k \in Counters |-> c[k] + Cardinality({i \in DOMAIN events : events[i] = k})]

NoWork == [read |-> <<>>, rows |-> <<>>, counts |-> [k \in Counters |-> 0],
           span |-> <<>>, ingest |-> FALSE]

\* A packet has been read and everything it holds emitted and counted.
AfterPacket(w, p, events) ==
  [read   |-> Append(w.read, p),
   rows   |-> w.rows \o RowsOf(p, events),
   counts |-> Count(w.counts, events),
   span   |-> IF events = <<>> THEN w.span ELSE Track(w.span, p.ts),
   ingest |-> w.ingest \/ \E i \in DOMAIN events : events[i] = "can_raw"]

-----------------------------------------------------------------------------
Init ==
  /\ job \in {j \in [Conversions -> Job] : \A c \in Conversions : j[c] \in Jobs[c]}
  /\ pc = [c \in Conversions |-> "begin"]
  /\ file \in {Absent, OldOutput}
  /\ (\E c \in Conversions : job[c].input = "trace") => file = OldOutput
  /\ alone = [c \in Conversions |-> FALSE]
  /\ work = [c \in Conversions |-> NoWork]

InputThere(c) ==
  job[c].input \in {"capture", "unsupported"} \/ (job[c].input = "trace" /\ file # Absent)

GoTo(c, label) == pc' = [pc EXCEPT ![c] = label]

(* convert_pcap's test of the input; click's test of both files.           *)
Begin(c) ==
  /\ pc[c] = "begin"
  /\ IF InputThere(c) /\ ~(job[c].by = "cli" /\ job[c].dbc = "missing")
     THEN GoTo(c, "resolve") ELSE GoTo(c, "error")
  /\ UNCHANGED <<job, file, alone, work>>

(* resolve_trz_output.  The action has resolved both paths, the command    *)
(* compares them as they were typed.                                       *)
IsItsOutput(c) == job[c].input = "trace" /\ ~(job[c].by = "cli" /\ job[c].respelled)

MutRefuses(c) == IsItsOutput(c)
Refuses(c) == IsItsOutput(c) \/ (file # Absent /\ ~job[c].overwrite)

Resolve(c) ==
  /\ pc[c] = "resolve"
  /\ GoTo(c, IF Refuses(c) THEN "error" ELSE IF file = Absent THEN "validate" ELSE "unlink")
  /\ alone' = [alone EXCEPT ![c] = file = Absent]
  /\ UNCHANGED <<job, file, work>>

\* c has made the path free: who else found it free before is not alone.
Touches(c) == alone' = [d \in Conversions |-> d = c]

(* Path.unlink: the file may be gone by now, which is an error.            *)
Unlink(c) ==
  /\ pc[c] = "unlink"
  /\ IF file = Absent
     THEN GoTo(c, "error") /\ UNCHANGED <<file, alone>>
     ELSE GoTo(c, "validate") /\ file' = Absent /\ Touches(c)
  /\ UNCHANGED <<job, work>>

(* convert_capture's tests of the input, its suffix and the DBC.           *)
MutInvalid(c) == job[c].input # "capture"
Invalid(c) == job[c].input # "capture" \/ job[c].dbc = "missing"

Validate(c) ==
  /\ pc[c] = "validate"
  /\ GoTo(c, IF Invalid(c) THEN "error" ELSE "open")
  /\ UNCHANGED <<job, file, alone, work>>

(* TraceWriter (external) creates the file.  It may raise, and where one   *)
(* was created in the meantime it either raises or replaces it.            *)
Open(c) ==
  /\ pc[c] = "open"
  /\ \/ GoTo(c, "read")
        /\ file' = [by |-> c, state |-> "partial"]
        /\ alone' = [d \in Conversions |-> d = c /\ alone[c]]
     \/ GoTo(c, "error") /\ UNCHANGED <<file, alone>>
  /\ UNCHANGED <<job, work>>

(* CanIngest is created with the first CAN frame, and reads the DBC then.  *)
Chokes(c, events) == job[c].dbc = "broken" /\ \E i \in DOMAIN events : events[i] = "can_raw"

(* A packet is read and everything it holds is emitted.                    *)
ReadPacket(c, p) ==
  LET events == Events(p, job[c].dbc) IN
  /\ pc[c] = "read"
  /\ Len(work[c].read) < MaxPackets
  /\ ~Chokes(c, events)
  /\ work' = [work EXCEPT ![c] = AfterPacket(@, p, events)]
  /\ UNCHANGED <<job, pc, file, alone>>

\* The state of the trace after its writer has closed it.
Closed(c, state) == IF file.by = c THEN [file EXCEPT !.state = state] ELSE file

(* The reader, a callback or the DBC's parser raises, with n of the rows   *)
(* of the packet written: TraceWriter's exit closes the file, which stays, *)
(* and the caller reports an error.  The statistics go with the call.      *)
MutOutcome == "success"
Outcome == "error"
BreakOff(c, p, n) ==
  LET events == Events(p, job[c].dbc) IN
  /\ pc[c] = "read"
  /\ Len(work[c].read) < MaxPackets
  /\ n \in 0 .. (IF Chokes(c, events) THEN 0 ELSE Len(events))
  /\ work' = [work EXCEPT ![c].rows = @ \o SubSeq(RowsOf(p, events), 1, n)]
  /\ GoTo(c, Outcome)
  /\ UNCHANGED <<job, file, alone>>

(* The capture ends: the trace is closed and the statistics returned.      *)
Finish(c) ==
  /\ pc[c] = "read"
  /\ file' = Closed(c, "complete")
  /\ GoTo(c, "success")
  /\ UNCHANGED <<job, alone, work>>

(* The process of a conversion is killed: nothing is cleaned up.           *)
Crash(c) ==
  /\ pc[c] \in {"unlink", "validate", "open", "read"}
  /\ GoTo(c, "killed")
  /\ UNCHANGED <<job, file, alone, work>>

Step(c) ==
  \/ Begin(c) \/ Resolve(c) \/ Unlink(c) \/ Validate(c) \/ Open(c) \/ Finish(c) \/ Crash(c)
  \/ \E p \in Packets[c] : ReadPacket(c, p)
  \/ \E p \in Packets[c] : \E n \in 0 .. Len(Events(p, job[c].dbc)) : BreakOff(c, p, n)

Next == \E c \in Conversions : Step(c)

Spec == Init /\ [][Next]_vars

-----------------------------------------------------------------------------
Row == [event : EventNames, ts : Nat]

TypeOK ==
  /\ job \in [Conversions -> Job]
  /\ pc \in [Conversions -> {"begin", "resolve", "unlink", "validate", "open", "read",
                             "error", "success", "killed"}]
  /\ file \in [by : Conversions \cup {"nobody", "before"},
              state : {"absent", "partial", "complete"}]
  /\ alone \in [Conversions -> BOOLEAN]
  /\ \A c \in Conversions :
       /\ work[c].read \in Seq(Packets[c])
       /\ work[c].rows \in Seq(Row)
       /\ work[c].counts \in [Counters -> Nat]
       /\ work[c].span = <<>> \/ work[c].span \in Nat \X Nat
       /\ work[c].ingest \in BOOLEAN
       /\ pc[c] \in {"read", "success"} => job[c].input = "capture" /\ job[c].dbc # "missing"

V2gEventNames == {"slac", "slac_attenuation", "slac_match", "sdp", "message"}

\* A step of c does away with the file at the output path.
DoesAway(c) == pc'[c] # pc[c] /\ file # Absent /\ file'.by # file.by

(* A file at the output path is lost only to a conversion with overwrite,  *)
(* or in the race of one that found the path free before the file was      *)
(* made: that a file was there when the conversion was asked for is enough *)
(* to save it, whatever other conversions do in between                    *)
(* (resolve_trz_output: "deletes an existing output only when overwrite is *)
(* set").                                                                  *)
NoLossWithoutOverwrite ==
  [][\A c \in Conversions :
       DoesAway(c) => job[c].overwrite \/ (file.by # "before" /\ ~alone[c])]_vars

(* A capture is never its own output: a conversion that was given a trace  *)
(* as its input leaves it alone (resolve_trz_output: "refuses to overwrite *)
(* the input").                                                            *)
InputSurvives ==
  [][\A c \in Conversions : DoesAway(c) => job[c].input # "trace"]_vars

(* A conversion that reports success has left its own trace, whole, at the *)
(* output path, unless another one got in its way after it found the path  *)
(* free: neither a failure nor a crash of any conversion, nor leftovers of *)
(* an earlier one, can make a success of less.                             *)
SuccessLeavesTrace ==
  \A c \in Conversions :
    pc[c] = "success" /\ alone[c] => file = [by |-> c, state |-> "complete"]

RowsNamed(c, e) == {i \in DOMAIN work[c].rows : work[c].rows[i].event = e}

(* The statistics of a conversion that succeeds are those of the trace it  *)
(* wrote: one count per record, whatever else its frame also logged, and a *)
(* duration from the earliest to the latest row, in whatever order the     *)
(* packets of several interfaces stand in the capture.  CAN figures, and   *)
(* CAN tables, are there exactly if a CAN frame was.                       *)
ReportMatchesTrace ==
  \A c \in Conversions :
    LET w == work[c] IN
    pc[c] = "success" =>
      /\ w.ingest <=> RowsNamed(c, "can_raw") # {}
      /\ \A k \in Counters : w.counts[k] = Cardinality(RowsNamed(c, k))
      /\ w.span = <<>> <=> w.rows = <<>>
      /\ w.rows # <<>> =>
           /\ \A i \in DOMAIN w.rows : w.rows[i].ts \in w.span[1] .. w.span[2]
           /\ \A k \in {1, 2} : \E i \in DOMAIN w.rows : w.rows[i].ts = w.span[k]

(* The rows live mode would log for those of the packets read that have a  *)
(* link layer among links: it feeds every packet to the stream decoder     *)
(* (live.py).                                                              *)
LiveRows(read, links) ==
  FlattenSeq([i \in DOMAIN read |->
                IF read[i].link \in links THEN RowsOf(read[i], V2gEvents(read[i])) ELSE <<>>])

\* The V2G rows among rows, in their order.
V2gRows(rows) ==
  FlattenSeq([i \in DOMAIN rows |->
                IF rows[i].event \in V2gEventNames THEN <<rows[i]>> ELSE <<>>])

Framed   == {"ether", "cooked"}
Unframed == {"none"}

\* The packets read so far that have a link layer among links.
Read(c, links) == {i \in DOMAIN work[c].read : work[c].read[i].link \in links}

(* Of the packets with a link frame a conversion logs what live mode would *)
(* log, those rows and no others, in the same order, whatever CAN frames,  *)
(* raw IP packets or bytes of no kind lie between them and whatever their  *)
(* bytes look like; and only packets without one become CAN frames, each   *)
(* at most one (_dispatch_capture: "anything with no Ethernet/SLL link     *)
(* frame is a SocketCAN candidate").                                       *)
FramedTrafficAgrees ==
  \A c \in Conversions :
    pc[c] \in {"read", "success"} =>
      /\ V2gRows(work[c].rows) = LiveRows(work[c].read, Framed)
      /\ Cardinality(RowsNamed(c, "can_raw")) <= Cardinality(Read(c, Unframed))

(* What converting a capture does not log as live mode would, although     *)
(* _build_decoder says that "live and trace modes produce identical rows", *)
(* it skips at least, "without misreading non-CAN bytes" (parse_socketcan):*)
(* no packet that carries V2G traffic becomes a CAN frame.                 *)
LeftOutNotMisread ==
  \A c \in Conversions :
    (/\ pc[c] \in {"read", "success"}
     /\ V2gRows(work[c].rows) # LiveRows(work[c].read, Framed \cup Unframed))
      => Cardinality(RowsNamed(c, "can_raw"))
           <= Cardinality({i \in DOMAIN work[c].read : work[c].read[i].holds = <<>>})

=============================================================================
