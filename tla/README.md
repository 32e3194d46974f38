# TLA+ project for zelos-extension-v2g

The extension reads Vehicle-to-Grid traffic (SLAC, SDP, V2GTP with EXI, and CAN
beside it) from a capture file, a replay or a network interface, and writes it
as typed events to a trace (`.trz`) or to a running Zelos agent.  The modules
here model its control: the framing of TCP byte streams, the demultiplexing of
connections, the rows and statistics of the codec, the offline conversion and
the process in agent mode with a replay.  TLC checks each model on small
instances; TLAPS proves for all instances the safety of the framer, of the
decoder's numbering and labels, of the codec's rows and statistics, of the file
at a conversion's output path, of the replay's clock and of the status call.

Run from this directory: `tlc -config X.cfg M` for a run of the table below and
`tlapm M.tla` for a module with proofs.

## 1. The system

    interface / replay / file / stdin
            | packets (scapy)
            v
    converter.py _dispatch_capture        live.py sniff_into
            |  raw bytes   \ link frame        |
            v               v                  v
    socketcan.py     stream.py V2gStreamDecoder (one per capture)
            |           |  _Framer per TCP direction, one for each SDP datagram
            v           v  on_slac, on_sdp, on_message
    can_ingest.py    codec.py V2gCodec -> exi/libv2g.py -> native shim -> libcbv2g
            |           |
            v           v
       zelos-can     event sources -> TraceWriter (trace mode) or SDK (live mode)

`cli/app.py` starts the agent mode: main thread, capture thread, the SDK's
thread for the actions of `extension.py`, and signal handlers.  Everything below
`feed_packet` is synchronous: the callbacks return before the next packet is
read.

### Components, what they keep and what makes them correct

| component | state | operations | hard behaviour | correct when |
|---|---|---|---|---|
| framer (`stream.py` `_Framer`) | `buf` | `feed`: append, resync, yield, return | cuts at any byte; start in the middle of a message; stray bytes | frames are on the wire; no header skipped; cuts do not matter; `feed` returns |
| stream decoder (`stream.py`, `pcap.py`, `protocol.v2g_direction`) | framers by four-tuple, SECC endpoint, index | `feed_packet` (SLAC, SDP and TCP branch) | flows interleave; an endpoint announced late or again | flows do not mix; index dense in order of completion; every message has the role that the last announcement gives its flow |
| codec (`codec.py`) | registered event schemas | `emit_message`, `emit_slac`, `emit_sdp` | first message fixes the columns; `log_at` may raise half way | a raw row per message; field rows beside it; columns are those of the first message of a type |
| EXI binding and shim (`exi/libv2g.py`, `native/v2g_din_shim.c`) | none between calls | `decode_*` | optional fields; text printed unescaped; library missing | a failing decoder does not hide the next |
| converter (`converter.py`, `convert_pcap` of `extension.py`, `cli/convert.py`) | output file, statistics, time span, `CanIngest` | resolve, delete, validate, open, read, close | several conversions to one path; failures and crashes between steps; time stamps out of order; raw-IP captures | report equals trace; a success left its trace; nothing lost without `overwrite`; trace equals live |
| SocketCAN and CAN ingest | `CanIngest` created on the first frame | parse, ingest | other bytes that look like a CAN record | packets with a link frame never lead to CAN rows |
| agent mode (`cli/app.py`, `extension.py`) | `running`, `capture_failed`, threads, handlers | start, run, stop, `get_status`, capture | signals and failures at any moment | status was true; a failure stays visible; a shutdown shuts down |
| live capture and replay (`live.py`) | the replay's `offset` | `sniff_into`, `_replay_into` | ends on an error or at the end of a replay; a wall clock that is set | the end is reported; spacing is the capture's; each packet on time |
| SLAC and SDP body parsers (`slac.py`, `pcap.py`) | none | `_parse_slac`, `_parse_sdp`, `parse_*` | bodies at the edge of their length | the rows a frame has follow from its length |
| stdin decode, other command line, build scripts | – | – | – | not modelled, section 7 |

PROJECT.json lists the same components with their status and, under `hazards`,
what can go wrong in each at its line of code.

## 2. Modules

| module | models | composed with |
|---|---|---|
| `Framer` | `_Framer`, one action per iteration of its loop, on bytes | base of the next two |
| `FramerBytes` | the framer fed with arbitrary bytes | extends `Framer` |
| `MessageChannel` | abstract: messages sent come out in order, once each; one that was damaged may come out as anything and hide others | – |
| `V2gtpFlow` | peer, TCP stream, capture with losses and framer of one direction | extends `Framer`; implements `MessageChannel` |
| `StreamDecoder` | `V2gStreamDecoder` over many flows | abstracts `Framer`'s bytes to cells |
| `Codec` | `emit_message`, event schemas, `on_message`, decoder order | – |
| `Converter` | conversions side by side, from request to outcome, and the file at their output path | takes `StreamDecoder`'s and `Codec`'s results as the packet's content |
| `AppMode` | the process in agent mode | takes `sniff_into` as a thread that may end or fail |
| `Replay` | `_replay_into` at the capture's pace, on a clock that may be set | – |
| `Agent` | the process in agent mode whose capture thread may be a replay | extends `AppMode` and `Replay`; implements `AppMode` |
| `MC*` | the constants of a run | extend the module they name |
| `FramerProofs`, `FramerBytesProofs`, `V2gtpFlowProofs`, `StreamDecoderProofs`, `CodecProofs`, `ConverterProofs`, `AgentProofs` | theorems | extend the module they name |
| `Induction` | induction over numbers, for the proofs | – |

How state and actions correspond to the code:

* **Framer.** `buf` is `self.buf`, `frames` what the generator has yielded.
  `Feed` is the call up to the first loop test, `Resync` `del self.buf[0]`,
  `Yield` the removal of a frame and its `yield`, `Suspend` the loop's exits.
  The payload length is kept as two 16-bit halves, since a 32-bit number does
  not fit TLC's integers; theorem `FitsMeaning` says that comparing halves is
  comparing lengths.  `received`, `consumed` and `starts` are history.
* **V2gtpFlow.** `wire` is the TCP byte stream, `Capture(n)` the next packet of
  `n` bytes, `join` the offset at which the capture began, `Lose(n)` a piece
  that reached the peer but not the capture.  A loss at a message boundary also
  stands for a new connection on the four-tuple of one that ended in the middle
  of a message: both reach the same framer.  `Retransmit` repeats bytes and
  exists in `RetransmitSpec` only.  `where` is history: it tells of each byte
  received where in the stream it stood, so that a frame can be traced to the
  message it was read from.
* **StreamDecoder.** `framers`, `index`, `secc` are the fields of the same
  names; `TcpPacket`, `Resync`, `Message`, `TcpDone` are the TCP branch,
  `SdpDatagram`, `SdpFrame`, `SdpDone` the SDP branch of `feed_packet`.  A
  message is `Parts` cells, the first of which is the header.
* **Codec.** One action per message: `RawMessage`, `DecodedMessage`, and
  `RefusedMessage` for the row that `log_at` refuses.  `Prints` is the table of
  field sets the shim prints for each type.  `strict` covers both ways in which
  the external trace writer may treat an unknown field.
* **Converter.** `Begin` is the test of the input that `convert_pcap`, or click,
  makes first; `Resolve` and `Unlink` are `resolve_trz_output`, in two steps
  because another process may come between the test and the deletion; `Validate`
  the tests at the head of `convert_capture`; `Open` the trace writer's creation;
  `ReadPacket` a turn of the reading loop with `_dispatch_capture`, the decoder's
  callbacks, `emit_slac` with its second row and the CAN ingest; `BreakOff` an
  exception in it; `Finish` the return; `Crash` a killed process.  `file` is the
  one output path the conversions share; `alone` is history: it says whether
  another conversion has touched the path since this one found it free.
* **AppMode.** `main` walks through `run_app_mode` and `V2gConverter.run`;
  `Shutdown` is `shutdown_handler` between any two steps of the main thread,
  `Kill` the default action of a signal whose handler is not yet installed;
  `StatusFirst` and `StatusSecond` are the two reads of `get_status`.
* **Replay.** `ReadNext` reads a packet and, for the first one, sets `offset`;
  `Pace` computes the delay and begins the sleep; `Release` feeds the packet to
  the decoder, whose callbacks stamp it with `Retime`.  `Tick` lets time pass in
  sleeps and, `MaxLag` ticks in all, outside them; `SetClock` sets the wall clock,
  which moves `time.time()` but not the end of a `time.sleep`.
* **Agent.** The capture thread of `AppMode` takes `Replay`'s steps while it
  runs `sniff_into` on a capture file, and `Returning` passes on how they ended.
  Without a replay it is `AppMode`.

Definitions named `Mut...` are plausible bugs beside the definition they change;
no specification uses them.  PROJECT.json pairs each with the property that
must notice it.

## 3. Runs

| run | properties | what it shows | bounds and why they suffice |
|---|---|---|---|
| `framer_bytes` | `TypeOK FramesOnWire OnlyStrayDropped NothingWithheld SegmentationIrrelevant FeedReturns` | for arbitrary input in arbitrary cuts the frames are those of the whole input read at once (`Batch`) | 17 bytes from seven segments: two empty frames or one with a body and stray bytes around it, headers cut in half and at single bytes, a length field that reads as a header |
| `flow` | `FlowTypeOK Delivery RefinesChannel CapturedIsDelivered` | a direction, even from the middle of a message and with a piece lost anywhere, implements the message channel; a captured message needs no later packet, and after a loss every message that the damaged one does not claim comes out | three messages with bodies of 0 or 2 bytes, every cut, one loss of any length, joins at 0, in the first header and in a later place: a message before, at and after the join, one that is cut, one it swallows and one behind |
| `flow_retransmit` | `Delivery` (violated) | a repeated TCP segment is framed again | two messages |
| `decoder` | `TypeOK FlowsApart UpToDate IndexIsOrder RoleIsRight` | interleaved flows, both directions and a second charger, with SDP at any point | two messages of two cells a flow, two SDP frames: the least in which a flow is interrupted in a message and the endpoint changes in between |
| `codec` | `TypeOK EveryMessageOnTimeline FieldsBesideMessage DecodedIsLogged StatsMatchTrace ProtocolIsFirst ColumnsOfFirst` | rows, columns and statistics over any sequence of messages, with and without the library, with a strict or a lenient writer | three messages of ten kinds, one per way through the code: a repeated type with another field set and a message after it |
| `codec_fields` | `FirstDefinesAll` (violated) | a later message has a field the first had not | two messages of one type |
| `codec_protocol` | `NegotiatedProtocol` (violated) | with two offers the first is reported | a request and a response |
| `converter` | `TypeOK SuccessLeavesTrace ReportMatchesTrace FramedTrafficAgrees NoLossWithoutOverwrite` | two conversions to one path, one by the action with every kind of packet, one by action or command with every kind of request, with a failure or a crash at every point | captures of two packets from thirteen: each kind of content, SLAC bodies one byte too short and just long enough, times out of order, a V2G message as long as a CAN record, with a link frame and without.  Two conversions are the least that can get in each other's way; more of them are the theorems' business |
| `converter_raw_ip` | `LeftOutNotMisread` (violated) | V2G traffic without a link frame is decoded live and left out offline, and a message of 16 bytes is even logged as a CAN frame | two packets of three |
| `converter_input` | `InputSurvives` (violated) | the command deletes a trace that is its own output in another spelling | one conversion |
| `agent` | `AgentTypeOK StatusLinearizable SpacingExact ReleasedWhenDue ErrorStaysVisible LeavesOnlyWhenAsked ShutdownOfRunning ReplayEnds` | status calls, signals and the capture against start and idle loop, with a replay or without | the process's states are finite; captures of three packets with two times, so that a packet is due later, at once or before the one ahead of it; one tick lost outside sleeps; one setting of the clock, by more than the longest sleep, in either direction |
| `app_mode_early_signal` | `ShutdownStops` (violated) | a signal before `start()` is forgotten | none |

Symmetry is not used: the model values play distinct roles (`MCStreamDecoder`
has flows for one charger in both directions and for the other in one).

All runs say `CHECK_DEADLOCK FALSE`: captures, conversions and the process
really end, at the latest at the bound.  The bounds are `MaxBytes`,
`MaxMessages`, `MaxSdp`, `MaxPackets`, `MaxLosses`, `MaxLag` and `MaxSettings`;
each is a guard of the action that brings in input, loss, delay or disturbance
and of no other, so work that has begun is always finished.

### Fairness

* `FramerBytes` and `V2gtpFlow`: weak fairness of the framer's loop.  `feed` is
  sequential code and its caller exhausts the generator, so an iteration that can
  run does.  Neither the peer nor the capture is fair: traffic may stop anywhere.
* `AppMode`: weak fairness of `Main`, which only computes and sleeps, and of
  `ReportFailure`, the statement after `sniff_into` returned.  A capture need not
  end, and nobody need send a signal or ask for the status.
* `Agent`: the same of `AppMode`, and weak fairness of the replay's steps, which
  are sequential code; of `Ticking`, since time passes and a sleep ends; and of
  `sniff_into`'s return once the replay is over.  That a capture file is finite
  is `MaxPackets`.
* The other specifications have safety properties only and assume none.

## 4. Where the code and its documentation differ

The runs marked "violated" show behaviours that a comment or the README of the
repository denies; PROJECT.json quotes the lines.

1. `flow_retransmit`: sequence numbers are never looked at, so a segment that TCP
   sends again is framed again, although `stream.py` speaks of TCP reassembly.
2. `codec_fields`: the shim's field set is not fixed for
   `ChargeParameterDiscoveryReq`, `ChargeParameterDiscoveryRes` and ISO's
   `SessionSetupRes`, so the first message does not define all columns.
3. `codec_protocol`: the protocol reported is the first offer, not the one that
   was negotiated.
4. `converter_raw_ip`: two claims fail together on a raw IPv6 capture, and the
   property is an implication whose counterexample refutes both.  Live and trace
   modes do not log identical rows (`live.py`): the conversion never hands a
   packet without a link frame to the stream decoder.  And the bytes it hands to
   `parse_socketcan` instead are not all told from CAN ("without misreading
   non-CAN bytes", `socketcan.py`): a TCP payload of 16 bytes that is one V2GTP
   message becomes a `can_raw` row.
5. `converter_input`: the `convert` command compares input and output as typed,
   so that with `--force` a trace that is named as input and, in another
   spelling, as output is deleted, although `resolve_trz_output` "refuses to
   overwrite the input".  The action resolves both paths first.
6. `app_mode_early_signal`: a signal between the installation of the handlers
   and `start()` is acknowledged and has no effect.

The last two are bugs of the code rather than of its description.

## 5. Proofs

Assumptions on the constants are those the modules name: segments are byte
strings; the messages of a flow have a type and a body of less than 2^16 each;
the flows of a decoder are pairs of a vehicle's and a charger's endpoint, which
differ; bounds are natural numbers and a message has at least one part.  TLC
evaluates them in every run.

Every invariant that a run checks is also a theorem, for all values of the
constants, and so is the refinement of the message channel.  Two theorems need a
hypothesis besides, which is named and explained where it occurs below:
`Recognisable` and `Marked`.

**The framer, for every input and every cut** (`FramerProofs`,
`FramerBytesProofs`).  `FramesOnWire` is not inductive: that the next frame
stands on the wire holds because the buffer is the unread part of the input.
The inductive invariant `FramerInv` therefore adds

* `Window`: `buf` is `received` from offset `consumed` on; and
* `OnlyStrayDropped`, itself a property: `Window` tells that the byte `Resync`
  drops is one at which no header stands.

`FramerProofs` has a lemma for each step (`Feed` only extends the input, which
keeps all facts about offsets already there; `Yield` appends one frame that ends
where the next one can begin) and `FitsMeaning`, the arithmetic of 16-bit halves.
`FramerBytesProofs` lifts them to the specification: `FramerBytesInv`, and from
it `TypeCorrect`, `FramesAreOnWire`, `ResyncDropsOnlyStray` and
`NoFrameWithheld`.  Bodies of any length below 2^32 are covered, which the run
with its 17 bytes cannot show.

`SegmentationNeverMatters` compares the framer, fed in pieces, with `Batch`, which
reads the whole input at once.  Its invariant `Whole` looks ahead: whatever
string `t` may still arrive, the frames yielded and those that reading
`received \o t` from `consumed` on gives are together those of
`Batch(received \o t)`.  A step of the loop is then one unfolding of the
reading, and an arriving packet is a choice of `t`.  Reading recurs from an
offset to a greater one; that there is such a function, and that it satisfies
its equation, is an induction on what is left (`FromExists`, `FromReads`).
Induction over numbers is in `Induction`, stated with sets: the set of the
numbers of which something holds is all of `Nat`.

**One direction from end to end** (`V2gtpFlowProofs`).  `FlowTypes` is
`FlowTypeOK` for any traffic.  `DeliveryAlways` is the main result about the
framer: without loss it yields what the peer sent.  Its invariant has three
parts:

* `Layout`: the messages stand on the wire one after the other, each at its
  place and with no gap;
* `InView`: what was received is the stream from `join` on;
* `Track`: with `f` the number of messages that begin before the capture, the
  frames are the messages from `f + 1` on, and the place up to which the framer
  has read lies between the last of them and the next message.

`Located` concludes that this place is the beginning of the next message, or
inside one that began before the capture.  In the first case a header is read
there, and the frame is the message (`MessageIsFrame`, from the encoder's
arithmetic); in the second the framer must find no header (`NoHeaderInside`), so
that it drops bytes up to the next message.  The second case needs
`Recognisable`: the capture begins with the stream, or no two neighbouring bytes
of a message, other than its first two, are 1 and 254.  Without either,
a framer that starts inside a message can take a part of it for a header: the
protocol has no escape, and no decoder could tell.  That a version byte ends one
message and the next begins with another is no such case.

**The message channel, whatever is lost** (`V2gtpFlowProofs`).
`FlowRefinesChannel` shows that every step of the flow is one of `MessageChannel`
or leaves its variables alone, for any number of losses of any length.  What was
received is no longer a part of the stream, but each byte of it stands for one:
the invariant `RefInv` says which (`where`, which rises: `Traced`), beside the
layout of the messages (`Laid`) and the framer's own invariant (`FlowIInv`).
The rest follows from a state in which `RefInv` holds:

* `HeaderSource`: a header that the framer found is that of one message;
* `MessageInside`, `ReadWhole`: a frame that begins at an undamaged message is
  that message, and ends where it ends (`Together`: bytes of a message
  none of which was lost lie side by side);
* `SourcesRise`: no message is the source of two frames;
* `Passed`: a message between two frames that no frame was read from is damaged,
  or lies behind a damaged one.  Here `OnlyStrayDropped`
  matters: the resync cannot have dropped an undamaged header.

From them `MappedAlways` computes what the refinement mapping shows of the
state, and one lemma for each action gives the step: `SimSend`, `SimLose`,
`SimYield`; all other steps change nothing that the channel sees.

The hypothesis is `Marked`: the only byte 254 of a message is the second of its
header.  `Recognisable` is too weak here, because a loss brings bytes
together that were apart in the stream.  Bodies on the wire can hold 254; a framer
that lost bytes may then read a frame out of the inside of a damaged message,
and nothing is claimed of that case.

The messages of the run satisfy both, which `MCV2gtpFlow` assumes and TLC evaluates.

**The decoder, for every set of flows** (`StreamDecoderProofs`).  `RoleIsRight`
speaks of the endpoints announced before a message; a new message is labelled
with `secc`, so the invariant needs `SeccIsLast`: the endpoint in use is the last
of those.  `DecoderInvariant` proves `TypeOK /\ SeccIsLast /\ IndexIsOrder /\
RoleIsRight`, and `DecoderTypes`, `IndexDense` and `RoleNeverWrong` follow, for
any number of vehicles, chargers and cells per message.

`FlowsApart` and `UpToDate` are one invariant, `ApartInv`.  `InStep` says of
each flow that its framer holds the cells up to where the flow was captured
(`At`), and that the next message due (`Due`) begins there, or later only if none
has come out yet, which is the case of a capture that began inside a message.
`Quiet` says that the loop has nothing left to take up, of every flow but the one
whose packet is being read: a packet disturbs one flow only, because framers are
kept by key.

**The status of the agent mode** (`AgentProofs`).  `StatusLinearizable` says
something only about a call that has ended; `StatusInv` adds what a call between
its two reads has seen.  The heart of it: the first read found the extension
running, and nothing ever clears `captureFailed`, so a capture that works at the
second read worked at the first, when the whole status was true.  The proof
splits on the writers of the two flags: a step that touches neither (`Untouched`)
and one that writes them and is seen by the call (`Watched`).  The state is finite,
so the run is already complete; the proof says why it holds.  `OnlyAskedLeaves`,
an action property, needs to know that the idle loop finds `running` cleared only
after a shutdown was handled (`ModeInv`).

**The codec, for any messages and either writer** (`CodecProofs`).  The
statistics are counted by `on_message`, the rows are written by `emit_message`,
and a refused row ends both half way; `CodecInv` says that they agree at each
point where that can happen: counts are cardinalities of sets of rows
(`PlacesAppend`), a field row is appended only behind its message row
(`RowsInv`), and `FirstOf` states `ProtocolIsFirst` over a prefix of the messages
so that a step can extend it (`ProtocolInv`).  `FieldsAlwaysBesideMessage`,
`StatsAlwaysMatchTrace` and `ProtocolAlwaysFirst` follow.

`ColumnsAlwaysOfFirst` is inductive only with its second half: a type is met for
the first time when it has no event yet, which says something about the messages
before because every type that told something has one (`ColumnsGrow`).

`TimelineInvariant` relates rows to messages.  The message of a row is the one of
its rank, the number of message rows up to it; `Timeline` and `Logged` are
functions of a sequence of rows, so that the lemmas of the three kinds of step
(one row appended, two, or none behind a row) can be about sequences.
`EveryMessageAlwaysOnTimeline` and `DecodedAlwaysLogged` follow.  In
`CodecTypesInvariant` the names of rows come from the shim's tables, and an event
whose columns were learned from a message has only columns the shim can print.

**The output path, for any number of conversions** (`ConverterProofs`).
`FileInv` adds to `SuccessLeavesTrace` what a conversion that nobody has got in
the way of knows at every point before (`OwnsPath`: the path is still free, or
holds its own partial file), and to `NoLossWithoutOverwrite` why no old output
can be in the way later (`OldIsGone`: a conversion deletes only with `overwrite`,
and past that point no file from before is there, as nobody makes one).  Steps
that leave the file alone are one lemma, `QuietInv`; `UnlinkInv`, `OpenInv` and
`FinishInv` are the ones at which the others lose their claim.  It assumes that
no conversion is called "nobody" or "before", the owners of a file that is not
there or was there first.

**Trace and report, for any capture** (`ConverterProofs`).  `WorkInv` says of
each conversion, at every packet, what `ReportMatchesTrace` says of one that
succeeded: counts are cardinalities of the rows of a name (`NamedConcat`: those of rows that
are appended add up), the span is that of the rows written so far, and CAN ingest exists
if and only if a CAN frame was seen.  It also has to follow what `Validate` let
through: only a capture gets as far as being read.  `ConverterTypeCorrect` and
`ReportAlwaysMatchesTrace` follow, over all interleavings and failures.

`FramedTrafficAlwaysAgrees` is proved packet by packet: what a packet with a link
frame adds to the trace is what it adds live; one without adds CAN rows, which
`V2gRows` leaves out, or none; and flattening the rows of a longer sequence
appends.  It has no hypothesis: raw IP packets with V2G traffic are among those
without a link frame, and what becomes of them is `converter_raw_ip`'s matter.

**The replay, for any capture and clock** (`AgentProofs`).  `FeedInv` adds
`SleepsUntilDue`: as long as the clock has not been set since a sleep began, the
clock and what is left of the sleep add up to the time the packet is due, or to
the time at which the sleep began if that is later.  It must also know that the number of
settings at that time is not in the future, or a later setting could make the
premise true again.  `ShiftedByOffset` gives `SpacingIsExact`.
`AgentImplementsAppMode` shows that every step of the agent is one of `AppMode`
or leaves its variables alone; `AgentStatusLinearizable`, `AgentOnlyAskedLeaves`
and part of `AgentTypes` are its uses.

**Only model-checked.**  Liveness (`FeedReturns`, `CapturedIsDelivered`,
`ErrorStaysVisible`, `ReplayEnds`, `ShutdownOfRunning`), because the prover
has no support for fairness and `ENABLED`.

## 6. Abstractions to know when reading the results

* The messages of `MCV2gtpFlow` have the second byte of a header, 254, in no
  body; with it the resync may take the inside of a body for a message, which
  `OnlyStrayDropped` allows and `Delivery` would not.  The same holds for
  `StreamDecoder`'s cells.  A version byte at the end of a body is there.
* A message of `V2gtpFlow` whose header was cut may claim anything of what
  follows, up to the 4 GiB of its length field (`Claimed`); the code has no way
  to know.
* What the trace writer does is external: in `Converter` it may raise, and may
  replace or refuse a file that appeared since; in `Codec` it raises at, or drops,
  what does not fit its columns.
* A broken DBC raises at the first CAN frame, before a row of that frame.
* `Codec` leaves values, units and enumeration tables out.  Which bytes a grammar
  of libcbv2g accepts is an input, and so is whether the text printed for a
  document is whole and JSON (`json`): the runs show what becomes of a message
  whose text is not, not that `libv2g.py` notices it.
* `Converter` lets a packet that holds a message complete one: reassembly over
  packets is `StreamDecoder`'s.
* `StreamDecoder` has no step in which a callback raises: the exception leaves
  `feed_packet` and ends the capture (`Converter.BreakOff`, `AppMode.SniffReturns`),
  and the decoder is not used again.
* `AppMode` takes one status call at a time and a capture thread that can
  neither be stopped nor restarted, as in the code, where it is a daemon.

## 7. Not modelled

* The stdin decoder (`cli/decode.py`, `decode_stream_into`) and the fast replay:
  loops over `feed_packet` that keep nothing of their own and wait for nothing.
* Values: what SLAC, SDP and EXI fields contain, their units and value tables,
  ids and flags of CAN frames (an error frame is logged as data), and the
  nanoseconds lost in a float.  No statement of the repository about them depends
  on the order of events.
* Interfaces: `sniff` is a thread that may end in any way.
* Argument parsing, printing, build scripts; libcbv2g, scapy, zelos-can and the
  SDK, which are external.

## 8. Plan

Done in this order: `Framer` and its bytes, the flow and its channel, the
decoder, the codec, the converter, the agent mode; losses and replaced
connections in the flow, several conversions with crashes, the replay and its
composition with the agent; proofs of every invariant that the runs check.

Left: the liveness properties stay with TLC.  The parts listed as partly modelled
can grow in two directions: the values of fields (section 7), and a framer that lost
bytes under messages that are not `Marked`, for which the channel would have to
allow frames of no message.
