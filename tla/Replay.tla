------------------------------- MODULE Replay -------------------------------
(***************************************************************************)
(* _replay_into with realtime (live.py): packets of a capture are released *)
(* on a clock that is shifted so that the first of them lands at now, and  *)
(* what they hold is logged with shifted time stamps.                      *)
(*                                                                         *)
(* Time is counted in ticks.  clock is time.time(), which somebody may set *)
(* while the replay runs; time.sleep is not affected by that.  A sleep     *)
(* ends on time; between sleeps the code may take time, too.               *)
(***************************************************************************)
EXTENDS Integers, Sequences

CONSTANTS
  Times,       \* the time stamps of the packets of a capture
  MaxPackets,  \* bound on the packets of a capture
  MaxLag,      \* bound on the time spent outside sleeps
  Settings,    \* by how much the clock may be set forward or back
  MaxSettings, \* bound on how often
  NoOffset     \* None

ASSUME TimesAssumption == Times \subseteq Nat /\ Times # {}
ASSUME SettingsAssumption == Settings \subseteq Int
ASSUME BoundsAssumption == MaxPackets \in Nat /\ MaxLag \in Nat /\ MaxSettings \in Nat
ASSUME NoOffsetAssumption == NoOffset \notin Int

VARIABLES
  feed,      \* "read", "pace", "sleep", "done" or "failed"
  packet,    \* the time stamp of the packet at hand
  offset,    \* offset
  left,      \* what is left of the current sleep
  ready,     \* history: the clock when that sleep began, and settings then
  clock,     \* time.time()
  lag,       \* time spent outside sleeps
  settings,  \* how often the clock was set
  released   \* history: what was fed to the decoder and when

feedVars == <<feed, packet, offset, left, ready, clock, lag, settings, released>>

-----------------------------------------------------------------------------
FeedInit ==
  /\ feed = "read"
  /\ packet = CHOOSE t \in Times : TRUE
  /\ offset = NoOffset
  /\ left = 0
  /\ ready = [at |-> 0, settings |-> 0]
  /\ clock = 0
  /\ lag = 0
  /\ settings = 0
  /\ released = <<>>

(* The next packet is read; the first one fixes the offset.                *)
ReadNext(t) ==
  /\ feed = "read"
  /\ Len(released) < MaxPackets
  /\ packet' = t
  /\ offset' = IF offset = NoOffset THEN clock - t ELSE offset
  /\ feed' = "pace"
  /\ UNCHANGED <<left, ready, clock, lag, settings, released>>

\* the time since the packet before
MutDelay == packet - (IF released = <<>> THEN packet ELSE released[Len(released)].ts)
Delay == packet + offset - clock

(* Sleep until the packet is due on the shifted clock.                     *)
Pace ==
  /\ feed = "pace"
  /\ feed' = "sleep"
  /\ left' = IF Delay > 0 THEN Delay ELSE 0
  /\ ready' = [at |-> clock, settings |-> settings]
  /\ UNCHANGED <<packet, offset, clock, lag, settings, released>>

\* retime
MutRetime(t) == clock
Retime(t) == t + offset

MutSlept == left < 0
Slept == left = 0

(* The packet is fed to the decoder, which logs what it completes.         *)
Release ==
  /\ feed = "sleep"
  /\ Slept
  /\ released' = Append(released,
       [ts |-> packet, stamp |-> Retime(packet), ready |-> ready.at, at |-> clock,
        disturbed |-> settings # ready.settings])
  /\ feed' = "read"
  /\ UNCHANGED <<packet, offset, left, ready, clock, lag, settings>>

EndOfCapture ==
  /\ feed = "read"
  /\ feed' = "done"
  /\ UNCHANGED <<packet, offset, left, ready, clock, lag, settings, released>>

(* The reader or a callback raises.                                        *)
Break ==
  /\ feed = "read"
  /\ feed' = "failed"
  /\ UNCHANGED <<packet, offset, left, ready, clock, lag, settings, released>>

FeedStep == (\E t \in Times : ReadNext(t)) \/ Pace \/ Release \/ EndOfCapture \/ Break

(* A tick of time, while the thread sleeps or is slow.                     *)
Tick ==
  /\ \/ feed = "sleep" /\ left > 0 /\ left' = left - 1 /\ UNCHANGED lag
     \/ feed \in {"read", "pace"} /\ lag < MaxLag /\ lag' = lag + 1 /\ UNCHANGED left
  /\ clock' = clock + 1
  /\ UNCHANGED <<feed, packet, offset, ready, settings, released>>

(* The wall clock is set.                                                  *)
SetClock(d) ==
  /\ feed \in {"read", "pace", "sleep"}
  /\ settings < MaxSettings
  /\ settings' = settings + 1
  /\ clock' = clock + d
  /\ UNCHANGED <<feed, packet, offset, left, ready, lag, released>>

-----------------------------------------------------------------------------
FeedTypeOK ==
  /\ feed \in {"read", "pace", "sleep", "done", "failed"}
  /\ packet \in Times
  /\ offset \in Int \cup {NoOffset}
  /\ left \in Nat /\ clock \in Int /\ lag \in 0 .. MaxLag /\ settings \in 0 .. MaxSettings
  /\ ready \in [at : Int, settings : 0 .. MaxSettings]
  /\ released \in Seq([ts : Times, stamp : Int, ready : Int, at : Int, disturbed : BOOLEAN])
  /\ feed \in {"pace", "sleep"} => offset # NoOffset

(* A replay moves every time stamp by the same amount, so that time        *)
(* differences in the live view are those of the capture, however the      *)
(* clock was set meanwhile and however late a packet was released          *)
(* (_replay_into: "Spacing stays exact; only the epoch moves").            *)
SpacingExact ==
  \A i, j \in 1 .. Len(released) :
    released[i].stamp - released[j].stamp = released[i].ts - released[j].ts

(* A packet is released at its shifted time, or at once when that has      *)
(* passed: the time the code loses between two packets delays none that    *)
(* was not due yet, delays do not add up, and a clock that was set only    *)
(* misplaces the packet that was being waited for, each later one being    *)
(* on time again (_replay_into: "release each frame when its shifted time  *)
(* comes").                                                                *)
ReleasedWhenDue ==
  \A i \in 1 .. Len(released) :
    LET r == released[i] IN
    ~r.disturbed => r.at = IF r.stamp > r.ready THEN r.stamp ELSE r.ready

=============================================================================
