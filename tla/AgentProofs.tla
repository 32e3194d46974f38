----------------------------- MODULE AgentProofs ----------------------------
(* In every execution of the agent mode Get Status is linearizable, and    *)
(* the mode is left only when that was asked for.  The agent with a replay *)
(* behaves as AppMode says, and the replay keeps time, for any capture,    *)
(* any time lost between packets and any setting of the clock.             *)
EXTENDS Agent, TLAPS

(* What a call under way has seen.  Since the first read it has found the  *)
(* extension running; because nothing clears captureFailed, a capture that *)
(* works at the second read worked at the first, when both halves of the   *)
(* status were true.                                                       *)
CallInv ==
  /\ observed \subseteq BOOLEAN
  /\ running \in BOOLEAN /\ captureFailed \in BOOLEAN
  /\ call = "between" => Healthy \in observed
  /\ call = "between" /\ ~captureFailed => TRUE \in observed

StatusInv == CallInv /\ StatusLinearizable

(* A step that keeps the call and what it reads keeps the invariant.       *)
LEMMA Untouched ==
  ASSUME StatusInv,
         UNCHANGED <<running, captureFailed, call, answer, observed>>
  PROVE  StatusInv'
  BY DEF StatusInv, CallInv, StatusLinearizable, Healthy

(* A step of another thread that writes the flags keeps it as well, as     *)
(* long as it does not clear captureFailed: a call under way sees the new  *)
(* status.                                                                 *)
LEMMA Watched ==
  ASSUME StatusInv, Watch,
         running' \in BOOLEAN, captureFailed' \in BOOLEAN,
         captureFailed => captureFailed',
         UNCHANGED <<call, answer>>
  PROVE  StatusInv'
<1>1. observed \subseteq observed'
  BY DEF Watch
<1>2. observed' \subseteq BOOLEAN
  BY DEF Watch, Healthy, StatusInv, CallInv
<1>3. call' = "between" => Healthy' \in observed'
  BY DEF Watch
<1>4. call' = "between" /\ ~captureFailed' => TRUE \in observed'
  BY <1>1 DEF StatusInv, CallInv
<1>5. StatusLinearizable'
  BY <1>1 DEF StatusInv, StatusLinearizable
<1> QED
  BY <1>2, <1>3, <1>4, <1>5 DEF StatusInv, CallInv

(* Both reads of get_status, and every step of the threads beside it, keep *)
(* the invariant.                                                          *)
THEOREM StatusInvariant == Spec => []StatusInv
<1>1. Init => StatusInv
  BY DEF Init, StatusInv, CallInv, StatusLinearizable
<1>2. StatusInv /\ [Next]_vars => StatusInv'
  <2> SUFFICES ASSUME StatusInv, [Next]_vars
               PROVE  StatusInv'
    OBVIOUS
  <2>1. CASE LoadConfig \/ Setup \/ InstallHandlers \/ Spawn \/ Leave
    BY <2>1, Untouched
    DEF LoadConfig, Setup, InstallHandlers, Install, Spawn, Leave
  <2>2. CASE Start
    BY <2>2, Watched DEF Start, StatusInv, CallInv
  <2>3. CASE SniffReturns
    BY <2>3, Untouched DEF SniffReturns
  <2>4. CASE ReportFailure
    BY <2>4, Watched DEF ReportFailure, StatusInv, CallInv
  <2>5. CASE StatusFirst
    <3>1. call' # "between" => answer' \in observed' /\ call' = "done"
      BY <2>5 DEF StatusFirst, Read, Healthy
    <3>2. observed' \subseteq BOOLEAN /\ Healthy' \in observed'
      BY <2>5 DEF StatusFirst, Healthy, StatusInv, CallInv
    <3>3. call' = "between" /\ ~captureFailed' => TRUE \in observed'
      BY <2>5 DEF StatusFirst, Read, Healthy, StatusInv, CallInv
    <3>4. StatusLinearizable'
      BY <2>5, <3>1 DEF StatusFirst, StatusLinearizable
    <3> QED
      BY <2>5, <3>2, <3>3, <3>4 DEF StatusFirst, StatusInv, CallInv
  <2>6. CASE StatusSecond
    <3>1. answer' \in observed'
      <4>1. call = "between" /\ answer' = ~captureFailed /\ observed' = observed
        BY <2>6, SMT DEF StatusSecond, Read
      <4>2. CASE captureFailed
        <5>1. Healthy = FALSE /\ answer' = FALSE
          BY <4>1, <4>2 DEF Healthy
        <5> QED
          BY <4>1, <5>1 DEF StatusInv, CallInv
      <4>3. CASE ~captureFailed
        <5>1. answer' = TRUE
          BY <4>1, <4>3
        <5> QED
          BY <4>1, <4>3, <5>1 DEF StatusInv, CallInv
      <4> QED
        BY <4>2, <4>3
    <3> QED
      BY <2>6, <3>1 DEF StatusSecond, StatusInv, CallInv, StatusLinearizable
  <2>7. ASSUME NEW s \in Signals, Shutdown(s) \/ Kill(s)
        PROVE  StatusInv'
    <3>1. CASE Shutdown(s)
      BY <3>1, Watched DEF Shutdown, Stopped, StatusInv, CallInv
    <3>2. CASE Kill(s)
      BY <3>2, Untouched DEF Kill
    <3> QED
      BY <2>7, <3>1, <3>2
  <2>8. CASE UNCHANGED vars
    BY <2>8, Untouched DEF vars
  <2> QED
    BY <2>1, <2>2, <2>3, <2>4, <2>5, <2>6, <2>7, <2>8
    DEF Next, Main, Capture, Status, Signal
<1> QED
  BY <1>1, <1>2, PTL DEF Spec

(* Get Status only gives an answer that was true at some moment of the     *)
(* call, however signals, the main thread and the capture thread are       *)
(* scheduled around its two reads.                                         *)
THEOREM StatusAlwaysLinearizable == Spec => []StatusLinearizable
<1>1. StatusInv => StatusLinearizable
  BY DEF StatusInv
<1> QED
  BY <1>1, StatusInvariant, PTL

-----------------------------------------------------------------------------
(* While the main thread idles and no shutdown has been handled, running   *)
(* stands as start() set it: nothing but shutdown_handler clears it.       *)
IdlesWhileRunning == main = "run" /\ asked = "never" => running

ModeInv == TypeOK /\ IdlesWhileRunning

LEMMA MainInv ==
  ASSUME ModeInv, Main PROVE ModeInv'
<1>1. CASE LoadConfig \/ Setup \/ Leave
  BY <1>1 DEF LoadConfig, Setup, Leave, ModeInv, TypeOK, IdlesWhileRunning
<1>2. CASE InstallHandlers
  BY <1>2 DEF InstallHandlers, Install, Signals, ModeInv, TypeOK, IdlesWhileRunning
<1>3. CASE Spawn
  BY <1>3 DEF Spawn, ModeInv, TypeOK, IdlesWhileRunning
<1>4. CASE Start
  <2>1. observed' \subseteq BOOLEAN
    BY <1>4 DEF Start, Watch, Healthy, ModeInv, TypeOK
  <2> QED
    BY <1>4, <2>1 DEF Start, ModeInv, TypeOK, IdlesWhileRunning
<1> QED
  BY <1>1, <1>2, <1>3, <1>4 DEF Main

LEMMA CaptureInv ==
  ASSUME ModeInv, Capture PROVE ModeInv'
<1>1. CASE SniffReturns
  BY <1>1 DEF SniffReturns, ModeInv, TypeOK, IdlesWhileRunning
<1>2. CASE ReportFailure
  <2>1. observed' \subseteq BOOLEAN
    BY <1>2 DEF ReportFailure, Watch, Healthy, ModeInv, TypeOK
  <2> QED
    BY <1>2, <2>1 DEF ReportFailure, ModeInv, TypeOK, IdlesWhileRunning
<1> QED
  BY <1>1, <1>2 DEF Capture

LEMMA CallTypes ==
  ASSUME ModeInv, Status PROVE ModeInv'
<1>1. CASE StatusFirst
  BY <1>1 DEF StatusFirst, Healthy, ModeInv, TypeOK, IdlesWhileRunning
<1>2. CASE StatusSecond
  <2>1. answer' \in BOOLEAN
    BY <1>2 DEF StatusSecond, Read
  <2> QED
    BY <1>2, <2>1 DEF StatusSecond, ModeInv, TypeOK, IdlesWhileRunning
<1> QED
  BY <1>1, <1>2 DEF Status

LEMMA SignalInv ==
  ASSUME ModeInv, Signal PROVE ModeInv'
<1>1. PICK s \in Signals : Shutdown(s) \/ Kill(s)
  BY DEF Signal
<1>2. CASE Shutdown(s)
  <2>1. observed' \subseteq BOOLEAN
    BY <1>2 DEF Shutdown, Watch, Healthy, ModeInv, TypeOK
  <2> QED
    BY <1>2, <2>1 DEF Shutdown, Stopped, ModeInv, TypeOK, IdlesWhileRunning
<1>3. CASE Kill(s)
  BY <1>3 DEF Kill, ModeInv, TypeOK, IdlesWhileRunning
<1> QED
  BY <1>1, <1>2, <1>3

(* The agent mode's variables keep their types, and its idle loop finds    *)
(* running cleared only after a shutdown signal was handled.               *)
THEOREM ModeInvariant == Spec => []ModeInv
<1>1. Init => ModeInv
  BY DEF Init, ModeInv, TypeOK, IdlesWhileRunning, Signals
<1>2. ModeInv /\ [Next]_vars => ModeInv'
  <2> SUFFICES ASSUME ModeInv, [Next]_vars PROVE ModeInv'
    OBVIOUS
  <2>1. CASE UNCHANGED vars
    BY <2>1 DEF vars, ModeInv, TypeOK, IdlesWhileRunning
  <2> QED
    BY <2>1, MainInv, CaptureInv, CallTypes, SignalInv DEF Next
<1> QED
  BY <1>1, <1>2, PTL DEF Spec

(* Only a shutdown ends an extension that came up: no failed capture and   *)
(* no order of the threads makes the idle loop end without one.            *)
THEOREM OnlyAskedLeaves == Spec => LeavesOnlyWhenAsked
<1>1. ModeInv /\ [Next]_vars => [main = "run" /\ main' = "exited" => asked # "never"]_vars
  <2> SUFFICES ASSUME ModeInv, Next, main = "run", main' = "exited"
               PROVE  asked # "never"
    OBVIOUS
  <2>1. CASE Main
    BY <2>1 DEF Main, LoadConfig, Setup, InstallHandlers, Install, Spawn, Start, Leave,
                ModeInv, IdlesWhileRunning
  <2>2. CASE Capture \/ Status
    BY <2>2 DEF Capture, Status, SniffReturns, ReportFailure, StatusFirst, StatusSecond
  <2>3. CASE Signal
    BY <2>3 DEF Signal, Shutdown, Kill
  <2> QED
    BY <2>1, <2>2, <2>3 DEF Next
<1> QED
  BY <1>1, ModeInvariant, PTL DEF Spec, LeavesOnlyWhenAsked

-----------------------------------------------------------------------------
(* What makes the next release punctual: as long as the clock is not set,  *)
(* it will have reached the packet's shifted time when the sleep is over,  *)
(* or stands where it stood if that has passed.  That no sleep began at a  *)
(* later number of settings keeps the premise from coming true again.      *)
SleepsUntilDue ==
  /\ ready.settings =< settings
  /\ feed = "sleep" /\ settings = ready.settings =>
       clock + left = IF packet + offset > ready.at THEN packet + offset ELSE ready.at

\* One offset, once it is known, has shifted every time stamp.
ShiftedByOffset ==
  /\ released # <<>> => offset # NoOffset
  /\ \A i \in 1 .. Len(released) : released[i].stamp = released[i].ts + offset

FeedInv == FeedTypeOK /\ ShiftedByOffset /\ SleepsUntilDue /\ ReleasedWhenDue

LEMMA FeedInitInv == FeedInit => FeedInv
<1> SUFFICES ASSUME FeedInit PROVE FeedInv
  OBVIOUS
<1>1. FeedTypeOK
  BY TimesAssumption, BoundsAssumption DEF FeedInit, FeedTypeOK
<1> QED
  BY <1>1 DEF FeedInit, FeedInv, ShiftedByOffset, SleepsUntilDue, ReleasedWhenDue

LEMMA ReadNextInv ==
  ASSUME FeedInv, NEW t \in Times, ReadNext(t) PROVE FeedInv'
<1>1. clock \in Int /\ t \in Int
  BY TimesAssumption DEF FeedInv, FeedTypeOK
<1>2. offset' \in Int
  BY <1>1 DEF ReadNext, FeedInv, FeedTypeOK
<1>3. FeedTypeOK'
  BY <1>2, NoOffsetAssumption DEF ReadNext, FeedInv, FeedTypeOK
<1>4. ShiftedByOffset'
  BY <1>2, NoOffsetAssumption DEF ReadNext, FeedInv, ShiftedByOffset
<1> QED
  BY <1>3, <1>4 DEF ReadNext, FeedInv, SleepsUntilDue, ReleasedWhenDue

LEMMA PaceInv ==
  ASSUME FeedInv, Pace PROVE FeedInv'
<1>1. packet \in Int /\ offset \in Int /\ clock \in Int
  BY TimesAssumption DEF Pace, FeedInv, FeedTypeOK
<1>2. left' \in Nat
  BY <1>1 DEF Pace, Delay
<1>3. FeedTypeOK'
  BY <1>2 DEF Pace, FeedInv, FeedTypeOK
<1>4. SleepsUntilDue'
  <2>1. settings \in Nat /\ settings' = settings
        /\ ready'.at = clock /\ ready'.settings = settings
    BY BoundsAssumption DEF Pace, FeedInv, FeedTypeOK
  <2>2. clock' + left' = IF packet' + offset' > ready'.at THEN packet' + offset' ELSE ready'.at
    BY <1>1, <2>1 DEF Pace, Delay
  <2> QED
    BY <2>1, <2>2 DEF SleepsUntilDue
<1> QED
  BY <1>3, <1>4 DEF Pace, FeedInv, ShiftedByOffset, ReleasedWhenDue

LEMMA ReleaseInv ==
  ASSUME FeedInv, Release PROVE FeedInv'
<1> DEFINE r == [ts |-> packet, stamp |-> packet + offset, ready |-> ready.at, at |-> clock,
                 disturbed |-> settings # ready.settings]
           n == Len(released)
<1>1. packet \in Times /\ packet \in Int /\ offset \in Int /\ clock \in Int
      /\ ready.at \in Int /\ left = 0 /\ offset # NoOffset
  BY TimesAssumption, NoOffsetAssumption DEF Release, Slept, FeedInv, FeedTypeOK
<1>2. r \in [ts : Times, stamp : Int, ready : Int, at : Int, disturbed : BOOLEAN]
  BY <1>1
<1>3. released' = Append(released, r)
  BY DEF Release, Retime
<1>4. released \in Seq([ts : Times, stamp : Int, ready : Int, at : Int, disturbed : BOOLEAN])
  BY DEF FeedInv, FeedTypeOK
<1> HIDE DEF r
<1>5. n \in Nat /\ Len(released') = n + 1 /\ released'[n + 1] = r
      /\ \A i \in 1 .. n : released'[i] = released[i]
  BY <1>2, <1>3, <1>4
<1>6. FeedTypeOK'
  <2>1. released' \in Seq([ts : Times, stamp : Int, ready : Int, at : Int, disturbed : BOOLEAN])
    BY <1>2, <1>3, <1>4
  <2> QED
    BY <2>1 DEF Release, FeedInv, FeedTypeOK
<1>7. ShiftedByOffset'
  <2>1. r.stamp = r.ts + offset
    BY DEF r
  <2>2. ASSUME NEW i \in 1 .. n + 1
        PROVE  released'[i].stamp = released'[i].ts + offset
    BY <1>5, <2>1, <2>2 DEF FeedInv, ShiftedByOffset
  <2> QED
    BY <1>1, <1>5, <2>2 DEF Release, ShiftedByOffset
<1>8. ReleasedWhenDue'
  <2>1. ASSUME ~r.disturbed
        PROVE  r.at = IF r.stamp > r.ready THEN r.stamp ELSE r.ready
    <3>1. /\ r.stamp = packet + offset /\ r.ready = ready.at /\ r.at = clock
          /\ r.disturbed = (settings # ready.settings)
      BY DEF r
    <3>2. clock + left = IF packet + offset > ready.at THEN packet + offset ELSE ready.at
      BY <2>1, <3>1 DEF Release, FeedInv, SleepsUntilDue
    <3> QED
      BY <1>1, <3>1, <3>2
  <2>2. ASSUME NEW i \in 1 .. n + 1
        PROVE  ~released'[i].disturbed =>
                 released'[i].at = IF released'[i].stamp > released'[i].ready
                                   THEN released'[i].stamp ELSE released'[i].ready
    BY <1>5, <2>1, <2>2 DEF FeedInv, ReleasedWhenDue
  <2> QED
    BY <1>5, <2>2 DEF ReleasedWhenDue
<1> QED
  BY <1>6, <1>7, <1>8 DEF Release, FeedInv, SleepsUntilDue

LEMMA FeedEndsInv ==
  ASSUME FeedInv, EndOfCapture \/ Break PROVE FeedInv'
<1>1. FeedTypeOK'
  BY DEF EndOfCapture, Break, FeedInv, FeedTypeOK
<1> QED
  BY <1>1 DEF EndOfCapture, Break, FeedInv, ShiftedByOffset, SleepsUntilDue, ReleasedWhenDue

LEMMA TickInv ==
  ASSUME FeedInv, Tick PROVE FeedInv'
<1>1. clock \in Int /\ clock' \in Int /\ clock' = clock + 1 /\ left \in Nat
  BY DEF Tick, FeedInv, FeedTypeOK
<1>2. left' \in Nat /\ lag' \in 0 .. MaxLag
  BY BoundsAssumption DEF Tick, FeedInv, FeedTypeOK
<1>3. FeedTypeOK'
  BY <1>1, <1>2 DEF Tick, FeedInv, FeedTypeOK
<1>4. SleepsUntilDue'
  BY <1>1 DEF Tick, FeedInv, SleepsUntilDue
<1> QED
  BY <1>3, <1>4 DEF Tick, FeedInv, ShiftedByOffset, ReleasedWhenDue

LEMMA SetClockInv ==
  ASSUME FeedInv, NEW d \in Settings, SetClock(d) PROVE FeedInv'
<1>1. clock' \in Int
  BY SettingsAssumption DEF SetClock, FeedInv, FeedTypeOK
<1>2. settings \in Nat /\ settings' = settings + 1 /\ settings' \in 0 .. MaxSettings
  BY BoundsAssumption DEF SetClock, FeedInv, FeedTypeOK
<1>3. FeedTypeOK'
  BY <1>1, <1>2 DEF SetClock, FeedInv, FeedTypeOK
<1>4. SleepsUntilDue'
  <2>1. ready' = ready /\ ready.settings \in Int /\ ready.settings =< settings
    BY DEF SetClock, FeedInv, FeedTypeOK, SleepsUntilDue
  <2>2. ready'.settings =< settings' /\ settings' # ready'.settings
    BY <1>2, <2>1
  <2> QED
    BY <2>2 DEF SleepsUntilDue
<1> QED
  BY <1>3, <1>4 DEF SetClock, FeedInv, ShiftedByOffset, ReleasedWhenDue

-----------------------------------------------------------------------------
(* The replay's invariant holds in every execution of the agent.           *)
THEOREM FeedInvariant == AgentSpec => []FeedInv
<1>1. AgentInit => FeedInv
  BY FeedInitInv DEF AgentInit
<1>2. FeedInv /\ [AgentNext]_agentVars => FeedInv'
  <2> SUFFICES ASSUME FeedInv, [AgentNext]_agentVars PROVE FeedInv'
    OBVIOUS
  <2>1. CASE UNCHANGED feedVars
    BY <2>1 DEF feedVars, FeedInv, FeedTypeOK, ShiftedByOffset, SleepsUntilDue, ReleasedWhenDue
  <2>2. CASE Replaying
    BY <2>2, ReadNextInv, PaceInv, ReleaseInv, FeedEndsInv DEF Replaying, FeedStep
  <2>3. CASE Ticking
    BY <2>3, TickInv DEF Ticking
  <2>4. CASE Settling
    BY <2>4, SetClockInv DEF Settling
  <2> QED
    BY <2>1, <2>2, <2>3, <2>4 DEF AgentNext, Others, Returning, agentVars
<1> QED
  BY <1>1, <1>2, PTL DEF AgentSpec

(* The replay moves all time stamps by one amount, whenever the clock is   *)
(* set and however late packets are released.                              *)
THEOREM SpacingIsExact == AgentSpec => []SpacingExact
<1>1. FeedInv => SpacingExact
  <2> SUFFICES ASSUME FeedInv, NEW i \in 1 .. Len(released), NEW j \in 1 .. Len(released)
               PROVE  released[i].stamp - released[j].stamp = released[i].ts - released[j].ts
    BY DEF SpacingExact
  <2>1. released \in Seq([ts : Times, stamp : Int, ready : Int, at : Int, disturbed : BOOLEAN])
    BY DEF FeedInv, FeedTypeOK
  <2>2. released[i].ts \in Int /\ released[j].ts \in Int
    <3> DEFINE R == [ts : Times, stamp : Int, ready : Int, at : Int, disturbed : BOOLEAN]
    <3>1. ASSUME NEW r \in R PROVE r.ts \in Int
      <4>1. r.ts \in Times
        BY Zenon
      <4>2. \A t \in Times : t \in Int
        BY TimesAssumption
      <4> QED
        BY <4>1, <4>2, Zenon
    <3>2. released \in Seq(R)
      BY <2>1
    <3> HIDE DEF R
    <3>3. released[i] \in R /\ released[j] \in R
      BY <3>2
    <3> QED
      BY <3>1, <3>3
  <2>3. offset \in Int
    BY DEF FeedInv, FeedTypeOK, ShiftedByOffset
  <2>4. released[i].stamp = released[i].ts + offset /\ released[j].stamp = released[j].ts + offset
    BY DEF FeedInv, ShiftedByOffset
  <2> QED
    BY <2>2, <2>3, <2>4
<1> QED
  BY <1>1, FeedInvariant, PTL

(* A packet for which the replay slept undisturbed is released when its    *)
(* shifted time comes, or at once.                                         *)
THEOREM ReleasesAreDue == AgentSpec => []ReleasedWhenDue
<1>1. FeedInv => ReleasedWhenDue
  BY DEF FeedInv
<1> QED
  BY <1>1, FeedInvariant, PTL

(* The agent with a replay implements the agent whose capture thread may   *)
(* end in any way: what is proved of AppMode holds of it.                  *)
THEOREM AgentImplementsAppMode == AgentSpec => Spec
<1>1. AgentInit => Init
  BY DEF AgentInit
<1>2. [AgentNext]_agentVars => [Next]_vars
  BY DEF AgentNext, Others, Replaying, Ticking, Settling, Returning, Next, Capture, agentVars
<1> QED
  BY <1>1, <1>2, PTL DEF AgentSpec, Spec

(* Get Status is linearizable with a replay as well.                       *)
THEOREM AgentStatusLinearizable == AgentSpec => []StatusLinearizable
BY AgentImplementsAppMode, StatusAlwaysLinearizable, PTL

(* The agent and its replay keep their types.                              *)
THEOREM AgentTypes == AgentSpec => []AgentTypeOK
<1>1. AgentInit => replaying \in BOOLEAN
  BY DEF AgentInit
<1>2. replaying \in BOOLEAN /\ [AgentNext]_agentVars => (replaying \in BOOLEAN)'
  BY DEF AgentNext, Others, Replaying, Ticking, Settling, Returning, agentVars
<1>3. ModeInv /\ FeedInv /\ replaying \in BOOLEAN => AgentTypeOK
  BY DEF ModeInv, FeedInv, AgentTypeOK
<1> QED
  BY <1>1, <1>2, <1>3, AgentImplementsAppMode, ModeInvariant, FeedInvariant, PTL DEF AgentSpec

(* A replay that breaks off does not end the agent: the idle loop is left  *)
(* only after a shutdown signal was handled.                               *)
THEOREM AgentOnlyAskedLeaves == AgentSpec => LeavesOnlyWhenAsked
BY AgentImplementsAppMode, OnlyAskedLeaves, PTL

=============================================================================
