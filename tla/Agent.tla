------------------------------- MODULE Agent --------------------------------
(***************************************************************************)
(* The extension in agent mode (module AppMode) whose capture thread plays *)
(* a capture file (module Replay), or else listens to an interface.        *)
(*                                                                         *)
(* AppMode lets sniff_into return at any time and with any result, which   *)
(* is all that is known of an interface.  Here a replay makes it return    *)
(* when it has played to its end or broken off.                            *)
(***************************************************************************)
EXTENDS AppMode, Replay

VARIABLE replaying   \* replay_pcap is configured

agentVars == <<vars, feedVars, replaying>>

-----------------------------------------------------------------------------
AgentInit ==
  /\ Init
  /\ FeedInit
  /\ replaying \in BOOLEAN
  /\ replaying => capturing

Feeding == Alive /\ capture = "sniffing" /\ replaying

(* A step of _replay_into on the capture thread.                           *)
Replaying == Feeding /\ FeedStep /\ UNCHANGED <<vars, replaying>>

(* Time goes by, or the wall clock is set.                                 *)
Ticking  == Feeding /\ Tick /\ UNCHANGED <<vars, replaying>>
Settling == Feeding /\ (\E d \in Settings : SetClock(d)) /\ UNCHANGED <<vars, replaying>>

(* sniff_into passes on how _replay_into ended.                            *)
MutPassesOn == TRUE
PassesOn ==
  replaying => \/ feed = "done" /\ capture' = "ended"
               \/ feed = "failed" /\ capture' = "failing"

Returning == SniffReturns /\ PassesOn /\ UNCHANGED <<feedVars, replaying>>

Others == (Main \/ ReportFailure \/ Status \/ Signal) /\ UNCHANGED <<feedVars, replaying>>

AgentNext == Others \/ Replaying \/ Ticking \/ Settling \/ Returning

AgentSpec == AgentInit /\ [][AgentNext]_agentVars

(* Besides what AppMode assumes: a replay is sequential code, time goes    *)
(* by, and sniff_into returns when the replay has ended.                   *)
AgentFairSpec ==
  /\ AgentSpec
  /\ WF_agentVars(Main /\ UNCHANGED <<feedVars, replaying>>)
  /\ WF_agentVars(ReportFailure /\ UNCHANGED <<feedVars, replaying>>)
  /\ WF_agentVars(Replaying)
  /\ WF_agentVars(Ticking)
  /\ WF_agentVars(Returning /\ replaying)

-----------------------------------------------------------------------------
AgentTypeOK == TypeOK /\ FeedTypeOK /\ replaying \in BOOLEAN

(* A replay that nobody shuts down comes to its end, and what the agent is *)
(* told then is how it ended: it does not hang on a clock that was set,    *)
(* and one that broke off shows in the status.                             *)
ReplayEnds ==
  (capture = "sniffing" /\ replaying)
    ~> \/ Over
       \/ capture = "ended" /\ (captureFailed <=> feed = "failed")

=============================================================================
