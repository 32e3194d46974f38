------------------------------ MODULE AppMode -------------------------------
(***************************************************************************)
(* The extension as the agent runs it: run_app_mode (cli/app.py) brings    *)
(* the process up and then idles in V2gConverter.run (extension.py).       *)
(* Beside the main thread there are the capture thread, when an interface  *)
(* or a replay is configured, the SDK's thread that answers Get Status,    *)
(* and signals, whose handlers run on the main thread between any two of   *)
(* its steps.                                                              *)
(***************************************************************************)
EXTENDS Integers

VARIABLES
  main,           \* where the main thread is
  handled,        \* the signals for which shutdown_handler is installed
  capturing,      \* an interface or a replay is configured: codec is not None
  running,        \* converter.running
  captureFailed,  \* converter.capture_failed
  capture,        \* the capture thread
  call,           \* a get_status call: "idle", "between" its two reads, "done"
  answer,         \* what the last call returned
  observed,       \* history: the true values of the status during the call
  asked           \* history: when shutdown_handler was last invoked

vars == <<main, handled, capturing, running, captureFailed, capture,
          call, answer, observed, asked>>

Signals == {"SIGTERM", "SIGINT"}

Over  == main \in {"exited", "killed"}
Alive == ~Over

\* The SDK serves actions from zelos_sdk.init on.
Serving == Alive /\ main \notin {"load", "setup"}

Healthy == running /\ ~captureFailed

\* A call that is under way sees the value that a step brings about.
Watch == observed' = IF call = "between" THEN observed \cup {Healthy'} ELSE observed

-----------------------------------------------------------------------------
Init ==
  /\ main = "load"
  /\ handled = {}
  /\ capturing \in BOOLEAN
  /\ running = FALSE
  /\ captureFailed = FALSE
  /\ capture = "none"
  /\ call = "idle"
  /\ answer = FALSE
  /\ observed = {}
  /\ asked = "never"

(* load_config: a configuration off the schema ends the process.           *)
LoadConfig ==
  /\ main = "load"
  /\ main' \in {"setup", "exited"}
  /\ UNCHANGED <<handled, capturing, running, captureFailed, capture,
                 call, answer, observed, asked>>

(* V2gConverter(), V2gCodec(), register, zelos_sdk.init.                   *)
Setup ==
  /\ main = "setup"
  /\ main' = "sigterm"
  /\ UNCHANGED <<handled, capturing, running, captureFailed, capture,
                 call, answer, observed, asked>>

Install(s, at, next) ==
  /\ main = at
  /\ main' = next
  /\ handled' = handled \cup {s}
  /\ UNCHANGED <<capturing, running, captureFailed, capture,
                 call, answer, observed, asked>>

InstallHandlers ==
  \/ Install("SIGTERM", "sigterm", "sigint")
  \/ Install("SIGINT", "sigint", "spawn")

(* Thread(target=capture, daemon=True).start(), if there is a codec.       *)
MutSpawn ==
  /\ main = "spawn"
  /\ main' = "start"
  /\ capture' = "sniffing"
  /\ UNCHANGED <<handled, capturing, running, captureFailed,
                 call, answer, observed, asked>>
Spawn ==
  /\ main = "spawn"
  /\ main' = "start"
  /\ capture' = IF capturing THEN "sniffing" ELSE capture
  /\ UNCHANGED <<handled, capturing, running, captureFailed,
                 call, answer, observed, asked>>

(* V2gConverter.start                                                      *)
MutStart ==
  /\ main = "start"
  /\ main' = "run"
  /\ running' = TRUE
  /\ captureFailed' = FALSE
  /\ UNCHANGED <<handled, capturing, capture, call, answer, asked>>
  /\ Watch
Start ==
  /\ main = "start"
  /\ main' = "run"
  /\ running' = TRUE
  /\ UNCHANGED <<handled, capturing, captureFailed, capture, call, answer, asked>>
  /\ Watch

(* The idle loop of V2gConverter.run finds running cleared.  While it is   *)
(* set the loop sleeps and tests it again.                                 *)
Leave ==
  /\ main = "run"
  /\ ~running
  /\ main' = "exited"
  /\ UNCHANGED <<handled, capturing, running, captureFailed, capture,
                 call, answer, observed, asked>>

\* V2gConverter.stop
MutStopped == running
Stopped == FALSE

(* A signal with a handler: shutdown_handler calls converter.stop().       *)
Shutdown(s) ==
  /\ Alive
  /\ s \in handled
  /\ running' = Stopped
  /\ asked' = IF main = "run" THEN "running" ELSE "starting"
  /\ UNCHANGED <<main, handled, capturing, captureFailed, capture, call, answer>>
  /\ Watch

(* A signal without one: its default action ends the process.              *)
Kill(s) ==
  /\ Alive
  /\ s \notin handled
  /\ main' = "killed"
  /\ UNCHANGED <<handled, capturing, running, captureFailed, capture,
                 call, answer, observed, asked>>

(* sniff_into returns: False when the capture stopped on an error.         *)
SniffReturns ==
  /\ Alive
  /\ capture = "sniffing"
  /\ capture' \in {"ended", "failing"}
  /\ UNCHANGED <<main, handled, capturing, running, captureFailed,
                 call, answer, observed, asked>>

MutReportFailure ==
  /\ Alive
  /\ capture = "failing"
  /\ capture' = "ended"
  /\ captureFailed' = TRUE
  /\ running' = FALSE
  /\ UNCHANGED <<main, handled, capturing, call, answer, asked>>
  /\ Watch
ReportFailure ==
  /\ Alive
  /\ capture = "failing"
  /\ capture' = "ended"
  /\ captureFailed' = TRUE
  /\ UNCHANGED <<main, handled, capturing, running, call, answer, asked>>
  /\ Watch

(* get_status: self.running and not self.capture_failed, read one after    *)
(* the other, the second only if the first is true.                        *)
MutRead(i) == IF i = 1 THEN ~captureFailed ELSE running
Read(i) == IF i = 1 THEN running ELSE ~captureFailed

StatusFirst ==
  /\ Serving
  /\ call # "between"
  /\ call' = IF Read(1) THEN "between" ELSE "done"
  /\ answer' = FALSE
  /\ observed' = {Healthy}
  /\ UNCHANGED <<main, handled, capturing, running, captureFailed, capture, asked>>

StatusSecond ==
  /\ Serving
  /\ call = "between"
  /\ call' = "done"
  /\ answer' = Read(2)
  /\ UNCHANGED <<main, handled, capturing, running, captureFailed, capture,
                 observed, asked>>

-----------------------------------------------------------------------------
Main == LoadConfig \/ Setup \/ InstallHandlers \/ Spawn \/ Start \/ Leave

Capture == SniffReturns \/ ReportFailure

Status == StatusFirst \/ StatusSecond

Signal == \E s \in Signals : Shutdown(s) \/ Kill(s)

Next == Main \/ Capture \/ Status \/ Signal

Spec == Init /\ [][Next]_vars

(* The main thread runs on, and so does the capture thread once            *)
(* sniff_into has returned.  Nothing makes a capture end, a signal arrive  *)
(* or the agent ask for the status.                                        *)
FairSpec == Spec /\ WF_vars(Main) /\ WF_vars(ReportFailure)

-----------------------------------------------------------------------------
TypeOK ==
  /\ main \in {"load", "setup", "sigterm", "sigint", "spawn", "start", "run",
               "exited", "killed"}
  /\ handled \subseteq Signals
  /\ capturing \in BOOLEAN /\ running \in BOOLEAN /\ captureFailed \in BOOLEAN
  /\ capture \in {"none", "sniffing", "failing", "ended"}
  /\ capture # "none" => capturing
  /\ call \in {"idle", "between", "done"} /\ answer \in BOOLEAN
  /\ observed \subseteq BOOLEAN
  /\ asked \in {"never", "starting", "running"}

(* Get Status answers with a value that was true at some moment of the     *)
(* call, although it reads the two flags one after the other while the     *)
(* main thread and the capture thread write them: it never claims a        *)
(* running extension with a working capture when there was none.           *)
StatusLinearizable == call = "done" => answer \in observed

(* A capture that stopped on an error stays visible as failed for the rest *)
(* of the process's life, even if it fails before the main thread has come *)
(* up.                                                                     *)
ErrorStaysVisible == (capture = "failing") ~> [](captureFailed \/ Over)

(* Only a shutdown ends an extension that came up: a failed capture does   *)
(* not (extension.py: "live capture stopped on an error; the actions still *)
(* run").                                                                  *)
LeavesOnlyWhenAsked ==
  [][main = "run" /\ main' = "exited" => asked # "never"]_vars

(* A shutdown signal that finds the extension running ends it.             *)
ShutdownOfRunning == (asked = "running") ~> Over

(* A shutdown signal that has been handled ends the extension              *)
(* (shutdown_handler: "Shutting down...").                                 *)
ShutdownStops == (asked # "never") ~> Over

=============================================================================
