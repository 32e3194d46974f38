------------------------------ MODULE MCAgent -------------------------------
(* Captures of up to three packets, some with the same time and some out   *)
(* of order, and a clock that is set forward or back by more than the      *)
(* longest sleep.                                                          *)
EXTENDS Agent

MCTimes    == {2, 4}
MCSettings == {-3, 3}

=============================================================================
