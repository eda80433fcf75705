------------------------------- MODULE MCDaemon -------------------------------
(* Two tasks of different intervals, for TLC. *)
EXTENDS Daemon

TwoIntervals == <<1, 2>>
=============================================================================
