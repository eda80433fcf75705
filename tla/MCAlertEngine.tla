----------------------------- MODULE MCAlertEngine -----------------------------
(* Values of the constants of AlertEngine for TLC: rule 1 is about a present   *)
(* state, rule 2 counts two rows of a subject in a window, a tick longer than a *)
(* poll period and twice the slack.                                            *)
EXTENDS AlertEngine, TLC

CONSTANTS daemon, panel, s1, s2

AlertEvaluator == <<1, 2>>
AlertThreshold == <<1, 2>>
AlertDedup     == <<4, 3>>
AlertWindow    == <<0, Period + 2 * Slack + 1>>

Subjects == Permutations(Subject)
=============================================================================
