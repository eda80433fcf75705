---------------------------- MODULE MCAlertDelivery ----------------------------
(* Two rules one row suffices for, and a query that reaches back over a poll *)
(* period and its lateness.                                                  *)
EXTENDS AlertDelivery, TLC
CONSTANTS daemon, panel, s1, s2

DeliveryEvaluator == [r \in 1..Rules |-> r]
DeliveryThreshold == [r \in 1..Rules |-> 1]
DeliveryWindow    == [r \in 1..Rules |-> Period + 2 * Slack]
DeliveryDedup     == [r \in 1..Rules |-> 1]

Subjects == Permutations(Subject)
=============================================================================
