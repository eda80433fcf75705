------------------------------- MODULE MCConfig -------------------------------
(* Two keys that may keep their default or not, for TLC; threads and keys are *)
(* interchangeable.                                                           *)
EXTENDS Config, TLC

CONSTANTS default, set

AllDefault == [k \in Key |-> default]

Alike == Permutations(Thread) \cup Permutations(Key)
===============================================================================
