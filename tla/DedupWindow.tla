----------------------------- MODULE DedupWindow -----------------------------
(***************************************************************************)
(* class DedupWindow of modules/ssh_monitor/normalizer.py: a dictionary    *)
(* from event hashes to the time they were first let pass.  LogIngest has  *)
(* its keys and says which are young; this module keeps the times and the  *)
(* wall clock, which may be set back as well as forward.                   *)
(***************************************************************************)
EXTENDS Integers, FiniteSets

CONSTANTS
    Key,        \* event hashes
    Window,     \* window_seconds
    MaxEntries, \* max_entries, 10000 in the code
    MaxClock    \* bound: the wall clock stays in 0..MaxClock

ASSUME WindowAssumption ==
    /\ Window \in Nat
    /\ MaxEntries \in Nat
    /\ MaxClock \in Nat

VARIABLES
    now,    \* time.time()
    seen,   \* _seen: the keys in the dictionary, each with its time
    answer, \* the last call: its key, its result and when it was made
    passed, \* observer: when each key was last let pass, -1 for never
    reached \* observer: the latest the clock has read since then

vars == <<now, seen, answer, passed, reached>>

Entry == [key : Key, time : Int]
Keys  == {e.key : e \in seen}

NoCall == [key |-> "none", duplicate |-> FALSE, at |-> 0, age |-> 0]

Init ==
    /\ now = 0
    /\ seen = {}
    /\ answer = NoCall
    /\ passed = [k \in Key |-> -1]
    /\ reached = [k \in Key |-> -1]

\* the wall clock: it runs, and ntpd or an operator may set it
SetClock ==
    /\ \E t \in 0..MaxClock :
          /\ now' = t
          /\ reached' = [k \in Key |->
                            IF passed[k] # -1 /\ t > reached[k] THEN t
                            ELSE reached[k]]
    /\ UNCHANGED <<seen, answer, passed>>

\* Mutant: an entry is pruned when the window has not yet gone by.
StaleEarly(e) == e.time <= now - Window

Stale(e) == e.time < now - Window

\* Mutant: max_entries is never looked at.
PrunedNever == seen

\* _prune, called only when the dictionary has outgrown max_entries
Pruned == IF Cardinality(seen) > MaxEntries
          THEN {e \in seen : ~Stale(e)}
          ELSE seen

\* is_duplicate(key): a hit is a hit whatever its age, and keeps its time
IsDuplicate(key) ==
    /\ IF \E e \in Pruned : e.key = key
       THEN /\ seen' = Pruned
            /\ UNCHANGED <<passed, reached>>
            /\ \E e \in Pruned :
                  /\ e.key = key
                  /\ answer' = [key |-> key, duplicate |-> TRUE, at |-> now,
                                age |-> now - e.time]
       ELSE /\ seen' = Pruned \cup {[key |-> key, time |-> now]}
            /\ passed' = [passed EXCEPT ![key] = now]
            /\ reached' = [reached EXCEPT ![key] = now]
            /\ answer' = [key |-> key, duplicate |-> FALSE, at |-> now,
                          age |-> 0]
    /\ UNCHANGED now

Next == SetClock \/ \E key \in Key : IsDuplicate(key)

Spec == Init /\ [][Next]_vars

-----------------------------------------------------------------------------
(* Properties                                                              *)

TypeOK ==
    /\ now \in Int
    /\ seen \subseteq Entry
    /\ answer \in [key : Key \cup {"none"}, duplicate : BOOLEAN,
                   at : Int, age : Int]
    /\ passed \in [Key -> Int]
    /\ reached \in [Key -> Int]

\* The window does its work: an event whose hash was let pass is not let pass
\* again until the clock has read more than window_seconds after that, however
\* the pruning and the changes of the clock fall.
PassesAreApart ==
    [][\A e \in seen' \ seen :
          passed[e.key] # -1 => reached[e.key] - passed[e.key] > Window]_vars

\* The dictionary outgrows max_entries by more than one key only with entries
\* that were all inside the window at the last call: what is pruned is enough
\* to keep it from growing with the age of the process.
GrowsOnlyWithFreshEvents ==
    \/ Cardinality(seen) <= MaxEntries + 1
    \/ \A e \in seen : e.time >= answer.at - Window

\* A duplicate is one of an event seen not longer than window_seconds ago
\* (is_duplicate: "Return True if *key* was seen within the dedup window").
DuplicatesAreRecent == answer.duplicate => answer.age <= Window

\* What the proof of PassesAreApart carries: an entry of the dictionary holds
\* the time its key was let pass, and a key that was let pass is still in the
\* dictionary unless the clock has read more than window_seconds after that.
WindowInv ==
    /\ now \in Nat
    /\ \A e \in seen : e.time = passed[e.key] /\ e.time # -1
    /\ \A k \in Key :
          passed[k] # -1 =>
             /\ now <= reached[k]
             /\ \/ [key |-> k, time |-> passed[k]] \in seen
                \/ reached[k] - passed[k] > Window
=============================================================================
