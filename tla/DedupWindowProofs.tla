-------------------------- MODULE DedupWindowProofs --------------------------
(* Proofs about DedupWindow, for every window, bound and set of hashes.    *)
EXTENDS DedupWindow, FiniteSetTheorems, TLAPS

LEMMA InitInv == Init => TypeOK /\ WindowInv
  BY DEF Init, TypeOK, WindowInv, NoCall, Entry

\* Pruning takes out of the dictionary only what the window has gone by.
LEMMA PrunedKeepsFresh ==
    ASSUME NEW e \in seen, e \notin Pruned
    PROVE  Stale(e)
  BY DEF Pruned

LEMMA PrunedSubset == Pruned \subseteq seen
  BY DEF Pruned

LEMMA TypeStep == TypeOK /\ [Next]_vars => TypeOK'
<1> SUFFICES ASSUME TypeOK, [Next]_vars PROVE TypeOK'
  OBVIOUS
<1>1. CASE SetClock
  BY <1>1, WindowAssumption DEF SetClock, TypeOK
<1>2. ASSUME NEW key \in Key, IsDuplicate(key) PROVE TypeOK'
  <2>1. CASE \E e \in Pruned : e.key = key
    <3>1. PICK e \in Pruned :
             answer' = [key |-> key, duplicate |-> TRUE, at |-> now,
                        age |-> now - e.time]
      BY <1>2, <2>1 DEF IsDuplicate
    <3>2. e.time \in Int
      BY PrunedSubset DEF TypeOK, Entry
    <3>3. answer' \in [key : Key \cup {"none"}, duplicate : BOOLEAN,
                       at : Int, age : Int]
      BY <3>1, <3>2 DEF TypeOK
    <3> QED
      BY <1>2, <2>1, <3>3, PrunedSubset DEF IsDuplicate, TypeOK
  <2>2. CASE ~\E e \in Pruned : e.key = key
    <3>1. [key |-> key, time |-> now] \in Entry
      BY DEF TypeOK, Entry
    <3>2. seen' = Pruned \cup {[key |-> key, time |-> now]}
      BY <1>2, <2>2 DEF IsDuplicate
    <3>3. answer' = [key |-> key, duplicate |-> FALSE, at |-> now, age |-> 0]
      BY <1>2, <2>2 DEF IsDuplicate
    <3>4. answer' \in [key : Key \cup {"none"}, duplicate : BOOLEAN,
                       at : Int, age : Int]
      BY <3>3 DEF TypeOK
    <3> QED
      BY <1>2, <2>2, <3>1, <3>2, <3>4, PrunedSubset DEF IsDuplicate, TypeOK
  <2> QED
    BY <2>1, <2>2
<1>3. CASE UNCHANGED vars
  BY <1>3 DEF vars, TypeOK
<1> QED
  BY <1>1, <1>2, <1>3 DEF Next

LEMMA WindowStep == TypeOK /\ WindowInv /\ [Next]_vars => WindowInv'
<1> SUFFICES ASSUME TypeOK, WindowInv, [Next]_vars PROVE WindowInv'
  OBVIOUS
<1>1. CASE SetClock
  <2>1. PICK t \in 0..MaxClock :
           /\ now' = t
           /\ reached' = [k \in Key |->
                             IF passed[k] # -1 /\ t > reached[k] THEN t
                             ELSE reached[k]]
    BY <1>1 DEF SetClock
  <2>2. t \in Nat
    BY WindowAssumption
  <2>3. ASSUME NEW k \in Key, passed[k] # -1
        PROVE  t <= reached'[k] /\ reached[k] <= reached'[k]
    BY <2>1, <2>2, <2>3 DEF TypeOK
  <2>4. \A k \in Key : reached'[k] \in Int /\ reached[k] \in Int /\ passed[k] \in Int
    BY <2>1, <2>2 DEF TypeOK
  <2>5. seen' = seen /\ passed' = passed
    BY <1>1 DEF SetClock
  <2> QED
    BY <2>1, <2>2, <2>3, <2>4, <2>5, WindowAssumption DEF WindowInv
<1>2. ASSUME NEW key \in Key, IsDuplicate(key) PROVE WindowInv'
  <2>1. \A k \in Key : passed[k] \in Int /\ reached[k] \in Int
    BY DEF TypeOK
  <2>2. ASSUME NEW k \in Key, passed[k] # -1,
               [key |-> k, time |-> passed[k]] \notin Pruned
        PROVE  reached[k] - passed[k] > Window
    <3>1. CASE [key |-> k, time |-> passed[k]] \in seen
      <4>1. passed[k] < now - Window
        BY <2>2, <3>1, PrunedKeepsFresh DEF Stale
      <4>2. now <= reached[k] /\ now \in Int
        BY <2>2 DEF WindowInv
      <4> QED
        BY <2>1, <4>1, <4>2, WindowAssumption
    <3>2. CASE [key |-> k, time |-> passed[k]] \notin seen
      BY <2>2, <3>2 DEF WindowInv
    <3> QED
      BY <3>1, <3>2
  <2>3. CASE \E e \in Pruned : e.key = key
    <3>1. UNCHANGED <<now, passed, reached>> /\ seen' = Pruned
      BY <1>2, <2>3 DEF IsDuplicate
    <3> QED
      BY <2>2, <3>1, PrunedSubset DEF WindowInv
  <2>4. CASE ~\E e \in Pruned : e.key = key
    <3>1. /\ now' = now
          /\ seen' = Pruned \cup {[key |-> key, time |-> now]}
          /\ passed' = [passed EXCEPT ![key] = now]
          /\ reached' = [reached EXCEPT ![key] = now]
      BY <1>2, <2>4 DEF IsDuplicate
    <3>2. /\ passed'[key] = now /\ reached'[key] = now
          /\ \A k \in Key \ {key} : passed'[k] = passed[k] /\ reached'[k] = reached[k]
      BY <3>1 DEF TypeOK
    <3>3. \A e \in Pruned : e.key # key /\ e.key \in Key /\ e \in seen
      BY <2>4, PrunedSubset DEF TypeOK, Entry
    <3>4. \A e \in seen' : e.time = passed'[e.key] /\ e.time # -1
      BY <3>1, <3>2, <3>3 DEF WindowInv
    <3>5. ASSUME NEW k \in Key, passed'[k] # -1
          PROVE  /\ now' <= reached'[k]
                 /\ \/ [key |-> k, time |-> passed'[k]] \in seen'
                    \/ reached'[k] - passed'[k] > Window
      <4>1. CASE k = key
        BY <3>1, <3>2, <4>1 DEF WindowInv
      <4>2. CASE k # key
        BY <2>2, <3>1, <3>2, <3>5, <4>2 DEF WindowInv
      <4> QED
        BY <4>1, <4>2
    <3>6. now' \in Nat
      BY <3>1 DEF WindowInv
    <3> QED
      BY <3>4, <3>5, <3>6 DEF WindowInv
  <2> QED
    BY <2>3, <2>4
<1>3. CASE UNCHANGED vars
  BY <1>3 DEF vars, WindowInv
<1> QED
  BY <1>1, <1>2, <1>3 DEF Next

\* One event hash is let pass a second time only after the clock has read more
\* than window_seconds after the first, for every window, every max_entries and
\* every way the clock is set.
THEOREM PassesApart == Spec => PassesAreApart
<1> DEFINE Apart == \A e \in seen' \ seen :
                       passed[e.key] # -1 => reached[e.key] - passed[e.key] > Window
<1>1. ASSUME TypeOK, WindowInv, [Next]_vars
      PROVE  [Apart]_vars
  <2>1. CASE SetClock \/ UNCHANGED vars
    BY <2>1 DEF SetClock, vars
  <2>2. ASSUME NEW key \in Key, IsDuplicate(key) PROVE Apart
    <3> SUFFICES ASSUME NEW e \in seen', e \notin seen, passed[e.key] # -1
                 PROVE  reached[e.key] - passed[e.key] > Window
      OBVIOUS
    <3>1. e = [key |-> key, time |-> now] /\ ~\E f \in Pruned : f.key = key
      BY <2>2, PrunedSubset DEF IsDuplicate
    <3>2. e.key = key /\ passed[key] # -1
      BY <3>1
    <3>5. now <= reached[key] /\ passed[key] \in Int /\ reached[key] \in Int
      BY <1>1, <3>2 DEF WindowInv, TypeOK
    <3>3. CASE [key |-> key, time |-> passed[key]] \in seen
      <4>1. [key |-> key, time |-> passed[key]] \notin Pruned
        BY <3>1
      <4>2. passed[key] < now - Window
        BY <3>3, <4>1, PrunedKeepsFresh DEF Stale
      <4>3. now \in Int
        BY <1>1 DEF WindowInv
      <4> QED
        BY <3>2, <3>5, <4>2, <4>3, WindowAssumption
    <3>4. CASE [key |-> key, time |-> passed[key]] \notin seen
      BY <1>1, <3>2, <3>4 DEF WindowInv
    <3> QED
      BY <3>2, <3>3, <3>4
  <2> QED
    BY <1>1, <2>1, <2>2 DEF Next
<1>2. TypeOK /\ WindowInv /\ [Next]_vars => [Apart]_vars
  BY <1>1
<1> QED
  BY InitInv, TypeStep, WindowStep, <1>2, PTL DEF Spec, PassesAreApart

-----------------------------------------------------------------------------
\* A call ends with one entry more than max_entries at most, unless all entries
\* were inside the window when it was made.
LEMMA GrowthStep ==
    ASSUME TypeOK, IsFiniteSet(seen), GrowsOnlyWithFreshEvents, [Next]_vars
    PROVE  IsFiniteSet(seen)' /\ GrowsOnlyWithFreshEvents'
<1>1. CASE SetClock \/ UNCHANGED vars
  BY <1>1 DEF SetClock, vars, GrowsOnlyWithFreshEvents
<1>2. ASSUME NEW key \in Key, IsDuplicate(key)
      PROVE  IsFiniteSet(seen)' /\ GrowsOnlyWithFreshEvents'
  <2> DEFINE new == [key |-> key, time |-> now]
  <2>1. seen' \in {Pruned, Pruned \cup {new}} /\ answer'.at = now
    BY <1>2 DEF IsDuplicate
  <2>2. new.time = now OBVIOUS
  <2> HIDE DEF new
  <2>3. IsFiniteSet(Pruned) /\ Cardinality(Pruned) <= Cardinality(seen)
    BY PrunedSubset, FS_Subset
  <2>4. /\ IsFiniteSet(Pruned \cup {new})
        /\ Cardinality(Pruned \cup {new}) <= Cardinality(Pruned) + 1
    <3>1. Cardinality(Pruned) \in Nat BY <2>3, FS_CardinalityType
    <3>2. /\ IsFiniteSet(Pruned \cup {new})
          /\ Cardinality(Pruned \cup {new}) =
                IF new \in Pruned THEN Cardinality(Pruned) ELSE Cardinality(Pruned) + 1
      BY <2>3, FS_AddElement, Zenon
    <3> QED BY <3>1, <3>2
  <2>5. /\ Cardinality(seen) \in Nat /\ Cardinality(Pruned) \in Nat
        /\ Cardinality(Pruned \cup {new}) \in Nat
    BY <2>3, <2>4, FS_CardinalityType
  <2>6. CASE Cardinality(seen) > MaxEntries
    <3>1. \A e \in Pruned : e.time >= now - Window
      BY <2>6, WindowAssumption DEF Pruned, Stale, TypeOK, Entry
    <3>2. now >= now - Window BY WindowAssumption DEF TypeOK
    <3> QED BY <2>1, <2>2, <2>3, <2>4, <3>1, <3>2 DEF GrowsOnlyWithFreshEvents
  <2>7. CASE Cardinality(seen) <= MaxEntries
    <3>1. Cardinality(seen') <= MaxEntries + 1
      BY <2>1, <2>3, <2>4, <2>5, <2>7, WindowAssumption
    <3> QED BY <2>1, <2>3, <2>4, <3>1 DEF GrowsOnlyWithFreshEvents
  <2> QED BY <2>5, <2>6, <2>7, WindowAssumption
<1> QED BY <1>1, <1>2 DEF Next

\* The dictionary does not grow with the age of the process, for every window,
\* every max_entries and every way the clock is set.
THEOREM GrowsFresh == Spec => []GrowsOnlyWithFreshEvents
<1>1. Init => IsFiniteSet(seen) /\ GrowsOnlyWithFreshEvents
  BY FS_EmptySet, WindowAssumption DEF Init, GrowsOnlyWithFreshEvents
<1>2. TypeOK /\ IsFiniteSet(seen) /\ GrowsOnlyWithFreshEvents /\ [Next]_vars
         => IsFiniteSet(seen)' /\ GrowsOnlyWithFreshEvents'
  BY GrowthStep
<1> QED BY <1>1, <1>2, InitInv, TypeStep, PTL DEF Spec

-----------------------------------------------------------------------------
(* The dictionary works as the window of LogIngest                         *)

\* the keys let pass within the window
Young == {e.key : e \in {d \in seen : ~Stale(d)}}

\* what a call holds against a key: LogIngest's Remembered
Held == IF Cardinality(Keys) > MaxEntries THEN Young ELSE Keys

\* is_duplicate answers whether its key is held, holds it from then on, and the
\* key is young if it was let pass: what a line of a batch does in LogIngest.
WorksAsWindow ==
    [][/\ answer'.duplicate <=> answer'.key \in Held
       /\ Keys' = Held \cup {answer'.key}
       /\ Young' = Young \cup (IF answer'.duplicate THEN {} ELSE {answer'.key})]_<<seen, answer>>

\* the dictionary has one entry per key, so its length is the number of keys
LEMMA LengthIsKeys ==
    ASSUME TypeOK, WindowInv, IsFiniteSet(seen)
    PROVE  Cardinality(seen) = Cardinality(Keys)
<1> DEFINE f == [e \in seen |-> e.key]
<1>1. f \in Bijection(seen, Keys)
  <2>1. f \in [seen -> Keys]
    BY DEF Keys
  <2>2. ASSUME NEW d \in seen, NEW e \in seen, f[d] = f[e] PROVE d = e
    <3>1. d.key = e.key /\ d.time = e.time
      BY <2>2 DEF WindowInv
    <3>2. d \in Entry /\ e \in Entry
      BY DEF TypeOK
    <3> QED BY <3>1, <3>2 DEF Entry
  <2>3. ASSUME NEW k \in Keys PROVE \E e \in seen : f[e] = k
    BY DEF Keys
  <2> HIDE DEF f
  <2> QED
    BY <2>1, <2>2, <2>3 DEF Bijection, Injection, Surjection, IsInjective
<1> HIDE DEF f
<1>2. f \in Surjection(seen, Keys) /\ f \in Injection(seen, Keys)
  BY <1>1 DEF Bijection
<1> QED BY <1>2, FS_Surjection

LEMMA FiniteStep == IsFiniteSet(seen) /\ [Next]_vars => IsFiniteSet(seen)'
<1> SUFFICES ASSUME IsFiniteSet(seen), [Next]_vars PROVE IsFiniteSet(seen')
  OBVIOUS
<1>1. IsFiniteSet(Pruned)
  BY PrunedSubset, FS_Subset
<1>2. seen' \in {seen, Pruned} \/ \E x : seen' = Pruned \cup {x}
  BY DEF Next, SetClock, IsDuplicate, vars
<1> QED BY <1>1, <1>2, FS_AddElement

LEMMA CallIsHeld ==
    ASSUME TypeOK, WindowInv, IsFiniteSet(seen), NEW key \in Key, IsDuplicate(key)
    PROVE  /\ answer'.duplicate <=> answer'.key \in Held
           /\ Keys' = Held \cup {answer'.key}
           /\ Young' = Young \cup (IF answer'.duplicate THEN {} ELSE {answer'.key})
<1>1. Held = {e.key : e \in Pruned}
  BY LengthIsKeys DEF Held, Pruned, Young, Keys
<1>2. now' = now /\ \A e : Stale(e)' = Stale(e)
  BY DEF IsDuplicate, Stale
<1>3. {e.key : e \in {d \in Pruned : ~Stale(d)}} = Young
  BY DEF Pruned, Young
<1>4. CASE \E e \in Pruned : e.key = key
  <2>1. seen' = Pruned /\ answer'.key = key /\ answer'.duplicate
    BY <1>4 DEF IsDuplicate
  <2>2. key \in Held /\ Keys' = Held
    BY <1>1, <1>4, <2>1 DEF Keys
  <2>3. Young' = Young
    BY <1>2, <1>3, <2>1 DEF Young
  <2> QED BY <2>1, <2>2, <2>3
<1>5. CASE ~\E e \in Pruned : e.key = key
  <2> DEFINE new == [key |-> key, time |-> now]
  <2>1. seen' = Pruned \cup {new} /\ answer'.key = key /\ ~answer'.duplicate
    BY <1>5 DEF IsDuplicate
  <2>2. new.key = key /\ ~Stale(new)
    BY WindowAssumption DEF Stale, TypeOK
  <2> HIDE DEF new
  <2>3. key \notin Held
    BY <1>1, <1>5
  <2>4. Keys' = Held \cup {key}
    BY <1>1, <2>1, <2>2 DEF Keys
  <2>5. Young' = {e.key : e \in {d \in Pruned \cup {new} : ~Stale(d)}}
    BY <1>2, <2>1 DEF Young
  <2>6. Young' = Young \cup {key}
    BY <1>3, <2>2, <2>5
  <2> QED BY <2>1, <2>3, <2>4, <2>6
<1> QED BY <1>4, <1>5

\* For every window, limit and clock, a call of is_duplicate does to the keys of
\* the dictionary what Remembered, Fresh and Parse of LogIngest say it does.
THEOREM DictionaryIsWindow == Spec => WorksAsWindow
<1>1. Init => IsFiniteSet(seen)
  BY FS_EmptySet DEF Init
<1>2. TypeOK /\ WindowInv /\ IsFiniteSet(seen) /\ [Next]_vars =>
         [/\ answer'.duplicate <=> answer'.key \in Held
          /\ Keys' = Held \cup {answer'.key}
          /\ Young' = Young \cup (IF answer'.duplicate THEN {} ELSE {answer'.key})]_<<seen, answer>>
  <2> SUFFICES ASSUME TypeOK, WindowInv, IsFiniteSet(seen), NEW key \in Key, IsDuplicate(key)
               PROVE  /\ answer'.duplicate <=> answer'.key \in Held
                      /\ Keys' = Held \cup {answer'.key}
                      /\ Young' = Young \cup (IF answer'.duplicate THEN {} ELSE {answer'.key})
    BY DEF Next, SetClock, vars
  <2> QED BY CallIsHeld
<1> QED
  BY <1>1, <1>2, InitInv, TypeStep, WindowStep, FiniteStep, PTL DEF Spec, WorksAsWindow
=============================================================================
