----------------------------- MODULE ConfigProofs -----------------------------
(***************************************************************************)
(* Proofs about Config, for any threads, keys, values and defaults, and    *)
(* any number of failures and restarts.                                    *)
(***************************************************************************)
EXTENDS Config, TLAPS

LEMMA MergedType ==
    ASSUME NEW f \in Overrides \cup {Torn}
    PROVE  Merged(f) \in Settings
<1>1. CASE f = Torn
  BY <1>1, ConfigAssumption DEF Merged, Settings
<1>2. CASE f \in Overrides
  <2>1. PICK S \in SUBSET Key : f \in [S -> Value]
    BY <1>2 DEF Overrides
  <2> QED BY <2>1, ConfigAssumption DEF Merged, Settings
<1> QED BY <1>1, <1>2

LEMMA SettingsReadable == Settings \subseteq Overrides
<1>1. Settings \in {[S -> Value] : S \in SUBSET Key}
  BY DEF Settings
<1> QED BY <1>1 DEF Overrides

\* What has been persisted is read back as it was.
LEMMA MergedSettings ==
    ASSUME NEW d \in Settings
    PROVE  Merged(d) = d
<1>1. d # Torn
  BY SettingsReadable, TornAssumption
<1> QED BY <1>1 DEF Merged, Settings

LEMMA InitInv == Init => TypeOK /\ SavedInv
<1> SUFFICES ASSUME Init PROVE TypeOK /\ SavedInv
  OBVIOUS
<1>1. data \in Settings
  BY MergedType DEF Init
<1>2. TypeOK
  BY <1>1, ConfigAssumption DEF Init, TypeOK, Settings
<1>3. SavedInv
  BY DEF Init, SavedInv
<1> QED BY <1>2, <1>3

LEMMA TypeStep == TypeOK /\ [Next]_vars => TypeOK'
<1> SUFFICES ASSUME TypeOK, [Next]_vars PROVE TypeOK'
  OBVIOUS
<1> USE DEF GoTo
<1>1. ASSUME NEW t \in Thread, Set(t) PROVE TypeOK'
  BY <1>1 DEF Set, TypeOK, Settings
<1>2. ASSUME NEW t \in Thread, Persist(t) PROVE TypeOK'
  BY <1>2, SettingsReadable DEF Persist, TypeOK, observers
<1>3. ASSUME NEW t \in Thread, Fail(t) PROVE TypeOK'
  BY <1>3 DEF Fail, TypeOK, Settings
<1>4. ASSUME NEW t \in Thread, Read(t) PROVE TypeOK'
  BY <1>4, MergedType DEF Read, TypeOK
<1>5. ASSUME NEW t \in Thread, Assign(t) PROVE TypeOK'
  BY <1>5 DEF Assign, TypeOK, observers
<1>6. ASSUME Restart PROVE TypeOK'
  <2>1. data' \in Settings /\ read' \in [Thread -> Settings]
    BY <1>6, MergedType, ConfigAssumption DEF Restart, TypeOK, Settings
  <2> QED BY <1>6, <2>1 DEF Restart, TypeOK
<1>7. CASE UNCHANGED vars
  BY <1>7 DEF vars, observers, TypeOK
<1> QED BY <1>1, <1>2, <1>3, <1>4, <1>5, <1>6, <1>7 DEF Next

\* TypeOK: every variable of the configuration keeps its type, whatever the
\* user's file says (lib/config.py).
THEOREM TypeCorrect == Spec => []TypeOK
<1>1. Init => TypeOK
  BY InitInv
<1> QED BY <1>1, TypeStep, PTL DEF Spec

LEMMA SavedStep == TypeOK /\ SavedInv /\ [Next]_vars => SavedInv'
<1> SUFFICES ASSUME TypeOK, SavedInv, [Next]_vars, ~cut', ~overlapped'
             PROVE  /\ data' = acked'
                    /\ mutex' = NoThread => Merged(file)' = acked'
                    /\ \A t \in Thread : pc'[t] = "assign" => read'[t] = acked'
  BY DEF SavedInv
<1> USE DEF GoTo
<1>1. ASSUME NEW t \in Thread, Set(t)
      PROVE  /\ data' = acked'
             /\ mutex' # NoThread
             /\ \A u \in Thread : pc'[u] # "assign"
  BY <1>1, ConfigAssumption DEF Set, SavedInv, TypeOK
<1>2. ASSUME NEW t \in Thread, Persist(t)
      PROVE  /\ data' = acked'
             /\ Merged(file)' = acked'
             /\ \A u \in Thread : pc'[u] = "assign" => read'[u] = acked'
  <2>1. data = acked /\ \A u \in Thread : pc[u] = "assign" => read[u] = acked
    BY <1>2 DEF Persist, observers, SavedInv
  <2>2. Merged(file)' = Merged(data)
    BY <1>2 DEF Persist, Merged
  <2> QED BY <1>2, <2>1, <2>2, MergedSettings DEF Persist, observers, TypeOK
<1>3. ASSUME NEW t \in Thread, Fail(t) PROVE FALSE
  BY <1>3 DEF Fail
\* What is read is what has been saved, for nobody is writing.
<1>4. ASSUME NEW t \in Thread, Read(t)
      PROVE  /\ data' = acked'
             /\ Merged(file)' = acked'
             /\ \A u \in Thread : pc'[u] = "assign" => read'[u] = acked'
  <2>1. /\ data = acked /\ Merged(file) = acked
        /\ \A u \in Thread : pc[u] = "assign" => read[u] = acked
    BY <1>4 DEF Read, SavedInv
  <2>2. Merged(file)' = Merged(file)
    BY <1>4 DEF Read, Merged
  <2> QED BY <1>4, <2>1, <2>2 DEF Read, TypeOK
<1>5. ASSUME NEW t \in Thread, Assign(t)
      PROVE  /\ data' = acked'
             /\ mutex' = NoThread => Merged(file)' = acked'
             /\ \A u \in Thread : pc'[u] = "assign" => read'[u] = acked'
  <2>1. Merged(file)' = Merged(file)
    BY <1>5 DEF Assign, Merged
  <2> QED BY <1>5, <2>1 DEF Assign, observers, SavedInv, TypeOK
<1>6. ASSUME Restart
      PROVE  /\ data' = acked'
             /\ Merged(file)' = acked'
             /\ \A u \in Thread : pc'[u] # "assign"
  <2>1. Merged(file)' = Merged(file)
    BY <1>6 DEF Restart, Merged
  <2> QED BY <1>6, <2>1 DEF Restart, SavedInv
<1>7. CASE UNCHANGED vars
  BY <1>7 DEF vars, observers, SavedInv, Merged
<1> QED BY <1>1, <1>2, <1>3, <1>4, <1>5, <1>6, <1>7 DEF Next

\* SettingsSurvive: for any number of threads and requests, a saved setting
\* stays in memory and on disk, unless a save was cut short or a reload
\* overlapped one (Config.set and Config.reload).
THEOREM Survival == Spec => []SettingsSurvive
<1>1. SavedInv => SettingsSurvive
  BY DEF SavedInv, SettingsSurvive
<1>2. Init => TypeOK /\ SavedInv
  BY InitInv
<1> QED BY <1>1, <1>2, TypeStep, SavedStep, PTL DEF Spec
===============================================================================
