--------------------------- MODULE LogIngestProofs ---------------------------
(* Proofs about LogIngest, for all values of its constants.                *)
EXTENDS LogIngest, Integers, FiniteSetTheorems, WellFoundedInduction, TLAPS

-----------------------------------------------------------------------------
(* Lemmas on what the operators of the cycle return                        *)

\* A nonempty set of naturals has a least element.  (The theorem of the library
\* takes an operator; this one goes by the well-founded order on finite sets.)
LEMMA LeastNatural ==
    ASSUME NEW T \in SUBSET Nat, T # {}
    PROVE  \E x \in T : \A y \in T : x <= y
<1> DEFINE R == StrictSubsetOrdering(Nat)
           U == {0..x : x \in T}
<1>1. IsWellFoundedOn(R, FiniteSubsetsOf(Nat))
  BY FS_StrictSubsetOrderingWellFounded
<1>2. U \subseteq FiniteSubsetsOf(Nat) /\ U # {}
  <2>1. ASSUME NEW x \in T PROVE 0..x \in FiniteSubsetsOf(Nat)
    <3>1. x \in Int /\ 0 \in Int
      OBVIOUS
    <3>2. IsFiniteSet(0..x)
      BY ONLY <3>1, FS_Interval
    <3>3. 0..x \subseteq Nat
      OBVIOUS
    <3> QED
      BY <3>2, <3>3 DEF FiniteSubsetsOf
  <2> QED
    BY <2>1
<1>3. PICK u \in U : \A v \in U : ~(<<v, u>> \in R)
  <2> HIDE DEF R, U
  <2> QED
    BY <1>1, <1>2, WFMin
<1>4. PICK x \in T : u = 0..x
  OBVIOUS
<1>5. ASSUME NEW y \in T, y < x PROVE FALSE
  <2>1. 0..y \subseteq 0..x
    BY <1>5
  <2>2. x \in 0..x /\ x \notin 0..y
    BY <1>5
  <2>3. 0..y \in SUBSET Nat /\ 0..x \in SUBSET Nat
    OBVIOUS
  <2>4. <<0..y, 0..x>> \in R
    BY <2>1, <2>2, <2>3, Zenon DEF StrictSubsetOrdering
  <2>5. 0..y \in U
    OBVIOUS
  <2> HIDE DEF R, U
  <2> QED
    BY <1>3, <1>4, <2>4, <2>5
<1> QED
  BY <1>5

\* The rows of a batch are rows of the table's format, each taken from a
\* recognised line of the batch.
LEMMA NormalizedType ==
    ASSUME TypeOK, NEW batch \in SUBSET Occurrence
    PROVE  /\ Normalized(batch) \subseteq Row
           /\ \A r \in Normalized(batch) : r.at \in Fresh(batch)
           /\ Fresh(batch) \subseteq batch
<1>1. Fresh(batch) \subseteq batch
  BY DEF Fresh, Unremembered, Recognised
<1>2. \A n \in Fresh(batch) : EventType[text[n]] \in RowTypes
  BY DataAssumption DEF Fresh, Unremembered, Recognised, TypeOK, RowTypes, EventTypes
<1>3. \A n \in Fresh(batch) : period[text[n]] \in Nat \ {0}
  BY <1>1 DEF TypeOK
<1>4. \A n \in Fresh(batch), type \in RowTypes : RowAt(n, type) \in Row
  BY <1>1, <1>3 DEF Row, RowAt
<1>5. \A n \in Fresh(batch) : RowAt(n, EventType[text[n]]) \in Row
  BY <1>2, <1>4
<1>6. \A n \in Fresh(batch) : RowAt(n, "login.root") \in Row
  BY <1>4 DEF RowTypes
<1>7. \A n, type : RowAt(n, type).at = n
  BY DEF RowAt
<1> QED
  BY <1>1, <1>5, <1>6, <1>7 DEF Normalized

\* The dedup window loses no text: every recognised line of a batch has its
\* text in the window already, or in one of the rows.
LEMMA NothingForgotten ==
    ASSUME TypeOK, NEW batch \in SUBSET Occurrence, NEW n \in Recognised(batch)
    PROVE  text[n] \in seen \/ \E r \in Normalized(batch) : text[r.at] = text[n]
<1> SUFFICES ASSUME text[n] \notin seen
             PROVE  \E r \in Normalized(batch) : text[r.at] = text[n]
  OBVIOUS
<1> DEFINE T == {m \in Unremembered(batch) : text[m] = text[n]}
<1>1. T \in SUBSET Nat /\ T # {}
  <2>1. Occurrence \subseteq Nat
    BY BoundAssumption DEF Occurrence
  <2>2. Unremembered(batch) \subseteq Nat
    BY <2>1 DEF Unremembered, Recognised
  <2>3. n \in T
    BY DEF Unremembered, Remembered, TypeOK
  <2> QED
    BY <2>2, <2>3
<1>2. PICK m \in T : \A k \in T : m <= k
  <2> HIDE DEF T
  <2> QED
    BY <1>1, LeastNatural
<1>3. m \in Unremembered(batch) /\ text[m] = text[n]
  OBVIOUS
<1>4. \A k \in Unremembered(batch) : k < m => text[k] # text[m]
  BY <1>1, <1>2, <1>3 DEF Unremembered, Recognised, Occurrence
<1>5. m \in Fresh(batch)
  BY <1>3, <1>4 DEF Fresh
<1>6. /\ RowAt(m, EventType[text[m]]) \in Normalized(batch)
      /\ RowAt(m, EventType[text[m]]).at = m
  BY <1>5 DEF Normalized, RowAt
<1> QED
  BY <1>3, <1>6

\* Two rows of a batch with the same text and type are the same row.
LEMMA NormalizedDistinct ==
    ASSUME TypeOK, NEW batch \in SUBSET Occurrence,
           NEW r \in Normalized(batch), NEW q \in Normalized(batch),
           r.type = q.type, text[r.at] = text[q.at]
    PROVE  r = q
<1>1. r.at \in Fresh(batch) /\ q.at \in Fresh(batch)
  BY NormalizedType
<1>2. r.at \in Nat /\ q.at \in Nat
  <2>1. Occurrence \subseteq Nat
    BY BoundAssumption DEF Occurrence
  <2>2. Fresh(batch) \subseteq batch
    BY DEF Fresh, Unremembered, Recognised
  <2> QED
    BY <1>1, <2>1, <2>2
<1>3. r.at = q.at
  <2>1. r.at \in Unremembered(batch) /\ q.at \in Unremembered(batch)
    BY <1>1 DEF Fresh
  <2>2. ~(r.at < q.at) /\ ~(q.at < r.at)
    BY <1>1, <2>1 DEF Fresh
  <2> QED
    BY <1>2, <2>2
<1>4. r = RowAt(r.at, r.type) /\ q = RowAt(q.at, q.type)
  BY DEF Normalized, RowAt
<1> QED
  BY <1>3, <1>4

\* The rows of a batch are of texts outside the window, in their current period.
LEMMA NormalizedNew ==
    ASSUME TypeOK, NEW batch \in SUBSET Occurrence, NEW r \in Normalized(batch)
    PROVE  /\ r.at \in Recognised(batch)
           /\ text[r.at] \notin young
           /\ r.period = period[text[r.at]]
<1>1. r.at \in Fresh(batch)
  BY NormalizedType
<1>2. r.at \in Recognised(batch) /\ text[r.at] \notin Remembered(batch, r.at)
  BY <1>1 DEF Fresh, Unremembered
<1>3. young \subseteq Remembered(batch, r.at)
  BY DEF Remembered, TypeOK
<1>4. r.period = period[text[r.at]]
  BY DEF Normalized, RowAt
<1> QED
  BY <1>2, <1>3, <1>4

\* After a batch the window holds what it held and the texts of the rows, and the
\* dictionary nothing else than what it held and these.
LEMMA ParseWindow ==
    ASSUME TypeOK, NEW batch \in SUBSET Occurrence, Parse(batch)
    PROVE  /\ rows' = Normalized(batch) /\ period' = period
           /\ young \subseteq young' /\ young' \subseteq seen'
           /\ \A r \in rows' : text[r.at] \in young'
           /\ \A l \in seen' : l \in seen \/ \E r \in rows' : text[r.at] = l
<1> DEFINE passed == {text[n] : n \in Fresh(batch)}
<1>1. /\ rows' = Normalized(batch) /\ period' = period /\ young' = young \cup passed
      /\ \/ seen' = young \cup passed
         \/ seen' = seen \cup passed
  BY DEF Parse
<1>2. \A r \in Normalized(batch) : text[r.at] \in passed
  BY NormalizedType
<1>3. ASSUME NEW l \in passed PROVE \E r \in Normalized(batch) : text[r.at] = l
  <2>1. PICK n \in Fresh(batch) : l = text[n]
    OBVIOUS
  <2>2. RowAt(n, EventType[text[n]]) \in Normalized(batch)
    BY DEF Normalized
  <2>3. RowAt(n, EventType[text[n]]).at = n
    BY DEF RowAt
  <2> QED
    BY <2>1, <2>2, <2>3
<1> HIDE DEF passed
<1>4. young \subseteq seen
  BY DEF TypeOK
<1> QED
  BY <1>1, <1>2, <1>3, <1>4

-----------------------------------------------------------------------------
(* Types                                                                   *)

LEMMA InitTypeOK == Init => TypeOK
<1> SUFFICES ASSUME Init PROVE TypeOK
  OBVIOUS
<1>1. ZeroOffset \in OffsetState
  BY DEF ZeroOffset, OffsetState
<1>2. stats \in [Attacker -> StatsRow]
  BY DEF Init, NewStats, StatsRow
<1>3. log \in [present : BOOLEAN, inode : Nat, base : 0..MaxLines]
  BY BoundAssumption DEF Init
<1>4. truncated \in BOOLEAN /\ dbUp \in BOOLEAN
  BY DEF Init
<1>5. outages \in Nat
  BY DEF Init
<1> QED
  BY <1>1, <1>2, <1>3, <1>4, <1>5, BoundAssumption DEF Init, TypeOK, Phases

\* A batch read from the file or the journal consists of logged lines.
LEMMA BatchType ==
    ASSUME TypeOK, NEW a \in Nat \ {0}
    PROVE  a..written \in SUBSET Occurrence
  BY BoundAssumption DEF TypeOK, Occurrence

\* Parsing a batch leaves rows and the dedup window well typed.
LEMMA ParseType ==
    ASSUME TypeOK, NEW batch \in SUBSET Occurrence, Parse(batch)
    PROVE  /\ rows' \subseteq Row /\ seen' \subseteq Line /\ young' \subseteq seen'
           /\ period' = period
<1>1. rows' \subseteq Row
  BY NormalizedType DEF Parse
<1>2. \A r \in Row : text[r.at] \in Line
  BY DEF Row, TypeOK
<1>3. seen' \subseteq Line
  BY <1>1, <1>2, ParseWindow DEF TypeOK
<1> QED
  BY <1>1, <1>3, ParseWindow

LEMMA UpsertType ==
    ASSUME NEW s \in StatsRow, NEW at \in Occurrence, NEW type
    PROVE  Upsert(s, at, type) \in StatsRow
<1>1. Occurrence \subseteq Nat
  BY BoundAssumption DEF Occurrence
<1>2. at \in Nat
  BY <1>1
<1> QED
  BY <1>2 DEF Upsert, StatsRow

LEMMA NextTypeOK == TypeOK /\ [Next]_vars => TypeOK'
<1> SUFFICES ASSUME TypeOK, [Next]_vars PROVE TypeOK'
  OBVIOUS
<1> USE DEF TypeOK, Phases, window
<1>0. \A S \in SUBSET young : Forget(S) =>
         young' \subseteq young /\ period' \in [Line -> Nat \ {0}]
  BY DEF Forget
<1>1. ASSUME WriteLine PROVE TypeOK'
  BY <1>1, BoundAssumption DEF WriteLine, offsets, tables, local, window
<1>2. ASSUME RenameAway PROVE TypeOK'
  <2>1. log' \in [present : BOOLEAN, inode : Nat, base : 0..MaxLines]
    BY <1>2 DEF RenameAway
  <2>2. log'.base = log.base
    BY <1>2 DEF RenameAway
  <2> QED
    BY <1>2, <2>1, <2>2 DEF RenameAway, offsets, tables, local, window
<1>3. ASSUME Recreate PROVE TypeOK'
  BY <1>3 DEF Recreate, offsets, tables, local, window
<1>4. ASSUME Truncate PROVE TypeOK'
  BY <1>4 DEF Truncate, offsets, tables, local, window
<1>5. ASSUME DatabaseFails PROVE TypeOK'
  <2>1. dbUp' \in BOOLEAN
    BY <1>5 DEF DatabaseFails
  <2>2. outages' \in Nat
    BY <1>5 DEF DatabaseFails
  <2> QED
    BY <1>5, <2>1, <2>2 DEF DatabaseFails, world, offsets, tables, local, window
<1>6. ASSUME DatabaseReturns PROVE TypeOK'
  BY <1>6 DEF DatabaseReturns, world, offsets, tables, local, window
<1>7. ASSUME LoadOffset PROVE TypeOK'
  BY <1>7 DEF LoadOffset, world, offsets, tables, ZeroOffset, OffsetState
<1>8. ASSUME LocateLog PROVE TypeOK'
  BY <1>8 DEF LocateLog, world, offsets, tables, local, window
<1>9. ASSUME StatInode PROVE TypeOK'
  BY <1>9 DEF StatInode, world, offsets, tables, OffsetState
<1>10. ASSUME Measure PROVE TypeOK'
  BY <1>10 DEF Measure, world, offsets, tables, OffsetState, Size
<1>11. ASSUME ReadFile PROVE TypeOK'
  <2> DEFINE from == IF size < st.offset THEN 0 ELSE st.offset
             a    == log.base + from + 1
  <2>1. from \in Nat /\ Size \in Nat /\ a \in Nat \ {0}
    BY DEF OffsetState, Size
  <2>2. st' \in OffsetState
    <3> HIDE DEF from
    <3>1. \/ st' = [inode |-> cur, offset |-> IF from > Size THEN from ELSE Size]
          \/ st' = [inode |-> cur, offset |-> from]
      BY <1>11 DEF ReadFile, from
    <3> QED
      BY <2>1, <3>1 DEF OffsetState
  <2>3. CASE log.present
    <3>1. Parse(a..written)
      BY <1>11, <2>3 DEF ReadFile
    <3>2. rows' \subseteq Row /\ seen' \subseteq Line /\ young' \subseteq seen' /\ period' = period
      <4> HIDE DEF a, TypeOK
      <4> QED
        BY <2>1, <3>1, BatchType, ParseType
    <3> QED
      BY <1>11, <2>2, <3>2 DEF ReadFile, world, offsets, tables
  <2>4. CASE ~log.present
    BY <1>11, <2>2, <2>4 DEF ReadFile, world, offsets, tables
  <2> QED
    BY <2>3, <2>4
<1>12. ASSUME ReadJournal PROVE TypeOK'
  <2>1. PICK k \in 0..written : Parse((k + 1)..written)
    BY <1>12 DEF ReadJournal
  <2>2. k + 1 \in Nat \ {0}
    OBVIOUS
  <2>3. rows' \subseteq Row /\ seen' \subseteq Line /\ young' \subseteq seen' /\ period' = period
    <3> HIDE DEF TypeOK
    <3> QED
      BY <2>1, <2>2, BatchType, ParseType
  <2> QED
    BY <1>12, <2>3 DEF ReadJournal, world, offsets, tables
<1>13. ASSUME CheckDatabase PROVE TypeOK'
  BY <1>13 DEF CheckDatabase, AfterStore, Drop, Row, world, offsets, tables
<1>14. ASSUME InsertEvents PROVE TypeOK'
  BY <1>14 DEF InsertEvents, Drop, Row, EventRow, world, offsets, local, window
<1>15. ASSUME BeginFailures PROVE TypeOK'
  BY <1>15 DEF BeginFailures, RowsOf, world, offsets, tables
<1>16. ASSUME Count PROVE TypeOK'
  <2>1. PICK r \in todo :
           /\ todo' = todo \ {r}
           /\ stats' = IF dbUp /\ text[r.at] \in Dated
                       THEN [stats EXCEPT ![Who[text[r.at]]] =
                                Upsert(@, r.at, r.type)]
                       ELSE stats
    BY <1>16 DEF Count
  <2>2. r.at \in Occurrence
    BY DEF Row
  <2>3. Who[text[r.at]] \in Attacker
    BY <2>2, DataAssumption
  <2>4. Upsert(stats[Who[text[r.at]]], r.at, r.type) \in StatsRow
    BY <2>2, <2>3, UpsertType
  <2>5. stats' \in [Attacker -> StatsRow]
    BY <2>1, <2>3, <2>4
  <2> QED
    BY <1>16, <2>1, <2>5 DEF Count, world, offsets
<1>17. ASSUME BeginSuccesses PROVE TypeOK'
  BY <1>17 DEF BeginSuccesses, RowsOf, world, offsets, tables
<1>18. ASSUME EndCounting PROVE TypeOK'
  BY <1>18 DEF EndCounting, AfterStore, world, offsets, tables
<1>19. ASSUME SaveToDb PROVE TypeOK'
  BY <1>19 DEF SaveToDb, world, tables, local, window
<1>20. ASSUME SaveToJson PROVE TypeOK'
  BY <1>20 DEF SaveToJson, world, tables, local, window
<1>21. ASSUME Crash PROVE TypeOK'
  <2>1. young' = {} /\ period' \in [Line -> Nat \ {0}]
    BY <1>21 DEF Crash, Forget
  <2>2. st' \in OffsetState
    BY <1>21 DEF Crash, ZeroOffset, OffsetState
  <2> QED
    BY <1>21, <2>1, <2>2 DEF Crash, world, tables
<1>22. ASSUME Restart PROVE TypeOK'
  BY <1>22 DEF Restart, world, offsets, tables, local, window
<1>23. ASSUME UNCHANGED vars PROVE TypeOK'
  BY <1>23 DEF vars, world, offsets, tables, local, window
<1>24. ASSUME Age PROVE TypeOK'
  BY <1>0, <1>24 DEF Age, world, offsets, tables
<1> QED
  BY <1>1, <1>2, <1>3, <1>4, <1>5, <1>6, <1>7, <1>8, <1>9, <1>10, <1>11, <1>12, <1>13, <1>14, <1>15, <1>16, <1>17, <1>18, <1>19, <1>20, <1>21, <1>22, <1>23, <1>24
     DEF Next, Cycle

\* Every reachable state of every instance is well typed: in particular what
\* LoadOffset hands to the cycle is an offset state, never a truncated file.
THEOREM TypeCorrect == Spec => []TypeOK
<1> QED
  BY InitTypeOK, NextTypeOK, PTL DEF Spec

-----------------------------------------------------------------------------
(* No message twice in one period of its text                              *)

\* A step that keeps the table, the window and the pending rows, and does not
\* make rows pending, keeps the invariant.
LEMMA DedupFrame ==
    ASSUME DedupInv,
           UNCHANGED <<text, events, young, period>>,
           pc' \in {"store", "insert"} =>
               pc \in {"store", "insert"} /\ rows' = rows
    PROVE  DedupInv'
  BY DEF DedupInv, StoredOncePerWindow, InWindow

\* So does one in which texts leave the window and thereby begin a new period.
LEMMA DedupForget ==
    ASSUME TypeOK, DedupInv, NEW S \in SUBSET young, Forget(S),
           UNCHANGED <<text, events>>,
           pc' \in {"store", "insert"} =>
               pc \in {"store", "insert"} /\ rows' = rows
    PROVE  DedupInv'
<1>1. ASSUME NEW e \in events \cup rows, InWindow(e)
      PROVE  InWindow(e)'
  <2> DEFINE l == text[e.at]
  <2>1. l \in Line /\ period[l] \in Nat /\ e.period \in Nat
    BY DEF TypeOK, EventRow, Row
  <2>2. /\ young' = young \ S /\ text' = text
        /\ period'[l] = IF l \in S THEN period[l] + 1 ELSE period[l]
    BY <2>1 DEF Forget
  <2>3. e.period <= period[l] /\ (e.period = period[l] => l \in young)
    BY <1>1 DEF InWindow
  <2> HIDE DEF l
  <2>4. e.period <= period'[l] /\ (e.period = period'[l] => l \in young')
    BY <2>1, <2>2, <2>3
  <2> QED
    BY <2>2, <2>4 DEF InWindow, l
<1>2. StoredOncePerWindow'
  BY DEF DedupInv, StoredOncePerWindow
<1>3. \A e \in events' : InWindow(e)'
  BY <1>1 DEF DedupInv
<1>4. ASSUME pc' \in {"store", "insert"}
      PROVE  /\ \A r \in rows' : InWindow(r)'
             /\ \A r, q \in rows' :
                   (r.type = q.type /\ text'[r.at] = text'[q.at]) => r = q
             /\ \A r \in rows', e \in events' :
                   e.period = r.period => text'[e.at] # text'[r.at]
  BY <1>1, <1>4 DEF DedupInv
<1> QED
  BY <1>2, <1>3, <1>4 DEF DedupInv

LEMMA DedupParse ==
    ASSUME TypeOK, DedupInv, NEW batch \in SUBSET Occurrence, Parse(batch),
           UNCHANGED <<text, events>>
    PROVE  DedupInv'
<1> DEFINE Rs == Normalized(batch)
<1>1. /\ rows' = Rs /\ period' = period /\ young \subseteq young'
      /\ \A r \in Rs : text[r.at] \in young'
  BY ParseWindow
<1>2. \A r \in Rs : /\ r.at \in Occurrence
                    /\ text[r.at] \notin young /\ r.period = period[text[r.at]]
  BY NormalizedNew DEF Recognised
<1>3. \A r, q \in Rs :
         (r.type = q.type /\ text[r.at] = text[q.at]) => r = q
  BY NormalizedDistinct
<1> HIDE DEF Rs
<1>4. \A r \in Rs : InWindow(r)'
  <2>1. \A r \in Rs : period[text[r.at]] <= period[text[r.at]]
    BY <1>2 DEF TypeOK
  <2> QED
    BY <1>1, <1>2, <2>1 DEF InWindow
<1>5. \A e \in events : InWindow(e)'
  BY <1>1 DEF DedupInv, InWindow
<1>6. \A r \in Rs, e \in events : e.period = r.period => text[e.at] # text[r.at]
  BY <1>2 DEF DedupInv, InWindow
<1> QED
  BY <1>1, <1>3, <1>4, <1>5, <1>6 DEF DedupInv, StoredOncePerWindow

\* what InsertEvents makes of a row
Inserted(r) == [at |-> r.at, type |-> r.type, period |-> r.period,
                stmt |-> inserts + 1]

LEMMA DedupInsert ==
    ASSUME TypeOK, DedupInv, InsertEvents
    PROVE  DedupInv'
<1>0. UNCHANGED <<text, young, period>> /\ pc = "insert" /\ pc' = "failures"
  BY DEF InsertEvents, world, local, window
<1>1. CASE events' = events
  BY <1>0, <1>1, DedupFrame
<1>2. CASE events' # events
  <2> DEFINE new == {Inserted(r) : r \in rows}
  <2>1. events' = events \cup new
    BY <1>2 DEF InsertEvents, Inserted
  <2>2. \A r : /\ Inserted(r).at = r.at /\ Inserted(r).type = r.type
               /\ Inserted(r).period = r.period
    BY DEF Inserted
  <2>3. \A e \in new : InWindow(e)
    BY <1>0, <2>2 DEF DedupInv, InWindow
  <2>4. \A e \in new, f \in events :
           (e.period = f.period /\ text[e.at] = text[f.at]) => FALSE
    BY <1>0, <2>2 DEF DedupInv
  <2>5. \A e, f \in new :
           (e.type = f.type /\ text[e.at] = text[f.at]) => e = f
    <3> SUFFICES ASSUME NEW e \in new, NEW f \in new,
                        e.type = f.type, text[e.at] = text[f.at]
                 PROVE  e = f
      OBVIOUS
    <3>1. PICK r \in rows : e = Inserted(r)
      OBVIOUS
    <3>2. PICK q \in rows : f = Inserted(q)
      OBVIOUS
    <3>3. r = q
      BY <1>0, <2>2, <3>1, <3>2 DEF DedupInv
    <3> QED
      BY <3>1, <3>2, <3>3
  <2> HIDE DEF new
  <2>6. StoredOncePerWindow'
    <3> SUFFICES ASSUME NEW e \in events', NEW f \in events', e.period = f.period,
                        e.type = f.type, text[e.at] = text[f.at]
                 PROVE  e = f
      BY <1>0 DEF StoredOncePerWindow
    <3>1. CASE e \in events /\ f \in events
      BY <3>1 DEF DedupInv, StoredOncePerWindow
    <3>2. CASE e \in new /\ f \in new
      BY <3>2, <2>5
    <3>3. CASE e \in new /\ f \in events
      BY <3>3, <2>4
    <3>4. CASE e \in events /\ f \in new
      BY <3>4, <2>4
    <3> QED
      BY <2>1, <3>1, <3>2, <3>3, <3>4
  <2>7. \A e \in events' : InWindow(e)'
    BY <1>0, <2>1, <2>3 DEF DedupInv, InWindow
  <2> QED
    BY <1>0, <2>6, <2>7 DEF DedupInv
<1> QED
  BY <1>1, <1>2

LEMMA NextDedupInv == TypeOK /\ DedupInv /\ [Next]_vars => DedupInv'
<1> SUFFICES ASSUME TypeOK, DedupInv, [Next]_vars PROVE DedupInv'
  OBVIOUS
<1>1. ASSUME \/ WriteLine \/ RenameAway \/ Recreate \/ Truncate
             \/ DatabaseFails \/ DatabaseReturns \/ UNCHANGED vars
      PROVE  DedupInv'
  BY <1>1, DedupFrame
     DEF WriteLine, RenameAway, Recreate, Truncate, DatabaseFails,
         DatabaseReturns, vars, world, tables, local, window
<1>2. ASSUME \/ LoadOffset \/ LocateLog \/ StatInode \/ Measure
      PROVE  DedupInv'
  BY <1>2, DedupFrame
     DEF LoadOffset, LocateLog, StatInode, Measure, world, tables, local, window
<1>3. ASSUME ReadFile PROVE DedupInv'
  <2> DEFINE a == log.base + (IF size < st.offset THEN 0 ELSE st.offset) + 1
  <2>1. a \in Nat \ {0}
    BY DEF TypeOK, OffsetState
  <2>2. pc = "read" /\ UNCHANGED <<text, events>>
    BY <1>3 DEF ReadFile, world, tables
  <2>3. CASE log.present
    <3>1. Parse(a..written)
      BY <1>3, <2>3 DEF ReadFile
    <3> HIDE DEF a
    <3> QED
      BY <2>1, <2>2, <3>1, BatchType, DedupParse
  <2>4. CASE ~log.present
    BY <1>3, <2>2, <2>4, DedupFrame DEF ReadFile, window
  <2> QED
    BY <2>3, <2>4
<1>4. ASSUME ReadJournal PROVE DedupInv'
  <2>1. PICK k \in 0..written : Parse((k + 1)..written)
    BY <1>4 DEF ReadJournal
  <2>2. pc = "journal" /\ UNCHANGED <<text, events>>
    BY <1>4 DEF ReadJournal, world, tables
  <2>3. k + 1 \in Nat \ {0}
    BY DEF TypeOK
  <2> QED
    BY <2>1, <2>2, <2>3, BatchType, DedupParse
<1>5. ASSUME CheckDatabase PROVE DedupInv'
  BY <1>5, DedupFrame DEF CheckDatabase, AfterStore, world, tables, window
<1>6. ASSUME \/ BeginFailures \/ Count \/ BeginSuccesses \/ EndCounting
             \/ SaveToDb \/ SaveToJson
      PROVE  DedupInv'
  BY <1>6, DedupFrame
     DEF BeginFailures, Count, BeginSuccesses, EndCounting, AfterStore,
         SaveToDb, SaveToJson, world, tables, local, window
<1>7. ASSUME Age \/ Crash PROVE DedupInv'
  <2>1. UNCHANGED <<text, events>>
    BY <1>7 DEF Age, Crash, world, tables
  <2>2. PICK S \in SUBSET young : Forget(S)
    BY <1>7 DEF Age, Crash
  <2>3. pc' \in {"store", "insert"} => pc \in {"store", "insert"} /\ rows' = rows
    BY <1>7 DEF Age, Crash
  <2> QED
    BY <2>1, <2>2, <2>3, DedupForget
<1>8. ASSUME Restart PROVE DedupInv'
  BY <1>8, DedupFrame DEF Restart, world, tables, local, window
<1> QED
  BY <1>1, <1>2, <1>3, <1>4, <1>5, DedupInsert, <1>6, <1>7, <1>8 DEF Next, Cycle

\* Whatever crashes, outages, rotations and stale positions make the pipeline
\* read again, and whatever _prune takes out of the dictionary, a message of a
\* type is stored once until the dedup window has gone by or was lost.
THEOREM OncePerWindow == Spec => []StoredOncePerWindow
<1>1. Init => DedupInv
  BY DEF Init, DedupInv, StoredOncePerWindow
<1>2. DedupInv => StoredOncePerWindow
  BY DEF DedupInv
<1> QED
  BY InitTypeOK, NextTypeOK, <1>1, NextDedupInv, <1>2, PTL DEF Spec

-----------------------------------------------------------------------------
(* A saved position covers only settled lines                              *)

\* what the working position of the current file covers
WorkCovered ==
    st.inode = log.inode =>
        \A n \in (log.base + 1)..(log.base + st.offset) :
            n <= written /\ (Settled(n) \/ Pending(text[n]))

\* A step that keeps the working position and the identity of the file, loses
\* no event, no pending row without settling it, and saves at most the working
\* position once that is settled, keeps the invariant.
LEMMA OffsetFrame ==
    ASSUME TypeOK, TypeOK', OffsetInv,
           text' = text, written <= written',
           log'.inode = log.inode, log'.base = log.base,
           events \subseteq events', dropped \subseteq dropped',
           st' = st, cur' = cur, seen' = seen,
           \/ Saved' \subseteq Saved
           \/ Saved' \subseteq Saved \cup {st} /\ pc \notin {"store", "insert"},
           \A l \in Line : Pending(l) => Pending(l)' \/ SettledText(l)',
           pc' \in {"measure", "read"} => pc \in {"measure", "read"}
    PROVE  OffsetInv'
<1>1. \A n \in Occurrence : text[n] \in Line
  BY DEF TypeOK
<1>2. \A l : SettledText(l) => SettledText(l)'
  BY DEF SettledText
<1>3. \A n : Settled(n) = SettledText(text[n]) /\ Settled(n)' = SettledText(text[n])'
  BY DEF Settled, SettledText
<1>4. \A l \in seen' : SettledText(l)' \/ Pending(l)'
  BY <1>2 DEF OffsetInv, TypeOK
<1>5. WorkCovered'
  <2> SUFFICES ASSUME st.inode = log.inode,
                      NEW n \in (log.base + 1)..(log.base + st.offset)
               PROVE  n <= written' /\ (Settled(n)' \/ Pending(text[n])')
    BY DEF WorkCovered
  <2>1. n \in Int /\ 0 < n
    BY DEF TypeOK, OffsetState
  <2>2. n <= written /\ (Settled(n) \/ Pending(text[n]))
    BY DEF OffsetInv
  <2>3. n \in Occurrence
    BY <2>1, <2>2, BoundAssumption DEF TypeOK, Occurrence
  <2>4. n <= written'
    BY <2>1, <2>2 DEF TypeOK
  <2> QED
    BY <1>1, <1>2, <1>3, <2>2, <2>3, <2>4
<1>6. \A r \in Saved' : r \in OffsetState
  BY DEF TypeOK, Saved
<1>7. SavedIsCovered'
  <2> SUFFICES ASSUME NEW r \in Saved', r.inode = log.inode,
                      NEW n \in (log.base + 1)..(log.base + r.offset)
               PROVE  n <= written' /\ Settled(n)'
    BY DEF SavedIsCovered
  <2>1. n \in Int
    BY <1>6 DEF TypeOK, OffsetState
  <2>2. n <= written /\ Settled(n)
    <3>1. CASE r \in Saved
      BY <3>1 DEF OffsetInv, SavedIsCovered
    <3>2. CASE r = st /\ pc \notin {"store", "insert"}
      BY <3>2 DEF OffsetInv, Pending
    <3> QED
      BY <3>1, <3>2
  <2>3. n <= written'
    BY <2>1, <2>2 DEF TypeOK
  <2> QED
    BY <1>2, <1>3, <2>2, <2>3
<1>8. \A r \in Saved' \cup {st'} : r.inode <= log'.inode
  BY DEF OffsetInv
<1>9. cur' <= log'.inode /\ (pc' \in {"measure", "read"} => st'.inode = cur' \/ st'.offset = 0)
  BY DEF OffsetInv
<1> QED
  BY <1>4, <1>5, <1>7, <1>8, <1>9 DEF OffsetInv, WorkCovered

\* A step that sets the working position, with no row pending before or after
\* it and nothing else of interest changed.
LEMMA OffsetMove ==
    ASSUME TypeOK, TypeOK', OffsetInv, Saved' = Saved,
           text' = text, written' = written, log' = log,
           events' = events, dropped' = dropped, seen' = seen,
           pc \notin {"store", "insert"}, pc' \notin {"store", "insert"},
           st'.inode <= log.inode, cur' <= log.inode,
           \/ st' \in Saved \cup {st}
           \/ st'.offset = 0
           \/ st'.inode # log.inode,
           pc' \in {"measure", "read"} => (st'.inode = cur' \/ st'.offset = 0)
    PROVE  OffsetInv'
<1>1. \A l : /\ ~Pending(l) /\ ~Pending(l)'
            /\ SettledText(l)' = SettledText(l)
  BY DEF Pending, SettledText
<1>2. \A n : Settled(n)' = Settled(n)
  BY DEF Settled
<1>3. WorkCovered'
  <2> SUFFICES ASSUME st'.inode = log.inode,
                      NEW n \in (log.base + 1)..(log.base + st'.offset)
               PROVE  n <= written /\ Settled(n)
    BY <1>2 DEF WorkCovered
  <2>1. st' \in Saved \cup {st}
    BY DEF TypeOK, OffsetState
  <2> QED
    BY <1>1, <2>1 DEF OffsetInv, SavedIsCovered
<1>4. SavedIsCovered'
  BY <1>2 DEF OffsetInv, SavedIsCovered
<1> QED
  BY <1>1, <1>3, <1>4 DEF OffsetInv, WorkCovered

\* Parsing a batch settles its lines or makes their rows pending.
LEMMA ParseSettles ==
    ASSUME TypeOK, OffsetInv, NEW batch \in SUBSET Occurrence, Parse(batch),
           text' = text, events' = events, dropped' = dropped,
           pc \notin {"store", "insert"},
           pc' = "store" \/ batch = {}
    PROVE  /\ \A l \in seen' : SettledText(l)' \/ Pending(l)'
           /\ \A n \in batch : Settled(n)' \/ Pending(text[n])'
           /\ \A l : SettledText(l)' = SettledText(l)
           /\ \A n : Settled(n)' = Settled(n)
<1>1. /\ \A l : ~Pending(l) /\ SettledText(l)' = SettledText(l)
      /\ \A n : Settled(n)' = Settled(n) /\ Settled(n) = SettledText(text[n])
  BY DEF Pending, Settled, SettledText
<1>2. \A l \in seen : SettledText(l)'
  BY <1>1 DEF OffsetInv
<1>3. ASSUME NEW n \in batch
      PROVE  Settled(n)' \/ Pending(text[n])'
  <2>1. CASE EventType[text[n]] = "none"
    BY <1>1, <2>1 DEF Settled
  <2>2. CASE EventType[text[n]] # "none"
    <3>1. n \in Recognised(batch)
      BY <2>2 DEF Recognised
    <3>2. CASE text[n] \in seen
      BY <1>1, <1>2, <3>2
    <3>3. CASE \E r \in Normalized(batch) : text[r.at] = text[n]
      BY <3>1, <3>3 DEF Parse, Pending
    <3> QED
      BY <3>1, <3>2, <3>3, NothingForgotten
  <2> QED
    BY <2>1, <2>2
<1>4. ASSUME NEW l \in seen' PROVE SettledText(l)' \/ Pending(l)'
  <2>1. CASE l \in seen
    BY <1>2, <2>1
  <2>2. CASE \E r \in rows' : text[r.at] = l
    <3>1. PICK r \in Normalized(batch) : text[r.at] = l
      BY <2>2, ParseWindow
    <3>2. r.at \in batch
      BY NormalizedNew DEF Recognised
    <3> QED
      BY <1>1, <1>3, <3>1, <3>2
  <2> QED
    BY <2>1, <2>2, ParseWindow
<1> QED
  BY <1>1, <1>3, <1>4

\* Reading the file: the lines before the position it starts from are settled,
\* those after it are parsed, and the new position is the end of the file.
LEMMA OffsetReadFile ==
    ASSUME TypeOK, TypeOK', OffsetInv, ReadFile
    PROVE  OffsetInv'
<1> DEFINE from  == IF size < st.offset THEN 0 ELSE st.offset
           a     == log.base + from + 1
<1>1. /\ from \in Nat /\ Size \in Nat /\ a \in Nat \ {0}
      /\ log.base \in Nat /\ written \in Nat /\ cur \in Nat
  BY DEF TypeOK, OffsetState, Size
<1>2. /\ pc = "read" /\ UNCHANGED <<text, written, log, events, dropped, cur>>
      /\ Saved' = Saved
  BY DEF ReadFile, world, offsets, tables, Saved
<1>3. st'.inode = cur /\ cur <= log.inode
  BY DEF ReadFile, OffsetInv
<1>4. CASE log.present
  <2>1. /\ st'.offset = IF from > Size THEN from ELSE Size
        /\ Parse(a..written)
        /\ pc' = IF a..written = {} THEN "save_db" ELSE "store"
    BY <1>4 DEF ReadFile
  <2> HIDE DEF a, from
  <2>2. a..written \in SUBSET Occurrence
    BY <1>1, BatchType
  <2>3. /\ \A l \in seen' : SettledText(l)' \/ Pending(l)'
        /\ \A n \in a..written : Settled(n)' \/ Pending(text[n])'
        /\ \A n : Settled(n)' = Settled(n)
    BY <1>2, <2>1, <2>2, ParseSettles
  <2>4. ASSUME st'.inode = log.inode,
               NEW n \in (log.base + 1)..(log.base + st'.offset)
        PROVE  n <= written /\ (Settled(n)' \/ Pending(text[n])')
    <3>1. st.inode = cur \/ st.offset = 0
      BY <1>2 DEF OffsetInv
    <3>2. from = 0 \/ (from = st.offset /\ st.inode = log.inode)
      BY <1>3, <2>4, <3>1 DEF from
    <3>3. \A m \in (log.base + 1)..(log.base + from) : m <= written /\ Settled(m)
      <4>1. CASE from = 0
        BY <1>1, <4>1
      <4>2. CASE from = st.offset /\ st.inode = log.inode
        BY <1>2, <4>2 DEF OffsetInv, Pending
      <4> QED
        BY <3>2, <4>1, <4>2
    <3>4. from <= Size
      <4>1. CASE from = 0
        BY <1>1, <4>1
      <4>2. CASE from > 0
        <5>1. log.base + from \in (log.base + 1)..(log.base + from)
          BY <1>1, <4>2
        <5>2. log.base + from <= written
          BY <3>3, <5>1
        <5> QED
          BY <1>1, <5>2 DEF Size
      <4> QED
        BY <1>1, <4>1, <4>2
    <3>5. n \in Int /\ log.base + 1 <= n /\ n <= written
      BY <1>1, <2>1, <3>4 DEF Size
    <3>6. CASE n <= log.base + from
      BY <1>1, <2>3, <3>3, <3>5, <3>6
    <3>7. CASE n > log.base + from
      <4>1. n \in a..written
        BY <1>1, <3>5, <3>7 DEF a
      <4> QED
        BY <2>3, <3>5, <4>1
    <3> QED
      BY <1>1, <3>5, <3>6, <3>7
  <2>5. WorkCovered'
    BY <1>2, <2>4 DEF WorkCovered
  <2>6. SavedIsCovered'
    BY <1>2, <2>3 DEF OffsetInv, SavedIsCovered
  <2>7. pc' \notin {"measure", "read"}
    BY <2>1
  <2> QED
    BY <1>2, <1>3, <2>3, <2>5, <2>6, <2>7 DEF OffsetInv, WorkCovered
<1>5. CASE ~log.present
  <2>1. st'.offset = from /\ pc' = "save_db" /\ seen' = seen
    BY <1>5 DEF ReadFile, window
  <2>2. st' = st \/ st'.offset = 0
    <3>1. st.inode = cur \/ st.offset = 0
      BY <1>2 DEF OffsetInv
    <3>2. st'.offset = 0 \/ (st.inode = st'.inode /\ st.offset = st'.offset)
      BY <1>1, <1>3, <2>1, <3>1 DEF TypeOK, OffsetState
    <3> QED
      BY <3>2 DEF TypeOK, OffsetState
  <2> QED
    BY <1>2, <1>3, <2>1, <2>2, OffsetMove
<1> QED
  BY <1>4, <1>5

LEMMA OffsetReadJournal ==
    ASSUME TypeOK, TypeOK', OffsetInv, ReadJournal
    PROVE  OffsetInv'
<1>1. /\ pc = "journal"
      /\ UNCHANGED <<text, written, log, events, dropped, st, cur>>
      /\ Saved' = Saved
  BY DEF ReadJournal, world, offsets, tables, Saved
<1>2. PICK k \in 0..written :
         /\ Parse((k + 1)..written)
         /\ pc' = IF k = written THEN "idle" ELSE "store"
  BY DEF ReadJournal
<1>3. written \in Nat /\ k \in Nat
  BY DEF TypeOK
<1>4. (k + 1)..written \in SUBSET Occurrence
  BY <1>3, BatchType
<1>5. pc' = "store" \/ (k + 1)..written = {}
  BY <1>2, <1>3
<1>6. /\ \A l \in seen' : SettledText(l)' \/ Pending(l)'
      /\ \A n : Settled(n)' = Settled(n)
  BY <1>1, <1>2, <1>4, <1>5, ParseSettles
<1>7. WorkCovered' /\ SavedIsCovered'
  BY <1>1, <1>6 DEF WorkCovered, OffsetInv, Pending, SavedIsCovered
<1> QED
  BY <1>1, <1>2, <1>6, <1>7 DEF OffsetInv, WorkCovered

\* A new file: every position belongs to an older inode.
LEMMA OffsetRecreate ==
    ASSUME TypeOK, OffsetInv, Recreate
    PROVE  OffsetInv'
<1>1. /\ UNCHANGED <<text, written, events, dropped, st, cur, seen, rows, pc>>
      /\ Saved' = Saved
      /\ log'.inode = log.inode + 1
  BY DEF Recreate, world, offsets, tables, local, window, Saved
<1>2. \A r \in Saved \cup {st} : r.inode \in Nat
  BY DEF TypeOK, Saved, OffsetState
<1>3. log.inode \in Nat /\ cur \in Nat
  BY DEF TypeOK
<1>4. \A r \in Saved \cup {st} : r.inode <= log'.inode /\ r.inode # log'.inode
  BY <1>1, <1>2, <1>3 DEF OffsetInv
<1>5. cur' <= log'.inode
  BY <1>1, <1>3 DEF OffsetInv
<1>6. \A l \in seen' : SettledText(l)' \/ Pending(l)'
  BY <1>1 DEF OffsetInv, SettledText, Pending
<1>7. SavedIsCovered' /\ WorkCovered'
  BY <1>1, <1>4 DEF SavedIsCovered, WorkCovered
<1>8. pc' \in {"measure", "read"} => (st'.inode = cur' \/ st'.offset = 0)
  BY <1>1 DEF OffsetInv
<1> QED
  BY <1>1, <1>4, <1>5, <1>6, <1>7, <1>8 DEF OffsetInv, WorkCovered

\* The rows of a batch are settled by the insert: in the table or dropped.
LEMMA OffsetStore ==
    ASSUME TypeOK, TypeOK', OffsetInv, CheckDatabase \/ InsertEvents
    PROVE  OffsetInv'
<1>1. /\ UNCHANGED <<text, written, log, st, cur, seen>>
      /\ Saved' = Saved
      /\ events \subseteq events' /\ dropped \subseteq dropped'
      /\ pc' \notin {"measure", "read"}
  BY DEF CheckDatabase, InsertEvents, AfterStore, Drop, world, offsets, tables,
         local, window, Saved
<1>2. ASSUME NEW l \in Line, Pending(l)
      PROVE  Pending(l)' \/ SettledText(l)'
  <2>1. PICK r \in rows : text[r.at] = l
    BY <1>2 DEF Pending
  <2>2. CASE CheckDatabase
    BY <1>1, <2>1, <2>2 DEF CheckDatabase, Drop, Pending, SettledText
  <2>3. CASE InsertEvents
    <3>1. CASE events' = events \cup
                 {Inserted(q) : q \in rows}
      <4>1. Inserted(r) \in events' /\ Inserted(r).at = r.at
        BY <3>1 DEF Inserted
      <4> QED
        BY <1>1, <2>1, <4>1 DEF SettledText
    <3>2. CASE Drop
      BY <1>1, <2>1, <3>2 DEF Drop, SettledText
    <3> QED
      BY <2>3, <3>1, <3>2 DEF InsertEvents, Inserted
  <2> QED
    BY <2>2, <2>3
<1>3. written <= written'
  BY <1>1 DEF TypeOK
<1> QED
  BY <1>1, <1>2, <1>3, OffsetFrame

LEMMA NextOffsetInv ==
    ASSUME ~truncated', TypeOK, TypeOK', OffsetInv, [Next]_vars
    PROVE  OffsetInv'
<1>1. written <= written
  BY DEF TypeOK
<1>2. ASSUME \/ WriteLine \/ RenameAway \/ DatabaseFails \/ DatabaseReturns
             \/ Age \/ UNCHANGED vars
      PROVE  OffsetInv'
  <2>1. /\ text' = text /\ log'.inode = log.inode /\ log'.base = log.base
        /\ UNCHANGED <<events, dropped, st, cur, seen, rows, pc>>
        /\ Saved' = Saved
    BY <1>2 DEF WriteLine, RenameAway, DatabaseFails, DatabaseReturns, Age, vars,
                world, offsets, tables, local, window, Saved, TypeOK
  <2>2. written <= written'
    BY <1>1, <1>2 DEF WriteLine, RenameAway, DatabaseFails, DatabaseReturns, Age, vars,
                      world, TypeOK
  <2>3. \A l : Pending(l) => Pending(l)'
    BY <2>1 DEF Pending
  <2> QED
    BY <2>1, <2>2, <2>3, OffsetFrame
<1>3. ASSUME LoadOffset PROVE OffsetInv'
  <2>0. \A r \in OffsetState : "inode" \in DOMAIN r
    BY DEF OffsetState
  <2>1. st' \in Saved \/ st' = ZeroOffset
    <3>1. Corrupt \notin OffsetState
      BY <2>0 DEF Corrupt
    <3>2. dbRow = NoRow \/ dbRow # Corrupt
      BY <3>1 DEF TypeOK
    <3> QED
      BY <1>3, <3>2 DEF LoadOffset, Saved
  <2>2. st'.inode <= log.inode
    BY <2>1 DEF OffsetInv, ZeroOffset, TypeOK
  <2>3. st' \in Saved \cup {st} \/ st'.offset = 0
    BY <2>1 DEF ZeroOffset
  <2>4. UNCHANGED <<text, written, log, events, dropped, seen, cur>> /\ Saved' = Saved
    BY <1>3 DEF LoadOffset, world, offsets, tables, window, Saved
  <2> QED
    BY <1>3, <2>2, <2>3, <2>4, OffsetMove DEF LoadOffset, OffsetInv
<1>4. ASSUME StatInode PROVE OffsetInv'
  <2>1. UNCHANGED <<text, written, log, events, dropped, seen>> /\ Saved' = Saved
    BY <1>4 DEF StatInode, world, offsets, tables, window, Saved
  <2>2. cur' <= log.inode
    BY <1>4 DEF StatInode, TypeOK
  <2>3. \/ st' = st /\ st'.inode = cur'
        \/ st'.offset = 0 /\ st'.inode = st.inode
    BY <1>4 DEF StatInode, TypeOK, OffsetState
  <2>4. st'.inode <= log.inode
    BY <2>3 DEF OffsetInv
  <2> QED
    BY <1>4, <2>1, <2>2, <2>3, <2>4, OffsetMove DEF StatInode
<1>5. ASSUME Measure PROVE OffsetInv'
  <2>1. /\ UNCHANGED <<text, written, log, events, dropped, seen, cur>>
        /\ Saved' = Saved
        /\ pc = "measure"
    BY <1>5 DEF Measure, world, offsets, tables, window, Saved
  <2>2. st.inode = cur \/ st.offset = 0
    BY <2>1 DEF OffsetInv
  <2>3. \/ st' = st /\ pc' = "read"
        \/ st' = [st EXCEPT !.inode = cur] /\ pc' = "save_db"
    BY <1>5 DEF Measure
  <2>4. st' = st \/ st'.offset = 0
    BY <2>2, <2>3 DEF TypeOK, OffsetState
  <2>5. st'.inode <= log.inode
    BY <2>3 DEF OffsetInv, TypeOK, OffsetState
  <2> QED
    BY <2>1, <2>2, <2>3, <2>4, <2>5, OffsetMove DEF OffsetInv
<1>6. ASSUME \/ LocateLog \/ BeginFailures \/ Count \/ BeginSuccesses
             \/ EndCounting \/ SaveToDb \/ SaveToJson \/ Restart
      PROVE  OffsetInv'
  <2>1. UNCHANGED <<text, written, log, events, dropped, st, cur, seen>>
    BY <1>6 DEF LocateLog, BeginFailures, Count, BeginSuccesses, EndCounting,
                SaveToDb, SaveToJson, Restart, world, tables, local, window
  <2>2. Saved' \subseteq Saved \cup {st} /\ pc \notin {"store", "insert"}
    BY <1>6 DEF LocateLog, BeginFailures, Count, BeginSuccesses, EndCounting,
                SaveToDb, SaveToJson, Restart, offsets, Saved
  <2>3. pc' \notin {"measure", "read"}
    BY <1>6 DEF LocateLog, BeginFailures, Count, BeginSuccesses, EndCounting,
                SaveToDb, SaveToJson, Restart, AfterStore
  <2>4. \A l : ~Pending(l)
    BY <2>2 DEF Pending
  <2> QED
    BY <1>1, <2>1, <2>2, <2>3, <2>4, OffsetFrame
<1>7. ASSUME Crash PROVE OffsetInv'
  <2>1. /\ UNCHANGED <<text, written, log, events, dropped>>
        /\ Saved' \subseteq Saved
        /\ st' = ZeroOffset /\ cur' = 0 /\ seen' = {} /\ pc' = "down"
    BY <1>7 DEF Crash, world, tables, Saved
  <2>2. \A n : Settled(n)' = Settled(n)
    BY <2>1 DEF Settled
  <2>3. SavedIsCovered' /\ WorkCovered'
    BY <2>1, <2>2 DEF SavedIsCovered, OffsetInv, WorkCovered, ZeroOffset, TypeOK
  <2>4. \A r \in Saved' \cup {st'} : r.inode <= log'.inode
    BY <2>1 DEF OffsetInv, ZeroOffset, TypeOK
  <2>5. cur' <= log'.inode
    BY <2>1 DEF TypeOK
  <2> QED
    BY <2>1, <2>3, <2>4, <2>5 DEF OffsetInv, WorkCovered
<1> QED
  BY <1>2, <1>3, <1>4, <1>5, <1>6, <1>7, OffsetRecreate, OffsetReadFile,
     OffsetReadJournal, OffsetStore
     DEF Next, Cycle, Truncate

\* As long as no file is truncated in place, no crash, outage, rotation or race
\* makes a saved position cover a line whose event is neither in the table nor
\* known to be lost.
THEOREM PositionIsSettled == Spec => []SavedIsSettled
<1> DEFINE Inv == ~truncated => OffsetInv
<1>1. Init => Inv
  <2> SUFFICES ASSUME Init PROVE OffsetInv
    OBVIOUS
  <2>1. Saved = {} /\ st = ZeroOffset /\ seen = {} /\ cur = 0 /\ pc = "idle"
    BY DEF Init, Saved
  <2> QED
    BY <2>1 DEF Init, OffsetInv, SavedIsCovered, ZeroOffset
<1>2. TypeOK /\ TypeOK' /\ Inv /\ [Next]_vars => Inv'
  <2> SUFFICES ASSUME TypeOK, TypeOK', Inv, [Next]_vars, ~truncated'
               PROVE  OffsetInv'
    OBVIOUS
  <2>1. ~truncated
    BY DEF Next, Cycle, WriteLine, RenameAway, Recreate, Truncate, DatabaseFails,
           DatabaseReturns, LoadOffset, LocateLog, StatInode, Measure, ReadFile,
           ReadJournal, CheckDatabase, InsertEvents, BeginFailures, Count,
           BeginSuccesses, EndCounting, SaveToDb, SaveToJson, Crash, Restart,
           Age, vars, world
  <2> QED
    BY <2>1, NextOffsetInv
<1>3. Inv => SavedIsSettled
  BY DEF OffsetInv, SavedIsSettled
<1> HIDE DEF Inv
<1> QED
  BY InitTypeOK, NextTypeOK, <1>1, <1>2, <1>3, PTL DEF Spec

-----------------------------------------------------------------------------
(* The pipeline implements the abstract table                              *)

\* what a row of the table says
Said(e) == [line |-> text[e.at], type |-> e.type, period |-> e.period,
            id |-> <<e.stmt, e.at>>]

LEMMA InsertIsStore ==
    ASSUME TypeOK, DedupInv', InsertEvents, events' # events
    PROVE  Abstract!Store
<1>1. /\ text' = text /\ period' = period
      /\ events \subseteq events'
  BY DEF InsertEvents, world, local, window
<1>2. Table = {Said(e) : e \in events} /\ Table' = {Said(e) : e \in events'}
  BY <1>1 DEF Table, Said
<1>3. Table \subseteq Table'
  BY <1>1, <1>2
<1>4. ASSUME NEW x \in Table'
      PROVE  x.period <= period[x.line]
  <2>1. PICK e \in events' : x = Said(e)
    BY <1>2
  <2>2. e.period <= period[text[e.at]]
    BY <1>1 DEF DedupInv, InWindow
  <2> QED
    BY <2>1, <2>2 DEF Said
<1>5. ASSUME NEW x \in Table', NEW y \in Table', Abstract!SameEvent(x, y)
      PROVE  x = y
  <2>1. PICK e \in events' : x = Said(e)
    BY <1>2
  <2>2. PICK f \in events' : y = Said(f)
    BY <1>2
  <2>3. e.period = f.period /\ e.type = f.type /\ text[e.at] = text[f.at]
    BY <1>5, <2>1, <2>2 DEF Abstract!SameEvent, Said
  <2>4. e = f
    BY <1>1, <2>3 DEF DedupInv, StoredOncePerWindow
  <2> QED
    BY <2>1, <2>2, <2>4
<1> QED
  BY <1>1, <1>3, <1>4, <1>5 DEF Abstract!Store

LEMMA StepImplements ==
    ASSUME TypeOK, DedupInv', [Next]_vars
    PROVE  [Abstract!ANext]_(Abstract!avars)
<1>1. ASSUME text' = text, events' = events
      PROVE  Table' = Table
  BY <1>1 DEF Table
<1>2. CASE InsertEvents
  <2>1. CASE events' # events
    BY <1>2, <2>1, InsertIsStore DEF Abstract!ANext
  <2>2. CASE events' = events
    BY <1>1, <1>2, <2>2 DEF InsertEvents, world, local, window, Abstract!avars
  <2> QED
    BY <2>1, <2>2
<1>3. CASE Age \/ Crash
  <2>1. text' = text /\ events' = events
    BY <1>3 DEF Age, Crash, world, tables
  <2>2. PICK S \in SUBSET young : Forget(S)
    BY <1>3 DEF Age, Crash
  <2>3. S \in SUBSET Line
    BY DEF TypeOK
  <2> QED
    BY <1>1, <2>1, <2>2, <2>3 DEF Forget, Abstract!ANext, Abstract!NewPeriod
<1>4. CASE ~InsertEvents /\ ~Age /\ ~Crash
  <2>1. text' = text /\ events' = events /\ period' = period
    BY <1>4 DEF Next, Cycle, WriteLine, RenameAway, Recreate, Truncate,
                DatabaseFails, DatabaseReturns, LoadOffset, LocateLog, StatInode,
                Measure, ReadFile, ReadJournal, Parse, CheckDatabase, BeginFailures,
                Count, BeginSuccesses, EndCounting, SaveToDb, SaveToJson, Restart,
                vars, world, tables, local, window
  <2> QED
    BY <1>1, <2>1 DEF Abstract!avars
<1> QED
  BY <1>2, <1>3, <1>4

\* Every behaviour of the pipeline is one of the abstract table: rows are only
\* added, and none for a message that has its row in this period of its text.
THEOREM Refinement == Spec => ImplementsEventTable
<1>1. Init => DedupInv
  BY DEF Init, DedupInv, StoredOncePerWindow
<1>2. Init => Abstract!AInit
  BY DEF Init, Table, Abstract!AInit
<1>3. TypeOK /\ DedupInv' /\ [Next]_vars => [Abstract!ANext]_(Abstract!avars)
  BY StepImplements
<1> QED
  BY InitTypeOK, NextTypeOK, <1>1, NextDedupInv, <1>2, <1>3, PTL
     DEF Spec, ImplementsEventTable, Abstract!ASpec

-----------------------------------------------------------------------------
(* What the statistics count                                               *)

Logins == {"login.failure", "login.success"}

Texts(w, type) == {l \in Line : Who[l] = w /\ EventType[l] = type}

Counted(w, type) == IF type = "login.failure" THEN stats[w].failed ELSE stats[w].successful

Counting == pc \in {"count_failures", "count_successes"}

\* the rows of a type that this cycle may still count
Waiting(type) ==
         {r \in rows : r.type = type /\ \/ pc \in {"store", "insert", "failures"}
                                        \/ pc = "count_failures" /\ type = "login.success"}
    \cup {r \in todo : r.type = type /\ Counting}

\* the passes of an attacker's texts that will not be counted any more: those that
\* are over, or in the window, and have no row waiting
Done(w, type) ==
    {p \in Passes(w, type) :
        /\ p[2] = period[p[1]] => p[1] \in young
        /\ \A r \in Waiting(type) : text[r.at] = p[1] => r.period # p[2]}

Sums ==
    \A w \in Attacker : /\ stats[w].total = stats[w].failed + stats[w].successful
                        /\ stats[w].first <= stats[w].last

RowsInv ==
    /\ pc \in {"store", "insert", "failures"} \/ Counting =>
          /\ \A r \in rows : /\ InWindow(r)
                             /\ r.type \in Logins => r.type = EventType[text[r.at]]
          /\ \A r, q \in rows : r.type = q.type /\ text[r.at] = text[q.at] => r = q
    /\ Counting => todo \subseteq rows
    /\ pc = "count_failures" => \A r \in todo : r.type = "login.failure"
    /\ pc = "count_successes" => \A r \in todo : r.type = "login.success"

\* What has been counted are different passes, none of which comes again.
CountInv ==
    \A w \in Attacker, type \in Logins :
        Counted(w, type) <= Cardinality(Done(w, type))

StatsInv == Sums /\ RowsInv /\ CountInv

LEMMA PassesMember ==
    ASSUME NEW w, NEW type, NEW l \in Texts(w, type), NEW k \in 1..period[l]
    PROVE  <<l, k>> \in Passes(w, type)
  BY DEF Passes, Texts

LEMMA PassesType ==
    ASSUME NEW w, NEW type, NEW p \in Passes(w, type)
    PROVE  /\ p = <<p[1], p[2]>> /\ p[1] \in Texts(w, type)
           /\ p[2] \in 1..period[p[1]]
  BY DEF Passes, Texts

\* finitely many texts have finitely many passes
LEMMA PairsFinite ==
    ASSUME NEW T, IsFiniteSet(T), NEW f, \A l \in T : f[l] \in Nat
    PROVE  IsFiniteSet(UNION {{l} \X (1..f[l]) : l \in T})
<1> DEFINE S == {{l} \X (1..f[l]) : l \in T}
           g == [l \in T |-> {l} \X (1..f[l])]
<1>1. ASSUME NEW l \in T PROVE IsFiniteSet({l} \X (1..f[l]))
  <2>1. f[l] \in Int /\ 1 \in Int
    OBVIOUS
  <2>2. IsFiniteSet({l}) /\ IsFiniteSet(1..f[l])
    BY <2>1, FS_Singleton, FS_Interval
  <2> QED
    BY <2>2, FS_Product
<1>2. g \in Surjection(T, S)
  BY DEF Surjection
<1>3. \A P \in S : IsFiniteSet(P)
  BY <1>1
<1>4. IsFiniteSet(S)
  <2> HIDE DEF g, S
  <2> QED
    BY <1>2, FS_Surjection
<1> HIDE DEF S
<1>5. IsFiniteSet(UNION S)
  BY <1>3, <1>4, FS_UNION
<1> QED
  BY <1>5 DEF S

LEMMA PassesFinite ==
    ASSUME IsFiniteSet(Line), TypeOK, NEW w, NEW type
    PROVE  IsFiniteSet(Passes(w, type))
<1>1. IsFiniteSet(Texts(w, type)) /\ Texts(w, type) \subseteq Line
  BY FS_Subset DEF Texts
<1>2. \A l \in Texts(w, type) : period[l] \in Nat
  BY <1>1 DEF TypeOK
<1>3. Passes(w, type) = UNION {{l} \X (1..period[l]) : l \in Texts(w, type)}
  BY DEF Passes, Texts
<1> QED
  BY <1>1, <1>2, <1>3, PairsFinite

LEMMA DoneFinite ==
    ASSUME IsFiniteSet(Line), TypeOK, NEW w, NEW type
    PROVE  /\ Done(w, type) \subseteq Passes(w, type)
           /\ IsFiniteSet(Done(w, type)) /\ Cardinality(Done(w, type)) \in Nat
           /\ Cardinality(Passes(w, type)) \in Nat
           /\ Cardinality(Done(w, type)) <= Cardinality(Passes(w, type))
<1>1. Done(w, type) \subseteq Passes(w, type)
  BY DEF Done
<1> QED
  BY <1>1, PassesFinite, FS_Subset, FS_CardinalityType

\* A step that counts nothing and takes no pass back.
LEMMA CountGrows ==
    ASSUME IsFiniteSet(Line), TypeOK, TypeOK', CountInv, UNCHANGED stats,
           \A w \in Attacker, type \in Logins : Done(w, type) \subseteq Done(w, type)'
    PROVE  CountInv'
<1> SUFFICES ASSUME NEW w \in Attacker, NEW type \in Logins
             PROVE  Counted(w, type)' <= Cardinality(Done(w, type)')
  BY DEF CountInv
<1>1. Counted(w, type)' = Counted(w, type) /\ Counted(w, type) \in Nat
  BY DEF Counted, TypeOK, StatsRow
<1>2. Cardinality(Done(w, type)) \in Nat
  BY DoneFinite
<1>3. IsFiniteSet(Done(w, type)') /\ Cardinality(Done(w, type)') \in Nat
  <2>1. IsFiniteSet(Passes(w, type)')
    <3>1. IsFiniteSet(Texts(w, type)) /\ Texts(w, type) \subseteq Line
      BY FS_Subset DEF Texts
    <3>2. \A l \in Texts(w, type) : period'[l] \in Nat
      BY <3>1 DEF TypeOK
    <3>3. Passes(w, type)' = UNION {{l} \X (1..period'[l]) : l \in Texts(w, type)}
      BY DEF Passes, Texts
    <3> QED
      BY <3>1, <3>2, <3>3, PairsFinite
  <2>2. Done(w, type)' \subseteq Passes(w, type)'
    BY DEF Done
  <2> QED
    BY <2>1, <2>2, FS_Subset, FS_CardinalityType
<1>4. Cardinality(Done(w, type)) <= Cardinality(Done(w, type)')
  BY <1>3, FS_Subset
<1>5. Counted(w, type) <= Cardinality(Done(w, type))
  BY DEF CountInv
<1> QED
  BY <1>1, <1>2, <1>3, <1>4, <1>5

\* The same for a step that reads nothing and keeps the window.
LEMMA CountLasts ==
    ASSUME IsFiniteSet(Line), TypeOK, TypeOK', CountInv,
           UNCHANGED <<text, young, period, stats>>,
           \A type \in Logins : Waiting(type)' \subseteq Waiting(type)
    PROVE  CountInv'
<1>1. \A w, type : Passes(w, type)' = Passes(w, type)
  BY DEF Passes
<1>2. \A w \in Attacker, type \in Logins : Done(w, type) \subseteq Done(w, type)'
  BY <1>1 DEF Done
<1> QED
  BY <1>2, CountGrows

\* A step outside the counting, or one that only moves on within it.
LEMMA StatsLast ==
    ASSUME IsFiniteSet(Line), TypeOK, TypeOK', StatsInv,
           UNCHANGED <<text, young, period, stats>>,
           \/ UNCHANGED <<pc, rows, todo>>
           \/ pc' \notin {"store", "insert", "failures", "count_failures", "count_successes"}
           \/ /\ UNCHANGED rows
              /\ pc \in {"store", "insert"} /\ pc' \in {"insert", "failures"}
    PROVE  StatsInv'
<1>1. Sums'
  BY DEF StatsInv, Sums
<1>2. RowsInv'
  BY DEF StatsInv, RowsInv, InWindow, Counting
<1>3. \A type \in Logins : Waiting(type)' \subseteq Waiting(type)
  BY DEF Waiting, Counting
<1>4. CountInv'
  BY <1>3, CountLasts DEF StatsInv
<1> QED
  BY <1>1, <1>2, <1>4 DEF StatsInv

LEMMA StatsParse ==
    ASSUME IsFiniteSet(Line), TypeOK, TypeOK', StatsInv,
           NEW batch \in SUBSET Occurrence, Parse(batch), UNCHANGED <<text, stats>>,
           pc' \notin {"insert", "failures", "count_failures", "count_successes"}
    PROVE  StatsInv'
<1> DEFINE Rs == Normalized(batch)
<1>1. /\ rows' = Rs /\ period' = period /\ young \subseteq young'
      /\ \A r \in Rs : text[r.at] \in young'
  BY ParseWindow
<1>2. \A r \in Rs : /\ r.at \in Occurrence /\ text[r.at] \notin young
                    /\ r.period = period[text[r.at]]
  BY NormalizedNew DEF Recognised
<1>3. \A r \in Rs : r.type \in Logins => r.type = EventType[text[r.at]]
  BY DEF Normalized, RowAt, Logins
<1>4. \A r, q \in Rs : r.type = q.type /\ text[r.at] = text[q.at] => r = q
  BY NormalizedDistinct
<1> HIDE DEF Rs
<1>5. \A r \in Rs : InWindow(r)'
  <2>1. \A r \in Rs : period[text[r.at]] <= period[text[r.at]]
    BY <1>2 DEF TypeOK
  <2> QED
    BY <1>1, <1>2, <2>1 DEF InWindow
<1>6. RowsInv'
  BY <1>1, <1>3, <1>4, <1>5 DEF RowsInv, Counting
<1>7. Sums'
  BY DEF StatsInv, Sums
<1>8. \A w \in Attacker, type \in Logins : Done(w, type) \subseteq Done(w, type)'
  <2> SUFFICES ASSUME NEW w \in Attacker, NEW type \in Logins, NEW p \in Done(w, type)
               PROVE  p \in Done(w, type)'
    OBVIOUS
  <2>1. /\ p \in Passes(w, type)' /\ p \in Passes(w, type)
        /\ p[2] = period[p[1]] => p[1] \in young
    BY <1>1 DEF Done, Passes
  <2>2. p[2] = period'[p[1]] => p[1] \in young'
    BY <1>1, <2>1
  <2>3. ASSUME NEW r \in Waiting(type)', text[r.at] = p[1], r.period = p[2]
        PROVE  FALSE
    <3>1. r \in Rs
      BY <1>1 DEF Waiting, Counting
    <3> QED
      BY <1>2, <2>1, <2>3, <3>1
  <2> QED
    BY <2>1, <2>2, <2>3 DEF Done
<1>9. CountInv'
  BY <1>8, CountGrows DEF StatsInv
<1> QED
  BY <1>6, <1>7, <1>9 DEF StatsInv

\* Texts that leave the window begin a period; the passes that are done stay so.
LEMMA StatsForget ==
    ASSUME IsFiniteSet(Line), TypeOK, TypeOK', StatsInv,
           NEW S \in SUBSET young, Forget(S), UNCHANGED <<text, stats>>,
           \/ UNCHANGED <<pc, rows, todo>>
           \/ pc' \notin {"store", "insert", "failures", "count_failures", "count_successes"}
    PROVE  StatsInv'
<1>1. Sums'
  BY DEF StatsInv, Sums
<1>2. ASSUME NEW l \in Line
      PROVE  /\ period[l] \in Nat /\ period[l] <= period'[l]
             /\ period'[l] = period[l] => l \in young' \/ l \notin young
             /\ period'[l] # period[l] => period'[l] = period[l] + 1
  BY DEF Forget, TypeOK
<1>3. ASSUME NEW r \in rows, InWindow(r)
      PROVE  InWindow(r)'
  <2> DEFINE l == text[r.at]
  <2>1. l \in Line /\ r.period \in Nat
    BY DEF TypeOK, Row
  <2>2. r.period <= period[l] /\ (r.period = period[l] => l \in young)
    BY <1>3 DEF InWindow
  <2> HIDE DEF l
  <2>3. r.period <= period'[l] /\ (r.period = period'[l] => l \in young')
    BY <1>2, <2>1, <2>2
  <2> QED
    BY <2>3 DEF InWindow, l
<1>4. RowsInv'
  BY <1>3 DEF StatsInv, RowsInv, Counting
<1>5. \A type \in Logins : Waiting(type)' \subseteq Waiting(type)
  BY DEF Waiting, Counting
<1>6. ASSUME NEW w \in Attacker, NEW type \in Logins, NEW p \in Done(w, type)
      PROVE  p \in Done(w, type)'
  <2>1. /\ p = <<p[1], p[2]>> /\ p[1] \in Texts(w, type) /\ p[2] \in 1..period[p[1]]
        /\ p[2] = period[p[1]] => p[1] \in young
    BY PassesType DEF Done
  <2>2. p[1] \in Line
    BY <2>1 DEF Texts
  <2>3. p[2] \in 1..period'[p[1]]
    BY <1>2, <2>1, <2>2
  <2>4. p[2] = period'[p[1]] => p[1] \in young'
    BY <1>2, <2>1, <2>2
  <2>5. p \in Passes(w, type)'
    BY <2>1, <2>3 DEF Passes, Texts
  <2> QED
    BY <1>5, <2>4, <2>5 DEF Done
<1>7. CountInv'
  BY <1>6, CountGrows DEF StatsInv
<1> QED
  BY <1>1, <1>4, <1>7 DEF StatsInv

\* One row of the statistics gains one, and the pass of the row is done with it.
LEMMA StatsCount ==
    ASSUME IsFiniteSet(Line), TypeOK, TypeOK', StatsInv, Count
    PROVE  StatsInv'
<1>1. PICK r \in todo :
         /\ todo' = todo \ {r}
         /\ stats' = IF dbUp /\ text[r.at] \in Dated
                     THEN [stats EXCEPT ![Who[text[r.at]]] = Upsert(@, r.at, r.type)]
                     ELSE stats
  BY DEF Count
<1>2. Counting /\ UNCHANGED <<text, pc, rows, young, period>>
  BY DEF Count, Counting, world, window
<1>3. /\ r \in rows /\ r.type \in Logins /\ r.type = EventType[text[r.at]]
      /\ InWindow(r) /\ r.at \in Occurrence /\ text[r.at] \in Line
      /\ r.period \in Nat \ {0}
  <2>1. r \in rows /\ r.type \in Logins
    BY <1>2 DEF StatsInv, RowsInv, Counting, Logins
  <2>2. r.at \in Occurrence /\ r.period \in Nat \ {0}
    BY <2>1 DEF TypeOK, Row
  <2> QED
    BY <1>2, <2>1, <2>2 DEF StatsInv, RowsInv, TypeOK
<1>4. RowsInv'
  BY <1>1, <1>2 DEF StatsInv, RowsInv, InWindow, Counting
<1>5. \A type \in Logins : Waiting(type)' \subseteq Waiting(type)
  BY <1>1, <1>2 DEF Waiting, Counting
<1>6. CASE stats' = stats
  <2>1. CountInv'
    BY <1>2, <1>5, <1>6, CountLasts DEF StatsInv
  <2>2. Sums'
    BY <1>6 DEF StatsInv, Sums
  <2> QED
    BY <1>4, <2>1, <2>2 DEF StatsInv
<1>7. CASE stats' = [stats EXCEPT ![Who[text[r.at]]] = Upsert(@, r.at, r.type)]
  <2>0. PICK a, t : a = Who[text[r.at]] /\ t = r.type
    OBVIOUS
  <2> DEFINE new == Upsert(stats[a], r.at, t)
             pair == <<text[r.at], r.period>>
  <2>1. a \in Attacker
    BY <1>3, <2>0, DataAssumption
  <2>2. stats[a] \in StatsRow /\ r.at \in Nat
    <3>1. stats[a] \in StatsRow
      BY <2>1 DEF TypeOK
    <3>2. Occurrence \subseteq Nat
      BY BoundAssumption DEF Occurrence
    <3> QED
      BY <1>3, <3>1, <3>2
  <2>3. stats'[a] = new /\ \A w \in Attacker \ {a} : stats'[w] = stats[w]
    BY <1>7, <2>0, <2>1 DEF TypeOK
  <2>4. /\ new.total = stats[a].total + 1
        /\ new.failed = stats[a].failed + (IF t = "login.failure" THEN 1 ELSE 0)
        /\ new.successful = stats[a].successful + (IF t = "login.success" THEN 1 ELSE 0)
        /\ new.first = (IF stats[a].total = 0 THEN r.at ELSE stats[a].first)
        /\ new.last = (IF stats[a].total = 0 \/ r.at > stats[a].last
                       THEN r.at ELSE stats[a].last)
    BY DEF Upsert
  <2> HIDE DEF new
  <2>5. t = "login.failure" \/ t = "login.success"
    BY <1>3, <2>0 DEF Logins
  <2>6. Sums'
    <3>1. /\ stats[a].total \in Nat /\ stats[a].failed \in Nat /\ stats[a].successful \in Nat
          /\ stats[a].first \in Nat /\ stats[a].last \in Nat
      BY <2>2 DEF StatsRow
    <3>2. /\ stats[a].total = stats[a].failed + stats[a].successful
          /\ stats[a].first <= stats[a].last
      BY <2>1 DEF StatsInv, Sums
    <3>3. new.total = new.failed + new.successful
      BY <2>4, <2>5, <3>1, <3>2
    <3>4. new.first <= new.last
      BY <2>2, <2>4, <3>1, <3>2
    <3> QED
      BY <2>3, <3>3, <3>4 DEF StatsInv, Sums
  <2>7. \A w, type : Passes(w, type)' = Passes(w, type)
    BY <1>2 DEF Passes
  <2>8. \A w \in Attacker, type \in Logins : Done(w, type) \subseteq Done(w, type)'
    BY <1>2, <1>5, <2>7 DEF Done
  <2>9. pair \in Done(a, t)' /\ pair \notin Done(a, t)
    <3>1. text[r.at] \in Texts(a, t)
      BY <1>3, <2>0 DEF Texts
    <3>2. r.period \in 1..period[text[r.at]]
      BY <1>3 DEF InWindow, TypeOK
    <3>3. pair \in Passes(a, t)
      BY <3>1, <3>2, PassesMember
    <3>4. pair[1] = text[r.at] /\ pair[2] = r.period
      OBVIOUS
    <3>5. r \in Waiting(t)
      BY <1>2, <2>0 DEF Waiting
    <3>6. \A q \in Waiting(t)' : text[q.at] # text[r.at]
      <4> SUFFICES ASSUME NEW q \in Waiting(t)', text[q.at] = text[r.at] PROVE FALSE
        OBVIOUS
      <4>1. q.type = t /\ q # r /\ q \in rows
        BY <1>1, <1>2, <1>3, <2>5 DEF Waiting, StatsInv, RowsInv, Counting
      <4> QED
        BY <1>2, <1>3, <2>0, <4>1 DEF StatsInv, RowsInv
    <3> HIDE DEF pair
    <3>7. pair \notin Done(a, t)
      BY <3>4, <3>5 DEF Done
    <3>8. pair \in Done(a, t)'
      BY <1>2, <1>3, <2>7, <3>3, <3>4, <3>6 DEF Done, InWindow
    <3> QED
      BY <3>7, <3>8
  <2> HIDE DEF pair
  <2>10. CountInv'
    <3> SUFFICES ASSUME NEW w \in Attacker, NEW type \in Logins
                 PROVE  Counted(w, type)' <= Cardinality(Done(w, type)')
      BY DEF CountInv
    <3>1. /\ Counted(w, type) <= Cardinality(Done(w, type))
          /\ Counted(w, type) \in Nat /\ Cardinality(Done(w, type)) \in Nat
          /\ IsFiniteSet(Done(w, type))
      BY DoneFinite DEF StatsInv, CountInv, Counted, TypeOK, StatsRow
    <3>2. IsFiniteSet(Done(w, type)') /\ Cardinality(Done(w, type)') \in Nat
      <4>1. Done(w, type)' \subseteq Passes(w, type)
        BY <2>7 DEF Done
      <4> QED
        BY <4>1, PassesFinite, FS_Subset, FS_CardinalityType
    <3>3. CASE w = a /\ type = t
      <4>1. Counted(w, type)' = Counted(w, type) + 1
        BY <2>2, <2>3, <2>4, <2>5, <3>3 DEF Counted, StatsRow
      <4>2. Cardinality(Done(w, type) \cup {pair}) = Cardinality(Done(w, type)) + 1
        BY <2>9, <3>1, <3>3, FS_AddElement
      <4>3. Cardinality(Done(w, type) \cup {pair}) <= Cardinality(Done(w, type)')
        BY <2>8, <2>9, <3>2, <3>3, FS_Subset
      <4> QED
        BY <3>1, <3>2, <4>1, <4>2, <4>3
    <3>4. CASE ~(w = a /\ type = t)
      <4>1. Counted(w, type)' = Counted(w, type)
        BY <2>2, <2>3, <2>4, <2>5, <3>4 DEF Counted, StatsRow, Logins
      <4>2. Cardinality(Done(w, type)) <= Cardinality(Done(w, type)')
        BY <2>8, <3>2, FS_Subset
      <4> QED
        BY <3>1, <3>2, <4>1, <4>2
    <3> QED
      BY <3>3, <3>4
  <2> QED
    BY <1>4, <2>6, <2>10 DEF StatsInv
<1> QED
  BY <1>1, <1>6, <1>7

LEMMA NextStatsInv ==
    ASSUME IsFiniteSet(Line), TypeOK, TypeOK', StatsInv, [Next]_vars
    PROVE  StatsInv'
<1>1. CASE WriteLine \/ RenameAway \/ Recreate \/ Truncate
  BY <1>1, StatsLast
     DEF WriteLine, RenameAway, Recreate, Truncate, local, window, tables
<1>2. CASE DatabaseFails \/ DatabaseReturns \/ UNCHANGED vars
  BY <1>2, StatsLast DEF DatabaseFails, DatabaseReturns, vars, world, local, window, tables
<1>3. CASE LoadOffset \/ LocateLog \/ StatInode \/ Measure
  BY <1>3, StatsLast
     DEF LoadOffset, LocateLog, StatInode, Measure, world, local, window, tables
<1>4. CASE SaveToDb \/ SaveToJson \/ EndCounting \/ Restart
  BY <1>4, StatsLast
     DEF SaveToDb, SaveToJson, EndCounting, AfterStore, Restart, world, local, window, tables
<1>5. CASE CheckDatabase
  BY <1>5, StatsLast DEF CheckDatabase, AfterStore, world, window, tables
<1>6. CASE InsertEvents
  BY <1>6, StatsLast DEF InsertEvents, world, local, window
<1>7. CASE ReadFile
  <2> DEFINE from == IF size < st.offset THEN 0 ELSE st.offset
             k    == log.base + from + 1
  <2>1. k \in Nat \ {0}
    BY DEF TypeOK, OffsetState
  <2>2. /\ UNCHANGED <<text, stats>> /\ pc = "read"
        /\ pc' \in {"save_db", "store"}
    BY <1>7 DEF ReadFile, world, tables
  <2>3. CASE log.present
    <3>1. Parse(k..written)
      BY <1>7, <2>3 DEF ReadFile
    <3> HIDE DEF k
    <3> QED
      BY <2>1, <2>2, <3>1, BatchType, StatsParse
  <2>4. CASE ~log.present
    BY <1>7, <2>2, <2>4, StatsLast DEF ReadFile, window
  <2> QED
    BY <2>3, <2>4
<1>8. CASE ReadJournal
  <2>1. PICK k \in 0..written : Parse((k + 1)..written)
    BY <1>8 DEF ReadJournal
  <2>2. k + 1 \in Nat \ {0}
    OBVIOUS
  <2>3. /\ UNCHANGED <<text, stats>> /\ pc = "journal" /\ pc' \in {"idle", "store"}
    BY <1>8 DEF ReadJournal, world, tables
  <2> QED
    BY <2>1, <2>2, <2>3, BatchType, StatsParse
<1>9. CASE BeginFailures \/ BeginSuccesses
  <2>1. UNCHANGED <<text, young, period, stats, rows>>
    BY <1>9 DEF BeginFailures, BeginSuccesses, world, tables, window
  <2>2. \/ /\ pc = "failures" /\ pc' = "count_failures"
           /\ todo' \subseteq RowsOf("login.failure")
        \/ /\ pc = "count_failures" /\ pc' = "count_successes" /\ todo = {}
           /\ todo' \subseteq RowsOf("login.success")
    BY <1>9 DEF BeginFailures, BeginSuccesses
  <2>3. RowsInv' /\ Sums'
    BY <2>1, <2>2 DEF StatsInv, RowsInv, InWindow, Sums, Counting, RowsOf
  <2>4. \A type \in Logins : Waiting(type)' \subseteq Waiting(type)
    BY <2>1, <2>2 DEF Waiting, Counting, RowsOf
  <2>5. CountInv'
    BY <2>1, <2>4, CountLasts DEF StatsInv
  <2> QED
    BY <2>3, <2>5 DEF StatsInv
<1>10. CASE Age \/ Crash
  <2>1. UNCHANGED <<text, stats>>
    BY <1>10 DEF Age, Crash, world, tables
  <2>2. PICK S \in SUBSET young : Forget(S)
    BY <1>10 DEF Age, Crash
  <2>3. \/ UNCHANGED <<pc, rows, todo>>
        \/ pc' \notin {"store", "insert", "failures", "count_failures", "count_successes"}
    BY <1>10 DEF Age, Crash
  <2> QED
    BY <2>1, <2>2, <2>3, StatsForget
<1> QED
  BY <1>1, <1>2, <1>3, <1>4, <1>5, <1>6, <1>7, <1>8, <1>9, <1>10, StatsCount
     DEF Next, Cycle

\* However often a message is read again, and whatever is killed in between, the
\* statistics of an attacker count it once until the dedup window has gone by or
\* was lost, and their figures agree.
THEOREM CountedPerWindow ==
    ASSUME IsFiniteSet(Line)
    PROVE  Spec => []StatsAreDeduplicated
<1>1. Init => StatsInv
  <2> SUFFICES ASSUME Init PROVE StatsInv
    OBVIOUS
  <2>1. pc = "idle" /\ \A w \in Attacker : stats[w] = NewStats
    BY DEF Init
  <2>2. RowsInv /\ Sums
    BY <2>1 DEF RowsInv, Sums, Counting, NewStats
  <2>3. ASSUME NEW w \in Attacker, NEW type \in Logins
        PROVE  Counted(w, type) <= Cardinality(Done(w, type))
    <3>1. Counted(w, type) = 0
      BY <2>1 DEF Counted, NewStats
    <3>2. Cardinality(Done(w, type)) \in Nat
      BY InitTypeOK, DoneFinite
    <3> QED
      BY <3>1, <3>2
  <2> QED
    BY <2>2, <2>3 DEF StatsInv, CountInv
<1>2. TypeOK /\ TypeOK' /\ StatsInv /\ [Next]_vars => StatsInv'
  BY NextStatsInv
<1>3. TypeOK /\ StatsInv => StatsAreDeduplicated
  <2> SUFFICES ASSUME TypeOK, StatsInv, NEW w \in Attacker
               PROVE  /\ stats[w].total = stats[w].failed + stats[w].successful
                      /\ stats[w].first <= stats[w].last
                      /\ stats[w].failed <= Cardinality(Passes(w, "login.failure"))
                      /\ stats[w].successful <= Cardinality(Passes(w, "login.success"))
    BY DEF StatsAreDeduplicated
  <2>1. ASSUME NEW type \in Logins
        PROVE  Counted(w, type) <= Cardinality(Passes(w, type))
    <3>1. Counted(w, type) <= Cardinality(Done(w, type)) /\ Counted(w, type) \in Nat
      BY DEF StatsInv, CountInv, Counted, TypeOK, StatsRow
    <3> QED
      BY <3>1, DoneFinite
  <2>2. Counted(w, "login.failure") = stats[w].failed
        /\ Counted(w, "login.success") = stats[w].successful
    BY DEF Counted
  <2> QED
    BY <2>1, <2>2 DEF StatsInv, Sums, Logins
<1> QED
  BY <1>1, <1>2, <1>3, TypeCorrect, PTL DEF Spec
=============================================================================
