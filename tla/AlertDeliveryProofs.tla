--------------------------- MODULE AlertDeliveryProofs ---------------------------
(***************************************************************************)
(* Theorems about the notification queue, for every number of workers,     *)
(* rows, retries and faults, and then about the daemon's poll, from a row  *)
(* to a message, whatever the rules, their windows and the clock.          *)
(*                                                                         *)
(* Of the queue alone, TypeCorrect, SentDelivered and Bounded hold whoever *)
(* processes it; AtMostOnce and Refinement need a single worker, and the   *)
(* first of them honest channels.  The poll takes the queue over as it is  *)
(* (PollRunsQueue), and the engine with what its own proofs say of a step. *)
(***************************************************************************)
EXTENDS AlertDelivery, FiniteSetTheorems, TLAPS

(***************************************************************************)
(* Types                                                                   *)
(***************************************************************************)
LEMMA TypeInit == Init => TypeOK
  BY QueueAssumption DEF Init, TypeOK, Absent, Status, Id, Row

LEMMA SelectedType ==
  ASSUME TypeOK
  PROVE  Selected \in SUBSET Row
<1>1. ASSUME NEW i \in Pending
      PROVE  [id |-> i, attempts |-> queue[i].attempts] \in Row
  <2>1. i \in Id /\ queue[i] \in [status : Status, attempts : Nat]
    BY DEF Pending, TypeOK
  <2>2. QED
    BY <2>1 DEF Row
<1>2. QED
  BY <1>1 DEF Selected

LEMMA OutcomeType ==
  ASSUME NEW r, NEW ok
  PROVE  Outcome(r, ok) \in {"sent", "failed", "pending"}
  BY DEF Outcome

LEMMA TypeStep ==
  ASSUME TypeOK, [Next]_vars
  PROVE  TypeOK'
<1> USE QueueAssumption DEF TypeOK, Status
<1>1. CASE QueueAlert
  BY <1>1 DEF QueueAlert
<1>2. ASSUME NEW w \in Worker, SelectPending(w)
      PROVE  TypeOK'
  BY <1>2, SelectedType DEF SelectPending
<1>3. ASSUME NEW w \in Worker, MarkSending(w)
      PROVE  TypeOK'
  <2>1. PICK r \in batch[w] :
          queue' = [queue EXCEPT ![r.id].status = "sending",
                                 ![r.id].attempts = @ + 1]
    BY <1>3 DEF MarkSending, Mark
  <2>2. r.id \in Id
    BY DEF Row
  <2>3. queue' \in [Id -> [status : Status, attempts : Nat]]
    BY <2>1, <2>2
  <2>4. QED
    BY <1>3, <2>3 DEF MarkSending, Mark
<1>4. ASSUME NEW w \in Worker, Send(w)
      PROVE  TypeOK'
  <2>1. delivered' \in [Id -> Nat]
    <3>1. CASE UNCHANGED delivered
      BY <3>1
    <3>2. ASSUME NEW r \in batch[w],
                 delivered' = [delivered EXCEPT ![r.id] = @ + 1]
          PROVE  delivered' \in [Id -> Nat]
      <4>1. r.id \in Id
        BY DEF Row
      <4>2. QED
        BY <3>2, <4>1
    <3>3. QED
      BY <1>4, <3>1, <3>2 DEF Send
  <2>2. sent' \in [Worker -> BOOLEAN]
    BY <1>4 DEF Send
  <2>3. QED
    BY <1>4, <2>1, <2>2 DEF Send
<1>5. ASSUME NEW w \in Worker, Record(w)
      PROVE  TypeOK'
  <2>1. PICK r \in batch[w] :
          /\ queue' = [queue EXCEPT ![r.id].status = Outcome(r, sent[w])]
          /\ batch' = [batch EXCEPT ![w] = @ \ {r}]
          /\ pc' = [pc EXCEPT ![w] = IF batch[w] = {r} THEN "idle" ELSE "mark"]
    BY <1>5 DEF Record
  <2>2. r.id \in Id
    BY DEF Row
  <2>3. queue' \in [Id -> [status : Status, attempts : Nat]]
    BY <2>1, <2>2, OutcomeType
  <2>4. batch' \in [Worker -> SUBSET Row]
    BY <2>1
  <2>5. pc' \in [Worker -> {"idle", "mark", "send", "record"}]
    BY <2>1
  <2>6. QED
    BY <1>5, <2>3, <2>4, <2>5 DEF Record
<1>6. ASSUME NEW w \in Worker, Abort(w)
      PROVE  TypeOK'
  BY <1>6 DEF Abort
<1>7. CASE UNCHANGED vars
  BY <1>7 DEF vars
<1>8. QED
  BY <1>1, <1>2, <1>3, <1>4, <1>5, <1>6, <1>7 DEF Next, Work

(***************************************************************************)
(* Whatever the workers do, the queue, the call stacks and the observers   *)
(* keep their types.                                                       *)
(***************************************************************************)
THEOREM TypeCorrect == Spec => []TypeOK
  BY TypeInit, TypeStep, PTL DEF Spec

(***************************************************************************)
(* A row reported sent was delivered.  A worker that stands behind a       *)
(* successful send has the delivery of its current row behind it, because  *)
(* MarkSending has cleared the result of the row before, and deliveries    *)
(* are never undone.                                                       *)
(***************************************************************************)
BehindSend ==
    \A w \in Worker :
        /\ pc[w] = "send" => ~sent[w]
        /\ (pc[w] = "record" /\ sent[w]) =>
              \A r \in batch[w] : IsCurrent(w, r) => delivered[r.id] > 0

SentInv == SentWasDelivered /\ BehindSend

LEMMA SentInit == Init => SentInv
  BY DEF Init, SentInv, SentWasDelivered, BehindSend, Absent

LEMMA DeliveriesStay ==
  ASSUME TypeOK, [Next]_vars, NEW i \in Id
  PROVE  delivered'[i] >= delivered[i]
<1>1. ASSUME NEW w \in Worker, Send(w)
      PROVE  delivered'[i] >= delivered[i]
  <2>1. CASE UNCHANGED delivered
    BY <2>1 DEF TypeOK
  <2>2. ASSUME NEW r \in batch[w],
               delivered' = [delivered EXCEPT ![r.id] = @ + 1]
        PROVE  delivered'[i] >= delivered[i]
    BY <2>2 DEF TypeOK
  <2>3. QED
    BY <1>1, <2>1, <2>2 DEF Send
<1>2. CASE UNCHANGED delivered
  BY <1>2 DEF TypeOK
<1>3. QED
  BY <1>1, <1>2 DEF Next, Work, QueueAlert, SelectPending, MarkSending, Mark,
                    Record, Abort, vars

LEMMA SentStep ==
  ASSUME TypeOK, SentInv, [Next]_vars
  PROVE  SentInv'
<1> USE DEF SentInv, SentWasDelivered, BehindSend, IsCurrent
<1>0. \A i \in Id : delivered[i] > 0 => delivered'[i] > 0
  <2>1. \A i \in Id : delivered'[i] >= delivered[i]
    BY DeliveriesStay
  <2>2. delivered' \in [Id -> Nat] /\ delivered \in [Id -> Nat]
    BY TypeStep DEF TypeOK
  <2>3. QED
    BY <2>1, <2>2
<1>r. \A w \in Worker : \A r \in batch[w] : r.id \in Id
  BY DEF TypeOK, Row
<1>1. CASE QueueAlert
  BY <1>1, <1>0, <1>r DEF QueueAlert, TypeOK, Status
<1>2. ASSUME NEW w \in Worker, SelectPending(w)
      PROVE  SentInv'
  BY <1>2 DEF SelectPending, TypeOK
<1>3. ASSUME NEW w \in Worker, MarkSending(w)
      PROVE  SentInv'
  BY <1>3, <1>r DEF MarkSending, Mark, TypeOK
<1>4. ASSUME NEW w \in Worker, Send(w)
      PROVE  SentInv'
  <2>1. SentWasDelivered'
    BY <1>4, <1>0 DEF Send, TypeOK
  <2>2. ASSUME NEW v \in Worker, v # w, pc'[v] = "record", sent'[v],
               NEW r \in batch'[v], IsCurrent(v, r)'
        PROVE  delivered'[r.id] > 0
    <3>1. pc[v] = "record" /\ sent[v] /\ batch'[v] = batch[v]
      BY <1>4, <2>2 DEF Send, TypeOK
    <3>2. QED
      BY <2>2, <3>1, <1>0, <1>r
  <2>5. \A v \in Worker : pc'[v] = "send" => ~sent'[v]
    BY <1>4 DEF Send, TypeOK
  <2>3. ASSUME sent'[w], NEW r \in batch'[w], IsCurrent(w, r)'
        PROVE  delivered'[r.id] > 0
    <3>1. batch' = batch
      BY <1>4 DEF Send
    <3>2. PICK q \in batch[w] : IsCurrent(w, q) /\ delivered' = [delivered EXCEPT ![q.id] = @ + 1]
      BY <1>4, <2>3 DEF Send, TypeOK
    <3>3. q.id = r.id
      BY <2>3, <3>1, <3>2, <1>r DEF Id
    <3>4. QED
      BY <3>2, <3>3, <1>r DEF TypeOK
  <2>4. QED
    BY <2>1, <2>2, <2>3, <2>5
<1>5. ASSUME NEW w \in Worker, Record(w)
      PROVE  SentInv'
  <2>1. PICK r \in batch[w] :
          /\ IsCurrent(w, r)
          /\ queue' = [queue EXCEPT ![r.id].status = Outcome(r, sent[w])]
          /\ batch' = [batch EXCEPT ![w] = @ \ {r}]
          /\ pc' = [pc EXCEPT ![w] = IF batch[w] = {r} THEN "idle" ELSE "mark"]
    BY <1>5 DEF Record
  <2>2. Outcome(r, sent[w]) = "sent" => delivered[r.id] > 0
    BY <1>5, <2>1 DEF Record, Outcome
  <2>3. SentWasDelivered'
    BY <1>5, <2>1, <2>2, <1>r DEF Record, TypeOK
  <2>4. BehindSend'
    BY <1>5, <2>1 DEF Record, TypeOK
  <2>5. QED
    BY <2>3, <2>4
<1>6. ASSUME NEW w \in Worker, Abort(w)
      PROVE  SentInv'
  BY <1>6 DEF Abort, TypeOK
<1>7. CASE UNCHANGED vars
  BY <1>7 DEF vars
<1>8. QED
  BY <1>1, <1>2, <1>3, <1>4, <1>5, <1>6, <1>7 DEF Next, Work

(***************************************************************************)
(* SentWasDelivered: process_queue sets status = 'sent' only behind a send *)
(* that reached the channel, even when two processes race over the rows,   *)
(* one of them is killed and the channel hides deliveries.                 *)
(***************************************************************************)
THEOREM SentDelivered == Spec => []SentWasDelivered
<1>1. Spec => []SentInv
  BY SentInit, SentStep, TypeCorrect, PTL DEF Spec
<1>2. QED
  BY <1>1, PTL DEF SentInv

(***************************************************************************)
(* A row is not attempted for ever.  Once it has used its attempts, only   *)
(* the workers that selected it before (Low) can re-queue it, each once,   *)
(* and until the next time only those that hold it unattempted, and while  *)
(* it is pending those that may select it, can attempt it again (Open).    *)
(* Twice the attempts made, those open and those that re-queueing can      *)
(* still open (Reserve) never grow.                                        *)
(***************************************************************************)
N == Cardinality(Worker)

Low(i) == {w \in Worker : \E r \in batch[w] : r.id = i /\ r.attempts < MaxRetries}

Attempted(w, i) ==
    pc[w] \in {"send", "record"} /\ \E r \in batch[w] : IsCurrent(w, r) /\ r.id = i

Unattempted(i) ==
    {w \in Worker : (\E r \in batch[w] : r.id = i) /\ ~Attempted(w, i)}

Open(i) == Unattempted(i) \cup (IF queue[i].status = "pending" THEN Worker \ Low(i) ELSE {})

\* twice the sum of N - k + 1 for k from 1 to l
Reserve(l) == l * (2 * N - l + 1)

Ceiling == 2 * (MaxRetries + N - 1) + N * (N + 1)

Budget(i) ==
    queue[i].attempts >= MaxRetries =>
        2 * (queue[i].attempts + Cardinality(Open(i))) + Reserve(Cardinality(Low(i))) <= Ceiling

BatchInv ==
    \A w \in Worker : /\ pc[w] = "idle" => batch[w] = {}
                      /\ \A r, q \in batch[w] : r.id = q.id => r = q

BudgetInv == BatchInv /\ \A i \in Id : Budget(i)

LEMMA SomeWorkers ==
  ASSUME IsFiniteSet(Worker)
  PROVE  /\ N \in Nat /\ N >= 1 /\ N * (N + 1) \in Nat /\ N * (N + 1) >= 2
         /\ \A S \in SUBSET Worker :
               IsFiniteSet(S) /\ Cardinality(S) \in Nat /\ Cardinality(S) <= N
<1>1. N \in Nat /\ N # 0
  BY FS_CardinalityType, FS_EmptySet, QueueAssumption DEF N
<1>2. N * (N + 1) \in Nat /\ N * (N + 1) >= 2
  <2>1. PICK k \in Nat : N = k + 1
    BY <1>1
  <2>2. N * (N + 1) = k * k + 3 * k + 2 /\ k * k \in Nat
    BY <2>1
  <2>3. QED
    BY <2>1, <2>2
<1>3. \A S \in SUBSET Worker :
         IsFiniteSet(S) /\ Cardinality(S) \in Nat /\ Cardinality(S) <= N
  BY FS_Subset, FS_CardinalityType DEF N
<1>4. QED
  BY <1>1, <1>2, <1>3

LEMMA ReserveBounds ==
  ASSUME IsFiniteSet(Worker), NEW l \in 0..N
  PROVE  /\ Reserve(l) \in Nat /\ Reserve(l) <= N * (N + 1) /\ Reserve(0) = 0
         /\ l > 0 => Reserve(l) = Reserve(l - 1) + 2 * (N - l + 1)
<1>1. N \in Nat
  BY SomeWorkers
<1>2. PICK d \in Nat : N = l + d
  BY <1>1
<1>3. Reserve(l) = l * l + 2 * (l * d) + l
  BY <1>1, <1>2 DEF Reserve
<1>4. N * (N + 1) = l * l + 2 * (l * d) + l + d * d + d /\ d * d \in Nat
  BY <1>2
<1>5. Reserve(l) \in Nat /\ Reserve(l) <= N * (N + 1)
  <2>1. l * l \in Nat /\ l * d \in Nat /\ l \in Nat
    BY <1>1, <1>2
  <2>2. QED
    BY <1>2, <1>3, <1>4, <2>1
<1>6. l > 0 => Reserve(l) = Reserve(l - 1) + 2 * (N - l + 1)
  <2>1. Reserve(l - 1) = l * (2 * N - l + 1) - 2 * (N - l + 1)
    BY <1>1 DEF Reserve
  <2>2. QED
    BY <1>1, <2>1 DEF Reserve
<1>7. Reserve(0) = 0
  BY <1>1 DEF Reserve
<1>8. QED
  BY <1>5, <1>6, <1>7

LEMMA SetTypes ==
  ASSUME NEW i \in Id
  PROVE  Low(i) \subseteq Worker /\ Open(i) \subseteq Worker
  BY DEF Low, Open, Unattempted

\* A step that does not attempt the row: the workers that can re-queue it stay, and
\* nobody else may attempt it; or one of them is spent.
LEMMA BudgetKept ==
  ASSUME IsFiniteSet(Worker), TypeOK, NEW i \in Id, Budget(i),
         queue'[i].attempts = queue[i].attempts,
         queue[i].attempts >= MaxRetries =>
            \/ Low(i)' = Low(i) /\ Open(i)' \subseteq Open(i)
            \/ \E w \in Low(i) : /\ Low(i)' = Low(i) \ {w}
                                 /\ Open(i)' \subseteq Open(i) \cup (Worker \ Low(i)')
  PROVE  Budget(i)'
<1> SUFFICES ASSUME queue[i].attempts >= MaxRetries
             PROVE  2 * (queue[i].attempts + Cardinality(Open(i)'))
                       + Reserve(Cardinality(Low(i)')) <= Ceiling
  BY DEF Budget, Reserve, Ceiling, N
<1> DEFINE a == queue[i].attempts
           o == Cardinality(Open(i))
           l == Cardinality(Low(i))
           p == Cardinality(Open(i)')
           m == Cardinality(Low(i)')
<1>1. /\ IsFiniteSet(Open(i)) /\ IsFiniteSet(Low(i))
      /\ Low(i) \subseteq Worker /\ o \in Nat /\ l \in 0..N
  BY SetTypes, SomeWorkers
<1>2. a \in Nat /\ N \in Nat /\ Ceiling \in Int
  BY SomeWorkers, QueueAssumption DEF TypeOK, Ceiling
<1>3. 2 * (a + o) + Reserve(l) <= Ceiling
  BY DEF Budget
<1>4. CASE Low(i)' = Low(i) /\ Open(i)' \subseteq Open(i)
  <2>1. p \in Nat /\ p <= o /\ m = l
    BY <1>1, <1>4, FS_Subset, FS_CardinalityType
  <2>2. Reserve(l) \in Int
    BY <1>1, ReserveBounds
  <2>3. QED
    BY <1>1, <1>2, <1>3, <2>1, <2>2
<1>5. ASSUME NEW w \in Low(i), Low(i)' = Low(i) \ {w},
             Open(i)' \subseteq Open(i) \cup (Worker \ Low(i)')
      PROVE  2 * (a + p) + Reserve(m) <= Ceiling
  <2> DEFINE Rest == Worker \ Low(i)'
  <2>1. m = l - 1 /\ l > 0
    <3>1. m = l - 1
      BY <1>1, <1>5, FS_RemoveElement
    <3>2. l # 0
      BY <1>1, FS_EmptySet
    <3>3. QED
      BY <1>1, <3>1, <3>2
  <2>2. IsFiniteSet(Rest) /\ Cardinality(Rest) = N - l + 1
    <3>1. /\ IsFiniteSet(Rest) /\ Cardinality(Rest) \in Nat
          /\ IsFiniteSet(Low(i)') /\ m \in Nat
      BY <1>1, <1>5, SomeWorkers
    <3>2. Low(i)' \cup Rest = Worker /\ Low(i)' \cap Rest = {}
      BY <1>1, <1>5
    <3>3. N = m + Cardinality(Rest) - 0
      BY <3>1, <3>2, FS_Union, FS_EmptySet DEF N
    <3>4. QED
      BY <1>1, <1>2, <2>1, <3>1, <3>3
  <2>3. p \in Nat /\ p <= o + (N - l + 1)
    <3> DEFINE Both == Open(i) \cup Rest
    <3>1. /\ IsFiniteSet(Both)
          /\ Cardinality(Both) = o + (N - l + 1) - Cardinality(Open(i) \cap Rest)
      BY <1>1, <2>2, FS_Union
    <3>2. Cardinality(Open(i) \cap Rest) \in Nat
      BY <1>1, FS_Subset, FS_CardinalityType
    <3>3. IsFiniteSet(Open(i)') /\ p <= Cardinality(Both)
      BY <1>5, <3>1, FS_Subset
    <3>4. p \in Nat /\ Cardinality(Both) \in Nat
      BY <3>1, <3>3, FS_CardinalityType
    <3> HIDE DEF Both, p, o, l
    <3>5. QED
      BY <1>1, <1>2, <3>1, <3>2, <3>3, <3>4
  <2>4. Reserve(l) = Reserve(l - 1) + 2 * (N - l + 1) /\ Reserve(l) \in Int
    BY <1>1, <2>1, ReserveBounds
  <2>5. Reserve(l - 1) \in Int
    BY <1>1, <1>2, <2>1, ReserveBounds
  <2> HIDE DEF a, o, l, p, m
  <2>6. QED
    BY <1>1, <1>2, <1>3, <2>1, <2>3, <2>4, <2>5
<1>6. QED
  BY <1>4, <1>5

\* An attempt is made by one of those to whom the row is open, and closes it to it.
LEMMA BudgetSpent ==
  ASSUME IsFiniteSet(Worker), TypeOK, NEW i \in Id, Budget(i),
         queue'[i].attempts = queue[i].attempts + 1,
         NEW w \in Open(i), Low(i)' = Low(i), Open(i)' \subseteq Open(i) \ {w}
  PROVE  Budget(i)'
<1> SUFFICES ASSUME queue[i].attempts + 1 >= MaxRetries
             PROVE  2 * (queue[i].attempts + 1 + Cardinality(Open(i)'))
                       + Reserve(Cardinality(Low(i))) <= Ceiling
  BY DEF Budget, Reserve, Ceiling, N
<1> DEFINE a == queue[i].attempts
           o == Cardinality(Open(i))
           l == Cardinality(Low(i))
           p == Cardinality(Open(i)')
<1>1. /\ IsFiniteSet(Open(i)) /\ o \in Nat /\ o <= N /\ l \in 0..N
  BY SetTypes, SomeWorkers
<1>2. a \in Nat /\ N \in Nat /\ N * (N + 1) \in Nat /\ MaxRetries \in Nat
  BY SomeWorkers, QueueAssumption DEF TypeOK
<1>3. p \in Nat /\ p <= o - 1
  <2>1. IsFiniteSet(Open(i) \ {w}) /\ Cardinality(Open(i) \ {w}) = o - 1
    BY <1>1, FS_RemoveElement
  <2>2. IsFiniteSet(Open(i)') /\ p <= o - 1
    BY <2>1, FS_Subset
  <2>3. QED
    BY <2>2, FS_CardinalityType
<1>4. Reserve(l) \in Int /\ Reserve(l) <= N * (N + 1)
  BY <1>1, ReserveBounds
<1>5. a >= MaxRetries => 2 * (a + o) + Reserve(l) <= Ceiling
  BY DEF Budget
<1> HIDE DEF a, o, l, p
<1>6. QED
  BY <1>1, <1>2, <1>3, <1>4, <1>5 DEF Ceiling, a, p, l

\* What another worker holds is none of the step's business.
LEMMA OthersHold ==
  ASSUME NEW v \in Worker, NEW i \in Id, batch'[v] = batch[v], pc'[v] = pc[v]
  PROVE  /\ v \in Low(i)' <=> v \in Low(i)
         /\ v \in Unattempted(i)' <=> v \in Unattempted(i)
  BY DEF Low, Unattempted, Attempted, IsCurrent

LEMMA OneCurrent ==
  ASSUME TypeOK, NEW w \in Worker, NEW r \in batch[w], NEW q \in batch[w],
         IsCurrent(w, r), IsCurrent(w, q)
  PROVE  r.id = q.id
<1>1. r.id \in Nat /\ q.id \in Nat
  BY DEF TypeOK, Row, Id
<1>2. QED
  BY <1>1 DEF IsCurrent

LEMMA SelectedRows ==
  ASSUME NEW r \in Selected
  PROVE  /\ queue[r.id].status = "pending" /\ r.attempts = queue[r.id].attempts
         /\ \A q \in Selected : r.id = q.id => r = q
<1>1. \A q \in Selected : \E i \in Pending : q = [id |-> i, attempts |-> queue[i].attempts]
  BY DEF Selected
<1>2. QED
  BY <1>1 DEF Pending

LEMMA BatchStep ==
  ASSUME TypeOK, BatchInv, [Next]_vars
  PROVE  BatchInv'
<1>1. ASSUME NEW w \in Worker, SelectPending(w)
      PROVE  BatchInv'
  BY <1>1, SelectedRows DEF SelectPending, TypeOK, BatchInv
<1>2. ASSUME NEW w \in Worker, Record(w)
      PROVE  BatchInv'
  <2>1. PICK r \in batch[w] :
          /\ batch' = [batch EXCEPT ![w] = @ \ {r}]
          /\ pc' = [pc EXCEPT ![w] = IF batch[w] = {r} THEN "idle" ELSE "mark"]
    BY <1>2 DEF Record
  <2>2. QED
    BY <2>1 DEF TypeOK, BatchInv
<1>3. QED
  BY <1>1, <1>2 DEF BatchInv, TypeOK, Next, Work, QueueAlert, MarkSending, Mark, Send,
                    Abort, vars

LEMMA BudgetStep ==
  ASSUME IsFiniteSet(Worker), TypeOK, BudgetInv, [Next]_vars, NEW i \in Id
  PROVE  Budget(i)'
<1>0. BatchInv /\ Budget(i) /\ queue[i].attempts \in Nat /\ MaxRetries \in Nat
  BY QueueAssumption DEF BudgetInv, TypeOK
<1>1. CASE QueueAlert
  <2>1. PICK j \in Id : /\ queue[j] = Absent
                        /\ queue' = [queue EXCEPT ![j].status = "pending"]
    BY <1>1 DEF QueueAlert
  <2>2. UNCHANGED <<pc, batch>>
    BY <1>1 DEF QueueAlert
  <2>3. Low(i)' = Low(i) /\ Unattempted(i)' = Unattempted(i)
    BY <2>2 DEF Low, Unattempted, Attempted, IsCurrent
  <2>4. CASE i # j
    <3>1. queue'[i] = queue[i]
      BY <2>1, <2>4 DEF TypeOK
    <3>2. QED
      BY <1>0, <2>3, <3>1, BudgetKept DEF Open
  <2>5. CASE i = j
    <3>1. queue'[i].attempts = 0
      BY <2>1, <2>5 DEF TypeOK, Absent
    <3>2. ASSUME MaxRetries = 0
          PROVE  Low(i)' = {}
      <4>1. \A w \in Worker : \A r \in batch[w] : r.attempts \in Nat
        BY DEF TypeOK, Row
      <4>2. QED
        BY <2>3, <3>2, <4>1 DEF Low
    <3>3. Open(i)' \subseteq Worker
      BY DEF Open, Unattempted
    <3>4. Cardinality(Open(i)') \in Nat /\ Cardinality(Open(i)') <= N
      BY <3>3, SomeWorkers
    <3>5. ASSUME MaxRetries = 0
          PROVE  2 * (0 + Cardinality(Open(i)')) + Reserve(Cardinality(Low(i)')) <= Ceiling
      <4>1. Reserve(Cardinality(Low(i)')) = 0
        BY <3>2, <3>5, FS_EmptySet, SomeWorkers DEF Reserve
      <4>2. QED
        BY <3>4, <3>5, <4>1, SomeWorkers DEF Ceiling
    <3>6. QED
      BY <1>0, <3>1, <3>5 DEF Budget, Reserve, Ceiling, N
  <2>6. QED
    BY <2>4, <2>5
<1>2. ASSUME NEW w \in Worker, SelectPending(w)
      PROVE  Budget(i)'
  <2>1. batch[w] = {} /\ UNCHANGED queue
    BY <1>0, <1>2 DEF SelectPending, BatchInv
  <2>2. \A v \in Worker \ {w} : batch'[v] = batch[v] /\ pc'[v] = pc[v]
    BY <1>2 DEF SelectPending, TypeOK
  <2>3. w \notin Low(i)
    BY <2>1 DEF Low
  <2>4. batch'[w] = Selected
    BY <1>2 DEF SelectPending, TypeOK
  <2>5. ASSUME queue[i].attempts >= MaxRetries
        PROVE  Low(i)' = Low(i) /\ Open(i)' \subseteq Open(i)
    <3>1. w \notin Low(i)'
      BY <1>0, <2>4, <2>5, SelectedRows DEF Low
    <3>2. Low(i)' = Low(i)
      BY <2>2, <2>3, <3>1, OthersHold DEF Low
    <3>3. w \in Unattempted(i)' => w \in Open(i)
      BY <2>3, <2>4, SelectedRows DEF Open, Unattempted
    <3>4. Unattempted(i)' \subseteq Open(i)
      BY <2>2, <3>3, OthersHold DEF Open, Unattempted
    <3>5. QED
      BY <2>1, <3>2, <3>4 DEF Open
  <2>6. QED
    BY <1>0, <2>1, <2>5, BudgetKept
<1>3. ASSUME NEW w \in Worker, MarkSending(w)
      PROVE  Budget(i)'
  <2>1. PICK r \in batch[w] :
          /\ IsCurrent(w, r)
          /\ queue' = [queue EXCEPT ![r.id].status = "sending",
                                    ![r.id].attempts = @ + 1]
    BY <1>3 DEF MarkSending, Mark
  <2>2. /\ batch' = batch /\ pc[w] = "mark" /\ pc'[w] = "send"
        /\ \A v \in Worker \ {w} : pc'[v] = pc[v]
    BY <1>3 DEF MarkSending, Mark, TypeOK
  <2>3. Low(i)' = Low(i)
    BY <2>2 DEF Low
  <2>4. Unattempted(i)' \subseteq Unattempted(i)
    <3>1. ~Attempted(w, i)
      BY <2>2 DEF Attempted
    <3>2. w \in Unattempted(i)' => w \in Unattempted(i)
      BY <2>2, <3>1 DEF Unattempted
    <3>3. QED
      BY <2>2, <3>2, OthersHold DEF Unattempted
  <2>5. CASE i # r.id
    <3>1. queue'[i] = queue[i]
      BY <2>1, <2>5 DEF TypeOK
    <3>2. QED
      BY <1>0, <2>3, <2>4, <3>1, BudgetKept DEF Open
  <2>6. CASE i = r.id
    <3>1. queue'[i].attempts = queue[i].attempts + 1 /\ queue'[i].status = "sending"
      BY <2>1, <2>6 DEF TypeOK
    <3>2. w \in Open(i)
      BY <2>2, <2>6 DEF Open, Unattempted, Attempted
    <3>3. w \notin Unattempted(i)'
      BY <2>1, <2>2, <2>6 DEF Unattempted, Attempted, IsCurrent
    <3>4. Open(i)' \subseteq Open(i) \ {w}
      BY <2>4, <3>1, <3>3 DEF Open
    <3>5. QED
      BY <1>0, <2>3, <3>1, <3>2, <3>4, BudgetSpent
  <2>7. QED
    BY <2>5, <2>6
<1>4. ASSUME NEW w \in Worker, Send(w)
      PROVE  Budget(i)'
  <2>1. /\ batch' = batch /\ queue' = queue /\ pc[w] = "send" /\ pc'[w] = "record"
        /\ \A v \in Worker \ {w} : pc'[v] = pc[v]
    BY <1>4 DEF Send, TypeOK
  <2>2. Low(i)' = Low(i)
    BY <2>1 DEF Low
  <2>3. Attempted(w, i)' <=> Attempted(w, i)
    BY <2>1 DEF Attempted, IsCurrent
  <2>4. Unattempted(i)' = Unattempted(i)
    BY <2>1, <2>3, OthersHold DEF Unattempted
  <2>5. QED
    BY <1>0, <2>1, <2>2, <2>4, BudgetKept DEF Open
<1>5. ASSUME NEW w \in Worker, Record(w)
      PROVE  Budget(i)'
  <2>1. PICK r \in batch[w] :
          /\ IsCurrent(w, r)
          /\ queue' = [queue EXCEPT ![r.id].status = Outcome(r, sent[w])]
          /\ batch' = [batch EXCEPT ![w] = @ \ {r}]
          /\ pc' = [pc EXCEPT ![w] = IF batch[w] = {r} THEN "idle" ELSE "mark"]
    BY <1>5 DEF Record
  <2>2. /\ pc[w] = "record" /\ batch'[w] = batch[w] \ {r}
        /\ \A v \in Worker \ {w} : batch'[v] = batch[v] /\ pc'[v] = pc[v]
    BY <1>5, <2>1 DEF Record, TypeOK
  <2>3. Unattempted(i)' \subseteq Unattempted(i)
    <3>1. w \in Unattempted(i)' => w \in Unattempted(i)
      <4>1. ASSUME NEW q \in batch'[w], q.id = i
            PROVE  ~Attempted(w, i)
        <5>1. q \in batch[w] /\ q # r
          BY <2>2
        <5>2. q.id # r.id
          BY <1>0, <5>1 DEF BatchInv
        <5>3. QED
          BY <2>1, <4>1, <5>2, OneCurrent DEF Attempted
      <4>2. QED
        BY <2>2, <4>1 DEF Unattempted
    <3>2. QED
      BY <2>2, <3>1, OthersHold DEF Unattempted
  <2>4. CASE i # r.id
    <3>1. queue'[i] = queue[i]
      BY <2>1, <2>4 DEF TypeOK
    <3>2. w \in Low(i)' <=> w \in Low(i)
      BY <2>2, <2>4 DEF Low
    <3>3. Low(i)' = Low(i)
      BY <2>2, <3>2, OthersHold DEF Low
    <3>4. QED
      BY <1>0, <2>3, <3>1, <3>3, BudgetKept DEF Open
  <2>5. CASE i = r.id
    <3>1. queue'[i].attempts = queue[i].attempts
          /\ queue'[i].status = Outcome(r, sent[w])
      BY <2>1, <2>5 DEF TypeOK
    <3>2. w \notin Low(i)'
      BY <1>0, <2>2, <2>5 DEF Low, BatchInv
    <3>3. Low(i)' = Low(i) \ {w}
      BY <2>2, <3>2, OthersHold DEF Low
    <3>4. CASE w \in Low(i)
      <4>1. Open(i)' \subseteq Open(i) \cup (Worker \ Low(i)')
        BY <2>3 DEF Open
      <4>2. QED
        BY <1>0, <3>1, <3>3, <3>4, <4>1, BudgetKept
    <3>5. CASE w \notin Low(i)
      <4>1. ~(r.attempts < MaxRetries)
        BY <2>5, <3>5 DEF Low
      <4>2. r.attempts >= MaxRetries
        BY <1>0, <4>1 DEF TypeOK, Row
      <4>3. queue'[i].status # "pending"
        BY <3>1, <4>2 DEF Outcome
      <4>4. Open(i)' \subseteq Open(i)
        BY <2>3, <4>3 DEF Open
      <4>5. QED
        BY <1>0, <3>1, <3>3, <3>5, <4>4, BudgetKept
    <3>6. QED
      BY <3>4, <3>5
  <2>6. QED
    BY <2>4, <2>5
<1>6. ASSUME NEW w \in Worker, Abort(w)
      PROVE  Budget(i)'
  <2>1. /\ queue' = queue /\ batch'[w] = {}
        /\ \A v \in Worker \ {w} : batch'[v] = batch[v] /\ pc'[v] = pc[v]
    BY <1>6 DEF Abort, TypeOK
  <2>2. Low(i)' = Low(i) \ {w} /\ Unattempted(i)' \subseteq Unattempted(i)
    <3>1. w \notin Low(i)' /\ w \notin Unattempted(i)'
      BY <2>1 DEF Low, Unattempted
    <3>2. QED
      BY <2>1, <3>1, OthersHold DEF Low, Unattempted
  <2>3. CASE w \in Low(i)
    <3>1. Open(i)' \subseteq Open(i) \cup (Worker \ Low(i)')
      BY <2>2 DEF Open
    <3>2. QED
      BY <1>0, <2>1, <2>2, <2>3, <3>1, BudgetKept
  <2>4. CASE w \notin Low(i)
    <3>1. Low(i)' = Low(i) /\ Open(i)' \subseteq Open(i)
      BY <2>1, <2>2, <2>4 DEF Open
    <3>2. QED
      BY <1>0, <2>1, <3>1, BudgetKept
  <2>5. QED
    BY <2>3, <2>4
<1>7. CASE UNCHANGED vars
  <2>1. Low(i)' = Low(i) /\ Open(i)' = Open(i) /\ queue' = queue
    BY <1>7 DEF vars, Low, Open, Unattempted, Attempted, IsCurrent
  <2>2. QED
    BY <1>0, <2>1, BudgetKept
<1>8. QED
  BY <1>1, <1>2, <1>3, <1>4, <1>5, <1>6, <1>7 DEF Next, Work

(***************************************************************************)
(* AttemptsAreBounded, for every number of workers, rows, retries and      *)
(* faults: whoever fights over a row, kills included, it is attempted at   *)
(* most so often.                                                          *)
(***************************************************************************)
THEOREM Bounded ==
  ASSUME IsFiniteSet(Worker)
  PROVE  Spec => []AttemptsAreBounded
<1>1. Init => BudgetInv
  <2> SUFFICES ASSUME Init, NEW i \in Id PROVE BatchInv /\ Budget(i)
    BY DEF BudgetInv, Init, BatchInv
  <2>1. BatchInv
    BY DEF Init, BatchInv
  <2>2. queue[i] = Absent /\ \A w \in Worker : batch[w] = {}
    BY DEF Init
  <2>3. Low(i) = {} /\ Open(i) = {}
    BY <2>2 DEF Low, Open, Unattempted, Absent
  <2>4. Cardinality(Low(i)) = 0 /\ Cardinality(Open(i)) = 0 /\ Reserve(0) = 0
    BY <2>3, FS_EmptySet, SomeWorkers DEF Reserve
  <2>5. Budget(i)
    BY <2>2, <2>4, SomeWorkers, QueueAssumption DEF Budget, Absent, Ceiling
  <2>6. QED
    BY <2>1, <2>5
<1>2. TypeOK /\ BudgetInv /\ [Next]_vars => BudgetInv'
  <2> SUFFICES ASSUME TypeOK, BudgetInv, [Next]_vars PROVE BudgetInv'
    OBVIOUS
  <2>1. BatchInv'
    BY BatchStep DEF BudgetInv
  <2>2. QED
    BY <2>1, BudgetStep DEF BudgetInv
<1>3. TypeOK /\ BudgetInv => AttemptsAreBounded
  <2> SUFFICES ASSUME TypeOK, BudgetInv, NEW i \in Id
               PROVE  queue[i].attempts + 1 <= MaxRetries + N + (N * (N + 1)) \div 2
    BY DEF AttemptsAreBounded, N
  <2> DEFINE a == queue[i].attempts
  <2>1. /\ a \in Nat /\ MaxRetries \in Nat /\ N \in Nat /\ N >= 1
        /\ N * (N + 1) \in Nat
    BY SomeWorkers, QueueAssumption DEF TypeOK
  <2>2. (N * (N + 1)) \div 2 \in Nat /\ \A x \in Int : 2 * x <= N * (N + 1)
                                           => x <= (N * (N + 1)) \div 2
    <3> DEFINE y == N * (N + 1)
    <3>1. y \in Nat
      BY <2>1
    <3> HIDE DEF y
    <3>2. y \div 2 \in Nat /\ \A x \in Int : 2 * x <= y => x <= y \div 2
      BY <3>1
    <3>3. QED
      BY <3>2 DEF y
  <2>3. CASE a < MaxRetries
    BY <2>1, <2>2, <2>3
  <2>4. CASE a >= MaxRetries
    <3>1. 2 * (a + Cardinality(Open(i))) + Reserve(Cardinality(Low(i))) <= Ceiling
      BY <2>4 DEF BudgetInv, Budget
    <3>2. Cardinality(Open(i)) \in Nat /\ Cardinality(Low(i)) \in 0..N
      BY SetTypes, SomeWorkers
    <3>3. Reserve(Cardinality(Low(i))) \in Nat
      BY <3>2, ReserveBounds
    <3>4. 2 * (a + 1 - MaxRetries - N) <= N * (N + 1)
      BY <2>1, <3>1, <3>2, <3>3 DEF Ceiling
    <3>5. a + 1 - MaxRetries - N <= (N * (N + 1)) \div 2
      BY <2>1, <2>2, <3>4
    <3>6. QED
      BY <2>1, <2>2, <3>5
  <2>5. QED
    BY <2>1, <2>3, <2>4
<1>4. QED
  BY <1>1, <1>2, <1>3, TypeCorrect, PTL DEF Spec

(***************************************************************************)
(* A single worker                                                         *)
(*                                                                         *)
(* What it holds in its batch is what the table says: the row in hand is   *)
(* 'sending' with one attempt more than when it was selected, the others   *)
(* are still pending as they were.  So a row is re-queued exactly when it  *)
(* has attempts left.                                                      *)
(***************************************************************************)
InHand(r) == pc[Daemon] \in {"send", "record"} /\ IsCurrent(Daemon, r)

BatchMatchesTable ==
    /\ pc[Daemon] = "idle" => batch[Daemon] = {}
    /\ \A r \in batch[Daemon] :
          /\ r.attempts <= MaxRetries
          /\ queue[r.id].status = (IF InHand(r) THEN "sending" ELSE "pending")
          /\ queue[r.id].attempts =
                (IF InHand(r) THEN r.attempts + 1 ELSE r.attempts)

AttemptsLeft ==
    \A i \in Id : /\ queue[i].status = "absent" => queue[i].attempts = 0
                  /\ queue[i].status = "pending" => queue[i].attempts <= MaxRetries

SoleInv == BatchMatchesTable /\ AttemptsLeft

LEMMA SoleInit == Init => SoleInv
  BY QueueAssumption
  DEF Init, SoleInv, BatchMatchesTable, AttemptsLeft, Absent

\* The rows of a batch are told apart by their ids.
LEMMA IdsDiffer ==
  ASSUME TypeOK, SoleInv, NEW r \in batch[Daemon], NEW q \in batch[Daemon],
         r.id = q.id
  PROVE  r = q
<1>1. r \in Row /\ q \in Row
  BY QueueAssumption DEF TypeOK
<1>2. InHand(r) <=> InHand(q)
  BY DEF InHand, IsCurrent
<1>3. r.attempts = q.attempts
  BY <1>1, <1>2 DEF SoleInv, BatchMatchesTable, Row
<1>4. QED
  BY <1>1, <1>3 DEF Row

LEMMA SoleStep ==
  ASSUME Worker = {Daemon}, TypeOK, SoleInv, [Next]_vars
  PROVE  SoleInv'
<1> USE QueueAssumption DEF SoleInv, BatchMatchesTable, AttemptsLeft
<1>r. \A r \in batch[Daemon] : r \in Row /\ r.id \in Id /\ r.attempts \in Nat
  BY DEF TypeOK, Row
<1>q. \A i \in Id : queue[i] \in [status : Status, attempts : Nat]
  BY DEF TypeOK
<1>1. CASE QueueAlert
  <2>1. PICK i \in Id : /\ queue[i] = Absent
                        /\ queue' = [queue EXCEPT ![i].status = "pending"]
    BY <1>1 DEF QueueAlert
  <2>2. \A r \in batch[Daemon] : r.id # i
    BY <2>1 DEF Absent
  <2>3. \A j \in Id : j # i => queue'[j] = queue[j]
    BY <2>1 DEF TypeOK
  <2>4. queue'[i].status = "pending" /\ queue'[i].attempts = 0
    BY <2>1 DEF TypeOK, Absent
  <2>5. AttemptsLeft'
    BY <2>3, <2>4
  <2>6. UNCHANGED <<pc, batch>>
    BY <1>1 DEF QueueAlert
  <2>7. BatchMatchesTable'
    BY <2>2, <2>3, <2>6, <1>r DEF InHand, IsCurrent
  <2>8. QED
    BY <2>5, <2>7
<1>2. CASE SelectPending(Daemon)
  <2>1. AttemptsLeft'
    BY <1>2 DEF SelectPending
  <2>2. \A r \in Selected : /\ r.id \in Id
                            /\ queue[r.id].status = "pending"
                            /\ queue[r.id].attempts = r.attempts
                            /\ r.attempts <= MaxRetries
    <3>1. ASSUME NEW r \in Selected
          PROVE  \E i \in Pending : r = [id |-> i, attempts |-> queue[i].attempts]
      BY DEF Selected
    <3>2. QED
      BY <3>1 DEF Pending
  <2>3. batch'[Daemon] = Selected /\ UNCHANGED queue
    BY <1>2 DEF SelectPending, TypeOK
  <2>4. pc'[Daemon] = (IF Selected = {} THEN "idle" ELSE "mark")
    BY <1>2 DEF SelectPending, TypeOK
  <2>5. QED
    BY <2>1, <2>2, <2>3, <2>4 DEF InHand
<1>3. CASE MarkSending(Daemon)
  <2>1. PICK r \in batch[Daemon] :
          /\ IsCurrent(Daemon, r)
          /\ queue' = [queue EXCEPT ![r.id].status = "sending",
                                    ![r.id].attempts = @ + 1]
    BY <1>3 DEF MarkSending, Mark
  <2>2. pc[Daemon] = "mark" /\ pc'[Daemon] = "send" /\ UNCHANGED batch
    BY <1>3 DEF MarkSending, Mark, TypeOK
  <2>3. \A j \in Id : j # r.id => queue'[j] = queue[j]
    BY <2>1 DEF TypeOK
  <2>4. /\ queue'[r.id].status = "sending"
        /\ queue'[r.id].attempts = r.attempts + 1
    BY <2>1, <2>2, <1>r DEF TypeOK, InHand
  <2>5. AttemptsLeft'
    BY <2>3, <2>4, <1>r
  <2>6. ASSUME NEW q \in batch[Daemon], q # r
        PROVE  /\ ~InHand(q)'
               /\ queue'[q.id] = queue[q.id]
    <3>1. q.id # r.id
      BY <2>6, IdsDiffer
    <3>2. r.id <= q.id /\ r.id \in Nat /\ q.id \in Nat
      BY <2>1, <1>r DEF IsCurrent, Id
    <3>3. ~IsCurrent(Daemon, q)'
      BY <2>2, <3>1, <3>2 DEF IsCurrent
    <3>4. QED
      BY <2>3, <3>1, <3>3, <1>r DEF InHand
  <2>7. InHand(r)'
    BY <2>1, <2>2 DEF InHand, IsCurrent
  <2>8. \A q \in batch[Daemon] : ~InHand(q)
    BY <2>2 DEF InHand
  <2>9. BatchMatchesTable'
    <3>1. ASSUME NEW q \in batch[Daemon]
          PROVE /\ q.attempts <= MaxRetries
                /\ queue'[q.id].status = (IF InHand(q)' THEN "sending" ELSE "pending")
                /\ queue'[q.id].attempts =
                      (IF InHand(q)' THEN q.attempts + 1 ELSE q.attempts)
      <4>1. CASE q = r
        BY <4>1, <2>4, <2>7
      <4>2. CASE q # r
        BY <4>2, <2>6, <2>8
      <4>3. QED
        BY <4>1, <4>2
    <3>2. QED
      BY <3>1, <2>2
  <2>10. QED
    BY <2>5, <2>9
<1>4. CASE Send(Daemon)
  BY <1>4 DEF Send, TypeOK, InHand, IsCurrent
<1>5. CASE Record(Daemon)
  <2>1. PICK r \in batch[Daemon] :
          /\ IsCurrent(Daemon, r)
          /\ queue' = [queue EXCEPT ![r.id].status = Outcome(r, sent[Daemon])]
          /\ batch' = [batch EXCEPT ![Daemon] = @ \ {r}]
          /\ pc' = [pc EXCEPT ![Daemon] =
                       IF batch[Daemon] = {r} THEN "idle" ELSE "mark"]
    BY <1>5 DEF Record
  <2>2. pc[Daemon] = "record"
    BY <1>5 DEF Record
  <2>3. \A j \in Id : j # r.id => queue'[j] = queue[j]
    BY <2>1 DEF TypeOK
  <2>4. /\ queue'[r.id].status = Outcome(r, sent[Daemon])
        /\ queue'[r.id].attempts = r.attempts + 1
    BY <2>1, <2>2, <1>r DEF TypeOK, InHand
  <2>5. Outcome(r, sent[Daemon]) = "pending" => r.attempts + 1 <= MaxRetries
    BY <1>r DEF Outcome
  <2>6. Outcome(r, sent[Daemon]) # "absent"
    BY DEF Outcome
  <2>7. AttemptsLeft'
    BY <2>3, <2>4, <2>5, <2>6
  <2>8. /\ batch'[Daemon] = batch[Daemon] \ {r}
        /\ pc'[Daemon] = (IF batch[Daemon] = {r} THEN "idle" ELSE "mark")
    BY <2>1 DEF TypeOK
  <2>9. ASSUME NEW q \in batch[Daemon], q # r
        PROVE  ~InHand(q) /\ queue'[q.id] = queue[q.id]
    <3>1. q.id # r.id
      BY <2>9, IdsDiffer
    <3>2. r.id <= q.id /\ r.id \in Nat /\ q.id \in Nat
      BY <2>1, <1>r DEF IsCurrent, Id
    <3>3. ~IsCurrent(Daemon, q)
      BY <3>1, <3>2 DEF IsCurrent
    <3>4. QED
      BY <2>3, <3>1, <3>3, <1>r DEF InHand
  <2>10. BatchMatchesTable'
    BY <2>8, <2>9 DEF InHand
  <2>11. QED
    BY <2>7, <2>10
<1>6. CASE Abort(Daemon)
  BY <1>6 DEF Abort, TypeOK
<1>7. CASE UNCHANGED vars
  BY <1>7 DEF vars, InHand, IsCurrent
<1>8. QED
  BY <1>1, <1>2, <1>3, <1>4, <1>5, <1>6, <1>7 DEF Next, Work

(***************************************************************************)
(* With honest channels a row that is waiting was never delivered: a send  *)
(* that fails did not arrive, and a killed send leaves the row 'sending'.  *)
(***************************************************************************)
WaitingIsUndelivered ==
    /\ DeliveredAtMostOnce
    /\ \A i \in Id : queue[i].status \in {"absent", "pending"} => delivered[i] = 0
    /\ \A r \in batch[Daemon] :
          (InHand(r) /\ (pc[Daemon] = "record" => ~sent[Daemon])) =>
              delivered[r.id] = 0

LEMMA DeliveredInit == Init => WaitingIsUndelivered
  BY QueueAssumption
  DEF Init, WaitingIsUndelivered, DeliveredAtMostOnce

LEMMA DeliveredStep ==
  ASSUME Worker = {Daemon}, ~LateAnswers,
         TypeOK, SoleInv, WaitingIsUndelivered, [Next]_vars
  PROVE  WaitingIsUndelivered'
<1> USE QueueAssumption DEF WaitingIsUndelivered, DeliveredAtMostOnce
<1>r. \A r \in batch[Daemon] : r \in Row /\ r.id \in Id /\ r.attempts \in Nat
  BY DEF TypeOK, Row
<1>1. CASE QueueAlert
  <2>1. PICK i \in Id : /\ queue[i] = Absent
                        /\ queue' = [queue EXCEPT ![i].status = "pending"]
    BY <1>1 DEF QueueAlert
  <2>2. \A j \in Id : j # i => queue'[j] = queue[j]
    BY <2>1 DEF TypeOK
  <2>3. delivered[i] = 0
    BY <2>1 DEF Absent
  <2>4. QED
    BY <1>1, <2>2, <2>3 DEF QueueAlert, InHand, IsCurrent
<1>2. CASE SelectPending(Daemon)
  BY <1>2 DEF SelectPending, TypeOK, InHand
<1>3. CASE MarkSending(Daemon)
  <2>1. PICK r \in batch[Daemon] :
          /\ IsCurrent(Daemon, r)
          /\ queue' = [queue EXCEPT ![r.id].status = "sending",
                                    ![r.id].attempts = @ + 1]
    BY <1>3 DEF MarkSending, Mark
  <2>2. /\ pc[Daemon] = "mark" /\ pc'[Daemon] = "send"
        /\ UNCHANGED <<batch, delivered>>
    BY <1>3 DEF MarkSending, Mark, TypeOK
  <2>3. \A j \in Id : j # r.id => queue'[j] = queue[j]
    BY <2>1 DEF TypeOK
  <2>4. queue'[r.id].status = "sending"
    BY <2>1, <1>r DEF TypeOK
  <2>5. queue[r.id].status = "pending"
    BY <2>2 DEF SoleInv, BatchMatchesTable, InHand
  <2>6. \A q \in batch[Daemon] : InHand(q)' => q.id = r.id
    BY <2>1, <2>2, <1>r DEF InHand, IsCurrent, Id
  <2>7. QED
    BY <2>2, <2>3, <2>4, <2>5, <2>6, <1>r
<1>4. CASE Send(Daemon)
  <2>1. /\ pc[Daemon] = "send" /\ pc'[Daemon] = "record"
        /\ UNCHANGED <<queue, batch>>
    BY <1>4 DEF Send, TypeOK
  <2>2. \A r \in batch[Daemon] : InHand(r)' <=> InHand(r)
    BY <2>1 DEF InHand, IsCurrent
  <2>3. CASE UNCHANGED delivered
    BY <2>1, <2>2, <2>3
  <2>4. ASSUME NEW r \in batch[Daemon], NEW ok \in {TRUE}, IsCurrent(Daemon, r),
               sent' = [sent EXCEPT ![Daemon] = ok],
               delivered' = [delivered EXCEPT ![r.id] = @ + 1]
        PROVE  WaitingIsUndelivered'
    <3>1. sent'[Daemon]
      BY <2>4 DEF TypeOK
    <3>2. InHand(r)
      BY <2>1, <2>4 DEF InHand
    <3>3. delivered[r.id] = 0 /\ queue[r.id].status = "sending"
      BY <2>1, <3>2 DEF SoleInv, BatchMatchesTable
    <3>4. \A j \in Id : delivered'[j] = (IF j = r.id THEN 1 ELSE delivered[j])
      BY <2>4, <3>3, <1>r DEF TypeOK
    <3>5. QED
      BY <2>1, <3>1, <3>3, <3>4, <1>r DEF TypeOK
  <2>5. QED
    BY <1>4, <2>3, <2>4 DEF Send
<1>5. CASE Record(Daemon)
  <2>1. PICK r \in batch[Daemon] :
          /\ IsCurrent(Daemon, r)
          /\ queue' = [queue EXCEPT ![r.id].status = Outcome(r, sent[Daemon])]
          /\ batch' = [batch EXCEPT ![Daemon] = @ \ {r}]
          /\ pc' = [pc EXCEPT ![Daemon] =
                       IF batch[Daemon] = {r} THEN "idle" ELSE "mark"]
    BY <1>5 DEF Record
  <2>2. pc[Daemon] = "record" /\ InHand(r) /\ UNCHANGED delivered
    BY <1>5, <2>1 DEF Record, InHand
  <2>3. \A j \in Id : j # r.id => queue'[j] = queue[j]
    BY <2>1 DEF TypeOK
  <2>4. queue'[r.id].status = Outcome(r, sent[Daemon])
    BY <2>1, <1>r DEF TypeOK
  <2>5. queue'[r.id].status \in {"absent", "pending"} => delivered[r.id] = 0
    BY <2>2, <2>4 DEF Outcome
  <2>6. \A q \in batch'[Daemon] : ~InHand(q)'
    BY <2>1 DEF InHand, TypeOK
  <2>7. QED
    BY <2>2, <2>3, <2>5, <2>6
<1>6. CASE Abort(Daemon)
  BY <1>6 DEF Abort, TypeOK
<1>7. CASE UNCHANGED vars
  BY <1>7 DEF vars, InHand, IsCurrent
<1>8. QED
  BY <1>1, <1>2, <1>3, <1>4, <1>5, <1>6, <1>7 DEF Next, Work

(***************************************************************************)
(* DeliveredAtMostOnce: one process working on the queue, over channels    *)
(* whose failure answers are true, never delivers a notification twice,    *)
(* whatever kills and database errors interrupt it.                        *)
(***************************************************************************)
THEOREM AtMostOnce ==
  ASSUME Worker = {Daemon}, ~LateAnswers
  PROVE  Spec => []DeliveredAtMostOnce
<1>1. Spec => []SoleInv
  BY SoleInit, SoleStep, TypeCorrect, PTL DEF Spec
<1>2. Spec => []WaitingIsUndelivered
  BY <1>1, DeliveredInit, DeliveredStep, TypeCorrect, PTL DEF Spec
<1>3. QED
  BY <1>2, PTL DEF WaitingIsUndelivered

(***************************************************************************)
(* Refinement                                                              *)
(***************************************************************************)
LEMMA FateOf ==
  ASSUME TypeOK, NEW i \in Id
  PROVE  /\ queue[i].status = "absent" => Fate[i] = "none"
         /\ queue[i].status \in {"pending", "sending"} => Fate[i] = "queued"
         /\ queue[i].status \in {"sent", "failed"} => Fate[i] = queue[i].status
  BY DEF Fate

LEMMA RefinesInit == Init => Abstract!OInit
<1> SUFFICES ASSUME Init PROVE Abstract!OInit
  OBVIOUS
<1>1. \A i \in Id : Fate[i] = "none"
  BY TypeInit, FateOf DEF Init, Absent
<1>2. Fate = [m \in Id |-> "none"]
  BY <1>1 DEF Fate
<1>3. [i \in Id |-> queue[i].attempts] = [m \in Id |-> 0]
  BY DEF Init, Absent
<1>4. QED
  BY <1>2, <1>3 DEF Abstract!OInit

LEMMA RefinesStep ==
  ASSUME Worker = {Daemon}, TypeOK, SoleInv, [Next]_vars
  PROVE  [Abstract!ONext]_(Abstract!ovars)
<1> USE QueueAssumption
<1> DEFINE tries == [i \in Id |-> queue[i].attempts]
<1>t. TypeOK'
  BY TypeStep
<1>r. \A r \in batch[Daemon] : r \in Row /\ r.id \in Id /\ r.attempts \in Nat
  BY DEF TypeOK, Row
<1>u. CASE UNCHANGED queue
  BY <1>u DEF Abstract!ovars, Fate
\* A step that moves one row moves its fate and its attempts, and no other.
<1>o. ASSUME NEW i \in Id, \A j \in Id : j # i => queue'[j] = queue[j]
      PROVE  /\ Fate' = [Fate EXCEPT ![i] = Fate'[i]]
             /\ tries' = [tries EXCEPT ![i] = queue'[i].attempts]
  BY <1>o DEF Fate
<1>1. CASE QueueAlert
  <2>1. PICK i \in Id : /\ queue[i] = Absent
                        /\ queue' = [queue EXCEPT ![i].status = "pending"]
    BY <1>1 DEF QueueAlert
  <2>2. \A j \in Id : j # i => queue'[j] = queue[j]
    BY <2>1 DEF TypeOK
  <2>3. queue'[i].status = "pending" /\ queue'[i].attempts = queue[i].attempts
    BY <2>1 DEF TypeOK
  <2>4. Fate[i] = "none" /\ Fate'[i] = "queued"
    BY <2>1, <2>3, <1>t, FateOf DEF Absent, Fate
  <2>5. tries' = tries
    BY <2>3, <1>o, <2>2
  <2>6. Abstract!Enqueue(i)
    BY <2>2, <2>4, <2>5, <1>o DEF Abstract!Enqueue
  <2>7. QED
    BY <2>6 DEF Abstract!ONext
<1>3. CASE MarkSending(Daemon)
  <2>1. PICK r \in batch[Daemon] :
          queue' = [queue EXCEPT ![r.id].status = "sending",
                                 ![r.id].attempts = @ + 1]
    BY <1>3 DEF MarkSending, Mark
  <2>2. \A j \in Id : j # r.id => queue'[j] = queue[j]
    BY <2>1 DEF TypeOK
  <2>3. /\ queue[r.id].status = "pending"
        /\ queue[r.id].attempts = r.attempts
        /\ r.attempts <= MaxRetries
    BY <1>3 DEF MarkSending, Mark, SoleInv, BatchMatchesTable, InHand
  <2>4. /\ queue'[r.id].status = "sending"
        /\ queue'[r.id].attempts = r.attempts + 1
    BY <2>1, <2>3, <1>r DEF TypeOK
  <2>5. Fate[r.id] = "queued" /\ Fate'[r.id] = "queued"
    BY <2>3, <2>4, <1>r DEF Fate
  <2>6. Fate' = Fate
    BY <2>2, <2>5, <1>r DEF Fate
  <2>7. tries[r.id] <= MaxRetries
    BY <2>3, <1>r
  <2>8. tries' = [tries EXCEPT ![r.id] = @ + 1]
    BY <2>2, <2>3, <2>4, <1>o, <1>r
  <2>9. Abstract!Attempt(r.id)
    BY <2>5, <2>6, <2>7, <2>8 DEF Abstract!Attempt
  <2>10. QED
    BY <2>9, <1>r DEF Abstract!ONext
<1>5. CASE Record(Daemon)
  <2>1. PICK r \in batch[Daemon] :
          /\ IsCurrent(Daemon, r)
          /\ queue' = [queue EXCEPT ![r.id].status = Outcome(r, sent[Daemon])]
    BY <1>5 DEF Record
  <2>2. \A j \in Id : j # r.id => queue'[j] = queue[j]
    BY <2>1 DEF TypeOK
  <2>3. /\ queue[r.id].status = "sending"
        /\ queue[r.id].attempts = r.attempts + 1
        /\ r.attempts <= MaxRetries
    BY <1>5, <2>1 DEF Record, SoleInv, BatchMatchesTable, InHand
  <2>4. /\ queue'[r.id].status = Outcome(r, sent[Daemon])
        /\ queue'[r.id].attempts = queue[r.id].attempts
    BY <2>1, <1>r DEF TypeOK
  <2>5. Fate[r.id] = "queued"
    BY <2>3, <1>r DEF Fate
  <2>6. tries' = tries
    BY <2>2, <2>4
  <2>7. CASE Outcome(r, sent[Daemon]) = "sent"
    <3>1. Fate'[r.id] = "sent" /\ tries[r.id] > 0
      BY <2>3, <2>4, <2>7, <1>r DEF Fate
    <3>2. Abstract!Succeed(r.id)
      BY <2>2, <2>5, <2>6, <3>1, <1>o, <1>r DEF Abstract!Succeed
    <3>3. QED
      BY <3>2, <1>r DEF Abstract!ONext
  <2>8. CASE Outcome(r, sent[Daemon]) = "failed"
    <3>1. r.attempts >= MaxRetries
      BY <2>8 DEF Outcome
    <3>2. Fate'[r.id] = "failed" /\ tries[r.id] >= MaxRetries
      BY <2>3, <2>4, <2>8, <3>1, <1>r DEF Fate
    <3>3. Abstract!GiveUp(r.id)
      BY <2>2, <2>5, <2>6, <3>2, <1>o, <1>r DEF Abstract!GiveUp
    <3>4. QED
      BY <3>3, <1>r DEF Abstract!ONext
  <2>9. CASE Outcome(r, sent[Daemon]) = "pending"
    <3>1. Fate'[r.id] = "queued"
      BY <2>4, <2>9, <1>r DEF Fate
    <3>2. Fate' = Fate
      BY <2>2, <2>5, <3>1, <1>r DEF Fate
    <3>3. QED
      BY <2>6, <3>2 DEF Abstract!ovars
  <2>10. QED
    BY <2>7, <2>8, <2>9, OutcomeType
<1>8. QED
  BY <1>u, <1>1, <1>3, <1>5
  DEF Next, Work, SelectPending, Send, Abort, vars

(***************************************************************************)
(* ImplementsOutbox: process_queue, run by one process, decides a          *)
(* notification once, gives up only after MaxRetries attempts, and never   *)
(* attempts it more than once again.                                       *)
(***************************************************************************)
THEOREM Refinement ==
  ASSUME Worker = {Daemon}
  PROVE  Spec => ImplementsOutbox
<1>1. Spec => []SoleInv
  BY SoleInit, SoleStep, TypeCorrect, PTL DEF Spec
<1>2. Spec => Abstract!OSpec
  BY <1>1, RefinesInit, RefinesStep, TypeCorrect, PTL DEF Spec, Abstract!OSpec
<1>3. QED
  BY <1>2 DEF ImplementsOutbox

(***************************************************************************)
(* From a row to a message: the two components in the daemon's poll        *)
(***************************************************************************)
\* AlertEngine again, with what is proved of it.
EP == INSTANCE AlertEngineProofs WITH pc <- at, faults <- failed

\* Every step of the poll is one of the queue, or leaves it alone.
LEMMA QueueSteps == [DeliveryNext]_deliveryVars => [Next]_vars
<1> SUFFICES ASSUME [DeliveryNext]_deliveryVars PROVE [Next]_vars
  OBVIOUS
<1>1. CASE UNCHANGED vars
  BY <1>1
<1>2. CASE QueueAlerts
  BY <1>2 DEF QueueAlerts, Next
<1>3. CASE ProcessQueue
  BY <1>3, QueueAssumption DEF ProcessQueue, Next
<1>4. CASE AbortQueue
  BY <1>4, QueueAssumption DEF AbortQueue, Next
<1> QED
  BY <1>1, <1>2, <1>3, <1>4
  DEF DeliveryNext, deliveryVars, Tick, Elsewhere, RunRules

(***************************************************************************)
(* In the daemon's poll the queue does what it does on its own, so that    *)
(* all that is proved of it holds there too.                               *)
(***************************************************************************)
THEOREM PollRunsQueue == DeliverySpec => Spec
<1>1. DeliveryInit => Init
  BY DEF DeliveryInit
<1> QED
  BY <1>1, QueueSteps, PTL DEF DeliverySpec, Spec

(***************************************************************************)
(* The engine in the poll.  Both instances of its module are the same.     *)
(***************************************************************************)
LEMMA SameCardinality == ASSUME NEW S PROVE Engine!Cardinality(S) = EP!Cardinality(S)
  BY DEF Engine!Cardinality, EP!Cardinality

LEMMA SameSuffices ==
  ASSUME NEW f
  PROVE  Engine!Deadline(f) = EP!Deadline(f) /\ (Engine!Suffices(f) <=> EP!Suffices(f))
<1>1. Engine!Deadline(f) = EP!Deadline(f)
  BY DEF Engine!Deadline, EP!Deadline
<1>2. Engine!Lasting(f) = EP!Lasting(f)
  BY <1>1 DEF Engine!Lasting, EP!Lasting
<1> QED BY <1>1, <1>2, SameCardinality DEF Engine!Suffices, EP!Suffices

LEMMA SameInit == Engine!Init => EP!Init
  BY DEF Engine!Init, EP!Init

LEMMA SameTick == Engine!Tick => EP!Tick
  BY DEF Engine!Tick, EP!Tick, Engine!local, EP!local

LEMMA SameRows == Engine!Record \/ Engine!Withdraw => EP!Record \/ EP!Withdraw
<1>1. Engine!Rule = EP!Rule /\ Engine!Nobody = EP!Nobody
  BY DEF Engine!Rule, EP!Rule, Engine!Nobody, EP!Nobody
<1>2. Engine!Record => EP!Record
  <2>1. ASSUME NEW r, NEW q, NEW t PROVE Engine!NewRow(r, q, t) = EP!NewRow(r, q, t)
    BY <1>1 DEF Engine!NewRow, EP!NewRow
  <2> QED
    BY <1>1, <2>1, SameCardinality DEF Engine!Record, EP!Record, Engine!local, EP!local
<1>3. Engine!Withdraw => EP!Withdraw
  BY DEF Engine!Withdraw, EP!Withdraw, Engine!local, EP!local
<1> QED BY <1>2, <1>3

LEMMA SameBegin == ASSUME NEW p, Engine!Begin(p) PROVE EP!Begin(p)
  BY DEF Engine!Begin, EP!Begin, Engine!GoTo, EP!GoTo, Engine!Rule, EP!Rule

LEMMA SameKill == ASSUME NEW p, Engine!Kill(p) PROVE EP!Kill(p)
  BY DEF Engine!Kill, EP!Kill, Engine!Fail, EP!Fail

LEMMA SameQueueNext == Engine!QueueNext => EP!QueueNext
  BY DEF Engine!QueueNext, EP!QueueNext, Engine!Fail, EP!Fail

LEMMA SameEvaluate == ASSUME NEW p, Engine!Evaluate(p) PROVE EP!Evaluate(p)
<1>1. ASSUME NEW r PROVE Engine!GoTo(p, r) = EP!GoTo(p, r)
  BY DEF Engine!GoTo, EP!GoTo, Engine!Rule, EP!Rule
<1>2. Engine!Fail <=> EP!Fail
  BY DEF Engine!Fail, EP!Fail
<1>3. ASSUME NEW r PROVE Engine!Recent(r) <=> EP!Recent(r)
  BY DEF Engine!Recent, EP!Recent, Engine!AlertId, EP!AlertId
<1>4. ASSUME NEW r
      PROVE  Engine!Hits(r) = EP!Hits(r) /\ Engine!Reported(r) = EP!Reported(r)
  <2>1. Engine!Counted(r) = EP!Counted(r) /\ Engine!Nobody = EP!Nobody
    BY DEF Engine!Counted, EP!Counted, Engine!Nobody, EP!Nobody
  <2>2. \A s : Engine!CountOf(r, s) = EP!CountOf(r, s)
    BY <2>1, SameCardinality DEF Engine!CountOf, EP!CountOf
  <2>3. Engine!Hits(r) = EP!Hits(r)
    BY <2>1, <2>2 DEF Engine!Hits, EP!Hits
  <2>4. Engine!Reported(r) = EP!Reported(r)
    BY <2>2, <2>3, SameCardinality DEF Engine!Reported, EP!Reported
  <2> QED BY <2>3, <2>4
<1>5. ASSUME NEW r PROVE Engine!AfterError(r) = EP!AfterError(r)
  BY DEF Engine!AfterError, EP!AfterError, Engine!Rule, EP!Rule
<1>6. ASSUME NEW i PROVE Engine!Returned(p, i) = EP!Returned(p, i)
  BY DEF Engine!Returned, EP!Returned
<1>7. Engine!CheckRecent(p) => EP!CheckRecent(p)
  BY <1>1, <1>2, <1>3 DEF Engine!CheckRecent, EP!CheckRecent
<1>8. Engine!Query(p) => EP!Query(p)
  BY <1>1, <1>2, <1>4, <1>5 DEF Engine!Query, EP!Query
<1>9. Engine!StoreAlert(p) => EP!StoreAlert(p)
  BY <1>1, <1>2, <1>6 DEF Engine!StoreAlert, EP!StoreAlert
<1> QED BY <1>7, <1>8, <1>9 DEF Engine!Evaluate, EP!Evaluate

\* What AlertEngine assumes of its constants is what AlertDelivery does.
LEMMA EngineConstants == EP!EngineAssumption /\ EP!FewSubjects
<1>1. \A S : Engine!IsFiniteSet(S) = EP!IsFiniteSet(S)
  BY DEF Engine!IsFiniteSet, EP!IsFiniteSet
<1> QED
  BY <1>1, SameCardinality, DeliveryAssumption
  DEF Engine!EngineAssumption, EP!EngineAssumption, Engine!FewSubjects, EP!FewSubjects,
      Engine!Rule, EP!Rule


\* A step of the poll is one of the engine, or leaves the engine alone; but an
\* interrupted process_queue may bring the next poll forward.
LEMMA EngineSteps ==
  ASSUME [DeliveryNext]_deliveryVars
  PROVE  \/ [EP!Next]_(EP!vars) /\ UNCHANGED faults
         \/ /\ due' \in {due, now} /\ faults' = faults + 1 /\ AbortQueue
            /\ UNCHANGED <<now, facts, alerts, queued, at, rule, known, found, got, calls,
                           failed, about>>
<1>0. Daemon \in Runner
  BY EngineConstants DEF EP!EngineAssumption
<1>1. CASE Tick
  BY <1>1, SameTick DEF Tick, EP!Next, vars
<1>2. CASE Elsewhere
  <2>1. UNCHANGED faults
    BY <1>2 DEF Elsewhere, vars
  <2>2. CASE Engine!Record \/ Engine!Withdraw
    BY <2>1, <2>2, SameRows DEF EP!Next
  <2>3. ASSUME NEW p \in Runner \ {Daemon},
               Engine!Begin(p) \/ Engine!Evaluate(p) \/ Engine!Kill(p)
        PROVE  EP!Next
    BY <2>3, SameBegin, SameEvaluate, SameKill DEF EP!Next
  <2> QED BY <1>2, <2>1, <2>2, <2>3 DEF Elsewhere
<1>3. CASE RunRules
  BY <1>0, <1>3, SameBegin, SameEvaluate, SameKill DEF RunRules, EP!Next, vars
<1>4. CASE QueueAlerts
  BY <1>4, SameQueueNext DEF QueueAlerts, EP!Next, QueueAlert, vars
<1>5. CASE ProcessQueue \/ UNCHANGED deliveryVars
  <2>1. UNCHANGED faults /\ UNCHANGED engineVars
    BY <1>5 DEF ProcessQueue, SelectPending, Work, MarkSending, Mark, Send, Record,
                deliveryVars, vars
  <2> QED BY <2>1 DEF engineVars, EP!vars, EP!local
<1>6. CASE AbortQueue
  BY <1>6 DEF AbortQueue, Abort
<1> QED
  BY <1>1, <1>2, <1>3, <1>4, <1>5, <1>6 DEF DeliveryNext

\* what the engine's own proofs keep of it, at every step of the poll
EngineInv == EP!Inv /\ EP!Covered /\ EP!Own

LEMMA EngineStep ==
  ASSUME TypeOK, EngineInv, [DeliveryNext]_deliveryVars
  PROVE  EngineInv'
<1> USE DEF EngineInv
<1>1. CASE [EP!Next]_(EP!vars)
  BY <1>1, EP!StepInv, EP!CoveredStep, EP!OwnStep, EngineConstants DEF EP!Inv
<1>2. CASE /\ due' \in {due, now}
           /\ UNCHANGED <<now, facts, alerts, queued, at, rule, known, found, got, calls,
                          failed>>
  BY <1>2 DEF EP!Inv, EP!SeenIsOld, EP!TypeOK, EP!AlertId, EP!Covered, EP!Own
<1> QED BY <1>1, <1>2, EngineSteps

\* Rows are noticed in time until process_queue is interrupted.
LEMMA NoticeKept ==
  ASSUME TypeOK, EngineInv, faults = 0 => EP!NoticeInv, [DeliveryNext]_deliveryVars
  PROVE  (faults = 0 => EP!NoticeInv)'
<1>1. CASE [EP!Next]_(EP!vars) /\ UNCHANGED faults
  BY <1>1, EP!NoticeStep, EngineConstants DEF EngineInv, EP!Inv
<1>2. CASE faults' = faults + 1
  BY <1>2 DEF TypeOK
<1> QED BY <1>1, <1>2, EngineSteps

(***************************************************************************)
(* One row for each alert queued.                                          *)
(***************************************************************************)
OnceInv ==
    /\ about \in [Id -> Nat]
    /\ \A i \in Id : about[i] = 0 <=> queue[i] = Absent
    /\ \A i \in Id : about[i] # 0 => about[i] \in queued
    /\ \A i, j \in Id : about[i] # 0 /\ about[i] = about[j] => i = j

\* An alert that is queued gets the first free row; one that fails gets none.
LEMMA QueuedOne ==
  ASSUME TypeOK, EngineInv, OnceInv, QueueAlerts
  PROVE  \/ queued' = queued /\ UNCHANGED <<queue, about>>
         \/ \E a \in got, i \in Id :
               /\ a # 0 /\ a \notin queued /\ queued' = queued \cup {a}
               /\ queue[i] = Absent
               /\ queue' = [queue EXCEPT ![i].status = "pending"]
               /\ about' = [about EXCEPT ![i] = a]
<1>1. CASE queued' = queued
  BY <1>1 DEF QueueAlerts, vars
<1>2. CASE queued' # queued
  <2>1. PICK a \in got : queued' = queued \cup {a}
    BY <1>2 DEF QueueAlerts, Engine!QueueNext
  <2>2. a \notin queued /\ a # 0
    BY <1>2, <2>1 DEF EngineInv, EP!Inv, EP!TypeOK, EP!AlertId
  <2>3. (CHOOSE b \in queued' \ queued : TRUE) = a
    <3>1. queued' \ queued = {a}
      BY <2>1, <2>2
    <3> QED BY <3>1
  <2>4. PICK i \in Id : /\ queue[i] = Absent
                        /\ queue' = [queue EXCEPT ![i].status = "pending"]
    BY <1>2 DEF QueueAlerts, QueueAlert
  <2>5. \A j \in Id : queue'[j] = queue[j] <=> j # i
    BY <2>4 DEF TypeOK, Absent
  <2>6. about' = [about EXCEPT ![i] = a]
    BY <1>2, <2>3, <2>5 DEF QueueAlerts, OnceInv, Fetched
  <2> QED BY <2>1, <2>2, <2>4, <2>6
<1> QED BY <1>1, <1>2

\* process_queue neither adds a row nor takes an attempt back.
LEMMA RowsStay ==
  ASSUME Worker = {Daemon}, TypeOK, SoleInv,
         SelectPending(Daemon) \/ Work(Daemon) \/ Abort(Daemon), NEW i \in Id
  PROVE  /\ queue'[i] = Absent <=> queue[i] = Absent
         /\ queue'[i].attempts >= queue[i].attempts
<1>r. \A r \in batch[Daemon] : r \in Row /\ r.id \in Id /\ r.attempts \in Nat
  BY QueueAssumption DEF TypeOK, Row
<1>1. CASE UNCHANGED queue
  BY <1>1 DEF TypeOK
<1>2. CASE MarkSending(Daemon)
  <2>1. PICK r \in batch[Daemon] :
          queue' = [queue EXCEPT ![r.id].status = "sending", ![r.id].attempts = @ + 1]
    BY <1>2 DEF MarkSending, Mark
  <2>2. queue[r.id].status = "pending"
    BY <1>2 DEF MarkSending, Mark, SoleInv, BatchMatchesTable, InHand
  <2> QED BY <1>r, <2>1, <2>2 DEF TypeOK, Absent
<1>3. CASE Record(Daemon)
  <2>1. PICK r \in batch[Daemon] :
          /\ IsCurrent(Daemon, r)
          /\ queue' = [queue EXCEPT ![r.id].status = Outcome(r, sent[Daemon])]
    BY <1>3 DEF Record
  <2>2. queue[r.id].status = "sending"
    BY <1>3, <2>1 DEF Record, SoleInv, BatchMatchesTable, InHand
  <2>3. Outcome(r, sent[Daemon]) # "absent"
    BY DEF Outcome
  <2> QED BY <1>r, <2>1, <2>2, <2>3 DEF TypeOK, Absent
<1> QED
  BY <1>1, <1>2, <1>3 DEF Work, SelectPending, Send, Abort

LEMMA OnceStep ==
  ASSUME Worker = {Daemon}, TypeOK, SoleInv, EngineInv, OnceInv,
         [DeliveryNext]_deliveryVars
  PROVE  OnceInv'
<1>1. CASE QueueAlerts
  <2>1. CASE queued' = queued /\ UNCHANGED <<queue, about>>
    BY <2>1 DEF OnceInv
  <2>2. ASSUME NEW a \in got, NEW i \in Id, a # 0, a \notin queued,
               queued' = queued \cup {a}, queue[i] = Absent,
               queue' = [queue EXCEPT ![i].status = "pending"],
               about' = [about EXCEPT ![i] = a]
        PROVE  OnceInv'
    <3>1. a \in Nat
      BY DEF EngineInv, EP!Inv, EP!TypeOK, EP!AlertId
    <3>2. \A j \in Id : queue'[j] = Absent <=> (queue[j] = Absent /\ j # i)
      BY <2>2 DEF TypeOK, Absent
    <3> QED BY <2>2, <3>1, <3>2 DEF OnceInv
  <2> QED BY <1>1, <2>1, <2>2, QueuedOne
<1>2. CASE ProcessQueue \/ AbortQueue
  <2>1. UNCHANGED <<queued, about>>
    BY <1>2 DEF ProcessQueue, AbortQueue, engineVars
  <2>2. \A i \in Id : queue'[i] = Absent <=> queue[i] = Absent
    BY <1>2, RowsStay DEF ProcessQueue, AbortQueue
  <2> QED BY <2>1, <2>2 DEF OnceInv
<1>3. CASE Tick \/ Elsewhere \/ RunRules \/ UNCHANGED deliveryVars
  <2>1. UNCHANGED <<queue, queued, about>>
    BY <1>3 DEF Tick, Elsewhere, RunRules, deliveryVars, engineVars, vars, Engine!Tick,
           Engine!Record, Engine!Withdraw, Engine!Begin, Engine!Evaluate, Engine!Kill,
           Engine!CheckRecent, Engine!Query, Engine!StoreAlert
  <2> QED BY <2>1 DEF OnceInv
<1> QED
  BY <1>1, <1>2, <1>3 DEF DeliveryNext

(***************************************************************************)
(* What is proved of the queue, in the poll: it is typed, delivers nothing *)
(* twice and implements the outbox.                                        *)
(***************************************************************************)
THEOREM PollDelivers ==
  ASSUME Worker = {Daemon}, ~LateAnswers
  PROVE  DeliverySpec => [](TypeOK /\ DeliveredAtMostOnce) /\ ImplementsOutbox
<1>1. Spec => []TypeOK /\ []DeliveredAtMostOnce /\ ImplementsOutbox
  BY TypeCorrect, AtMostOnce, Refinement
<1> QED BY <1>1, PollRunsQueue, PTL

LEMMA DeliveryInvInit == DeliveryInit => EngineInv /\ OnceInv
<1> SUFFICES ASSUME DeliveryInit PROVE EngineInv /\ OnceInv
  OBVIOUS
<1>1. EP!Init
  BY SameInit DEF DeliveryInit
<1>2. EngineInv
  <2>1. EP!Inv
    BY <1>1, EP!InitInv, EngineConstants
  <2>2. EP!Covered /\ EP!Own
    BY <1>1, EngineConstants DEF EP!Init, EP!Covered, EP!Own, EP!AlertId
  <2> QED BY <2>1, <2>2 DEF EngineInv
<1>3. OnceInv
  BY DEF DeliveryInit, Init, OnceInv
<1> QED BY <1>2, <1>3

LEMMA DeliveryInvariance ==
  ASSUME Worker = {Daemon}
  PROVE  DeliverySpec => [](TypeOK /\ SoleInv /\ EngineInv /\ OnceInv)
<1>1. Spec => []SoleInv
  BY SoleInit, SoleStep, TypeCorrect, PTL DEF Spec
<1>2. TypeOK /\ SoleInv /\ EngineInv /\ OnceInv /\ [DeliveryNext]_deliveryVars
        => EngineInv' /\ OnceInv'
  BY EngineStep, OnceStep
<1> QED
  BY <1>1, <1>2, TypeCorrect, PollRunsQueue, DeliveryInvInit, PTL DEF DeliverySpec

(***************************************************************************)
(* ToldOnce: from the evaluation of a rule to the channel nobody is told   *)
(* twice of an alert, in any number of polls, wherever the daemon is       *)
(* killed and however often the panel evaluates the rules meanwhile.       *)
(***************************************************************************)
THEOREM EachToldOnce ==
  ASSUME Worker = {Daemon}, ~LateAnswers
  PROVE  DeliverySpec => []ToldOnce
<1>1. EngineInv /\ OnceInv /\ DeliveredAtMostOnce => ToldOnce
  BY DEF EngineInv, EP!Inv, EP!TypeOK, EP!AlertId, EP!Own, OnceInv, DeliveredAtMostOnce, ToldOnce
<1>2. Spec => []DeliveredAtMostOnce
  BY AtMostOnce
<1> QED
  BY <1>1, <1>2, PollRunsQueue, DeliveryInvariance, PTL

(***************************************************************************)
(* The two halves of the poll take turns: the rules run while the queue    *)
(* rests and the other way round.  So no row is added behind the selection *)
(* of process_queue, and each row that was never attempted (Fresh) and has *)
(* room in the batch is in it until its turn comes.                        *)
(***************************************************************************)
Fresh(i) == queue[i] # Absent /\ queue[i].attempts = 0

TurnInv ==
    /\ part \in {"rules", "queue"}
    /\ part = "queue" => at[Daemon] = "idle"
    /\ part = "rules" => pc[Daemon] = "idle"
    /\ \A a \in queued : \E i \in Id : about[i] = a
    /\ \A i \in Id : Fresh(i) => queue[i].status = "pending"
    /\ pc[Daemon] # "idle" =>
          \A i \in Id : (Fresh(i) /\ i \notin crowded) => \E r \in batch[Daemon] : r.id = i

\* What is pending and has room in the batch is selected.
LEMMA RoomSelected ==
  ASSUME TypeOK, NEW i \in Id, i \notin Overfull, queue[i].status = "pending"
  PROVE  \E r \in Selected : r.id = i
<1> DEFINE S == {k \in Pending : k < i}
<1>1. Waiting = Pending /\ i \in Pending
  BY DEF Waiting, Pending
<1>2. IsFiniteSet(Id)
  <2>1. 1 \in Int /\ MaxRows \in Int
    BY QueueAssumption
  <2> QED BY <2>1, FS_Interval DEF Id
<1>3. S \subseteq Id
  BY DEF Pending
<1>4. Cardinality(S) \in Nat /\ MaxItems \in Nat
  BY <1>2, <1>3, FS_Subset, FS_CardinalityType, QueueAssumption
<1>5. Cardinality(S) < MaxItems
  BY <1>1, <1>4 DEF Overfull
<1>6. [id |-> i, attempts |-> queue[i].attempts] \in Selected
  BY <1>1, <1>5 DEF Selected
<1> QED BY <1>6

\* What the others do leaves the daemon's run of the rules where it is.
LEMMA ElsewhereKeeps ==
  ASSUME EngineInv, Elsewhere
  PROVE  /\ at'[Daemon] = at[Daemon] /\ UNCHANGED <<vars, part, about, crowded, queued, now, due>>
         /\ failed' \in {failed, failed + 1}
<1>1. Daemon \in Runner /\ at \in [Runner -> {"idle", "check", "query", "store", "queue"}]
  BY EngineConstants DEF EngineInv, EP!Inv, EP!TypeOK, EP!EngineAssumption
<1>2. ASSUME NEW p \in Runner \ {Daemon},
             Engine!Begin(p) \/ Engine!Evaluate(p) \/ Engine!Kill(p)
      PROVE  at'[Daemon] = at[Daemon] /\ UNCHANGED <<queued, now, due>>
             /\ failed' \in {failed, failed + 1}
  <2>1. \A r : Engine!GoTo(p, r) => at'[Daemon] = at[Daemon]
    BY <1>1, <1>2 DEF Engine!GoTo
  <2> QED
    BY <1>1, <1>2, <2>1
    DEF Engine!Begin, Engine!Evaluate, Engine!Kill, Engine!CheckRecent, Engine!Query,
        Engine!StoreAlert, Engine!Fail
<1>3. Engine!Record \/ Engine!Withdraw => at'[Daemon] = at[Daemon]
         /\ UNCHANGED <<queued, now, due, failed>>
  BY DEF Engine!Record, Engine!Withdraw, Engine!local
<1> QED BY <1>2, <1>3 DEF Elsewhere

LEMMA TurnStep ==
  ASSUME Worker = {Daemon}, TypeOK, SoleInv, EngineInv, OnceInv, TurnInv,
         [DeliveryNext]_deliveryVars
  PROVE  TurnInv'
<1> USE QueueAssumption
<1>r. \A r \in batch[Daemon] : r \in Row /\ r.id \in Id /\ r.attempts \in Nat
  BY DEF TypeOK, Row
<1>1. CASE Tick \/ UNCHANGED deliveryVars
  BY <1>1 DEF Tick, Engine!Tick, Engine!local, deliveryVars, engineVars, vars, TurnInv, Fresh
<1>2. CASE Elsewhere
  BY <1>2, ElsewhereKeeps DEF vars, TurnInv, Fresh
<1>3. CASE RunRules
  <2>1. UNCHANGED <<vars, part, about, crowded, queued>> /\ part = "rules"
    BY <1>3
    DEF RunRules, Engine!Begin, Engine!Evaluate, Engine!Kill, Engine!CheckRecent, Engine!Query,
        Engine!StoreAlert
  <2> QED BY <2>1 DEF vars, TurnInv, Fresh
<1>4. CASE QueueAlerts
  <2>1. /\ part = "rules" /\ pc[Daemon] = "idle" /\ UNCHANGED <<pc, batch>>
        /\ part' = IF at'[Daemon] = "idle" THEN "queue" ELSE part
    BY <1>4 DEF QueueAlerts, QueueAlert, TurnInv, vars
  <2>2. CASE queued' = queued /\ UNCHANGED <<queue, about>>
    BY <2>1, <2>2 DEF TurnInv, Fresh
  <2>3. ASSUME NEW a \in got, NEW i \in Id, queued' = queued \cup {a}, queue[i] = Absent,
               queue' = [queue EXCEPT ![i].status = "pending"],
               about' = [about EXCEPT ![i] = a], a # 0
        PROVE  TurnInv'
    <3>1. \A j \in Id : j # i => queue'[j] = queue[j] /\ about'[j] = about[j]
      BY <2>3 DEF TypeOK, OnceInv
    <3>2. queue'[i].status = "pending" /\ about'[i] = a /\ about[i] = 0
      BY <2>3 DEF TypeOK, OnceInv
    <3>3. \A b \in queued : b # 0
      BY DEF EngineInv, EP!Inv, EP!TypeOK, EP!AlertId
    <3>4. \A b \in queued' : \E j \in Id : about'[j] = b
      BY <2>3, <3>1, <3>2, <3>3 DEF TurnInv
    <3>5. \A j \in Id : Fresh(j)' => queue'[j].status = "pending"
      BY <3>1, <3>2 DEF TurnInv, Fresh
    <3> QED BY <2>1, <3>4, <3>5 DEF TurnInv
  <2> QED BY <1>4, <2>1, <2>2, <2>3, QueuedOne
<1>5. CASE ProcessQueue
  <2>1. /\ part = "queue" /\ UNCHANGED <<queued, at, about>>
        /\ part' = IF pc'[Daemon] = "idle" THEN "rules" ELSE part
        /\ crowded \subseteq crowded'
    BY <1>5 DEF ProcessQueue, engineVars
  <2>2. \A i \in Id : Fresh(i)' => Fresh(i)
    <3>1. \A i \in Id : /\ queue'[i] = Absent <=> queue[i] = Absent
                        /\ queue'[i].attempts >= queue[i].attempts
      BY <1>5, RowsStay DEF ProcessQueue
    <3>2. \A i \in Id : queue[i].attempts \in Nat
      BY DEF TypeOK
    <3> QED BY <3>1, <3>2 DEF Fresh
  <2>3. CASE SelectPending(Daemon)
    <3>1. UNCHANGED queue /\ batch'[Daemon] = Selected
      BY <2>3 DEF SelectPending, TypeOK
    <3>2. \A i \in Id : (Fresh(i) /\ i \notin Overfull) => \E r \in Selected : r.id = i
      BY RoomSelected DEF TurnInv
    <3>3. Overfull \subseteq crowded'
      BY <1>5, <2>3 DEF ProcessQueue, SelectPending, Work, MarkSending, Mark, Send, Record
    <3> QED BY <2>1, <3>1, <3>2, <3>3 DEF TurnInv, Fresh
  <2>4. CASE MarkSending(Daemon)
    <3>1. PICK r \in batch[Daemon] :
            queue' = [queue EXCEPT ![r.id].status = "sending", ![r.id].attempts = @ + 1]
      BY <2>4 DEF MarkSending, Mark
    <3>2. ~Fresh(r.id)'
      BY <1>r, <3>1 DEF Fresh, TypeOK
    <3>3. \A i \in Id : i # r.id => queue'[i] = queue[i]
      BY <3>1 DEF TypeOK
    <3>4. UNCHANGED batch /\ pc[Daemon] # "idle" /\ pc'[Daemon] # "idle"
      BY <2>4 DEF MarkSending, Mark, TypeOK
    <3> QED BY <2>1, <2>2, <3>2, <3>3, <3>4 DEF TurnInv
  <2>5. CASE Send(Daemon)
    BY <2>1, <2>5 DEF Send, TypeOK, TurnInv, Fresh
  <2>6. CASE Record(Daemon)
    <3>1. PICK r \in batch[Daemon] :
            /\ IsCurrent(Daemon, r)
            /\ queue' = [queue EXCEPT ![r.id].status = Outcome(r, sent[Daemon])]
            /\ batch' = [batch EXCEPT ![Daemon] = @ \ {r}]
            /\ pc' = [pc EXCEPT ![Daemon] = IF batch[Daemon] = {r} THEN "idle" ELSE "mark"]
      BY <2>6 DEF Record
    <3>2. queue[r.id].attempts = r.attempts + 1 /\ pc[Daemon] = "record"
      BY <2>6, <3>1 DEF Record, SoleInv, BatchMatchesTable, InHand
    <3>3. ~Fresh(r.id)'
      BY <1>r, <3>1, <3>2 DEF Fresh, TypeOK
    <3>4. \A i \in Id : i # r.id => queue'[i] = queue[i]
      BY <3>1 DEF TypeOK
    <3>5. batch'[Daemon] = batch[Daemon] \ {r}
      BY <3>1 DEF TypeOK
    <3> QED BY <2>1, <2>2, <3>2, <3>3, <3>4, <3>5 DEF TurnInv
  <2> QED BY <1>5, <2>3, <2>4, <2>5, <2>6 DEF ProcessQueue, Work
<1>6. CASE AbortQueue
  <2>1. /\ pc[Daemon] # "idle" /\ pc'[Daemon] = "idle" /\ part' = "rules"
        /\ UNCHANGED <<queue, queued, about, at>>
    BY <1>6 DEF AbortQueue, Abort, TypeOK
  <2> QED BY <2>1 DEF TurnInv, Fresh
<1> QED
  BY <1>1, <1>2, <1>3, <1>4, <1>5, <1>6 DEF DeliveryNext

(***************************************************************************)
(* When the daemon rests between two polls everything it raised is told:   *)
(* the first half left nothing to queue (Covered), every alert queued has  *)
(* its row, and the second half attempted all rows it had room for.  A row *)
(* the last poll came too late for (Heard) was noticed by the poll before, *)
(* and told before this one began.                                         *)
(***************************************************************************)
\* by the panel, or the channel was given it, or the batch had no room for it
Told(a) ==
    \/ alerts[a].by # Daemon
    \/ \E i \in Id : about[i] = a /\ (queue[i].attempts > 0 \/ i \in crowded)

ToldOf(f) ==
    \E a \in DOMAIN alerts : /\ alerts[a].rule = f.rule
                             /\ alerts[a].at + Dedup[f.rule] >= f.stored
                             /\ Told(a)

Heard(f) == EP!Suffices(f) /\ EP!Start > f.stored + Period + Slack => ToldOf(f)

\* between two polls
Rested == at[Daemon] = "idle" /\ part = "rules"

TellInv ==
    /\ Rested => \A i \in Id : Fresh(i) => i \in crowded
    /\ part = "queue" => now <= EP!Start + Slack
    /\ \A f \in facts : Heard(f)

\* the steps keep what is told and what is queued
LEMMA ToldLasts ==
  ASSUME Worker = {Daemon}, TypeOK, SoleInv, EngineInv, OnceInv,
         [DeliveryNext]_deliveryVars, NEW f, ToldOf(f)
  PROVE  ToldOf(f)'
<1>1. PICK a \in DOMAIN alerts : /\ alerts[a].rule = f.rule
                                 /\ alerts[a].at + Dedup[f.rule] >= f.stored
                                 /\ Told(a)
  BY DEF ToldOf
<1>2. a \in DOMAIN alerts' /\ alerts'[a] = alerts[a]
  <2>1. CASE alerts' = alerts
    BY <2>1
  <2>2. ASSUME NEW p \in Runner,
               alerts' = Append(alerts, [rule |-> rule[p], at |-> now, by |-> p])
        PROVE  a \in DOMAIN alerts' /\ alerts'[a] = alerts[a]
    <3>1. EP!TypeOK
      BY DEF EngineInv, EP!Inv
    <3>2. /\ DOMAIN alerts' = 1..(Len(alerts) + 1)
          /\ \A i \in 1..Len(alerts) : alerts'[i] = alerts[i]
      BY <2>2, <3>1, EP!StoredTypes, EngineConstants
    <3>3. DOMAIN alerts = 1..Len(alerts) /\ Len(alerts) \in Nat
      BY <3>1, EP!AlertTypes, EngineConstants DEF EP!AlertId
    <3> QED BY <3>2, <3>3
  <2>3. alerts' = alerts \/ \E p \in Runner :
           alerts' = Append(alerts, [rule |-> rule[p], at |-> now, by |-> p])
    BY EngineSteps
    DEF EP!Next, EP!Tick, EP!Record, EP!Withdraw, EP!Begin, EP!Evaluate, EP!CheckRecent,
        EP!Query, EP!StoreAlert, EP!QueueNext, EP!Kill, EP!vars, EP!local
  <2> QED BY <2>1, <2>2, <2>3
<1>3. Told(a)'
  <2>1. CASE alerts[a].by # Daemon
    BY <1>2, <2>1 DEF Told
  <2>2. ASSUME NEW i \in Id, about[i] = a, queue[i].attempts > 0 \/ i \in crowded
        PROVE  Told(a)'
    <3>1. a # 0
      BY DEF EngineInv, EP!Inv, EP!TypeOK, EP!AlertId
    <3>2. about'[i] = about[i] /\ queue'[i].attempts >= queue[i].attempts
      <4>1. CASE QueueAlerts
        <5>1. queue[i] # Absent
          BY <2>2, <3>1 DEF OnceInv
        <5> QED BY <4>1, <5>1, QueuedOne DEF TypeOK, OnceInv
      <4>2. CASE ProcessQueue \/ AbortQueue
        BY <4>2, RowsStay DEF ProcessQueue, AbortQueue
      <4>3. CASE Tick \/ Elsewhere \/ RunRules \/ UNCHANGED deliveryVars
        BY <4>3 DEF Tick, Elsewhere, RunRules, deliveryVars, vars, TypeOK
      <4> QED BY <4>1, <4>2, <4>3 DEF DeliveryNext
    <3>3. queue[i].attempts \in Nat /\ queue'[i].attempts \in Nat
      BY QueueSteps, TypeStep DEF TypeOK
    <3>4. crowded \subseteq crowded'
      BY DEF DeliveryNext, Tick, Elsewhere, RunRules, QueueAlerts, ProcessQueue, AbortQueue,
             deliveryVars
    <3>5. queue'[i].attempts > 0 \/ i \in crowded'
      BY <2>2, <3>2, <3>3, <3>4
    <3> QED BY <2>2, <3>2, <3>5 DEF Told
  <2> QED BY <1>1, <2>1, <2>2 DEF Told
<1> QED BY <1>1, <1>2, <1>3 DEF ToldOf

\* Between two polls whatever the daemon raised is told, but for what found MaxItems
\* others pending before it.
LEMMA RestedTold ==
  ASSUME TypeOK, EngineInv, OnceInv, TurnInv, TellInv, Rested, failed = 0,
         NEW a \in DOMAIN alerts
  PROVE  Told(a)
<1> SUFFICES ASSUME alerts[a].by = Daemon PROVE Told(a)
  BY DEF Told
<1>1. a \in queued /\ a # 0
  BY DEF EngineInv, EP!Inv, EP!TypeOK, EP!AlertId, EP!Covered, Rested
<1>2. PICK i \in Id : about[i] = a
  BY <1>1 DEF TurnInv
<1>3. queue[i] # Absent
  BY <1>1, <1>2 DEF OnceInv
<1>4. queue[i].attempts \in Nat /\ (queue[i].attempts = 0 => i \in crowded)
  BY <1>3 DEF TellInv, Rested, Fresh, TypeOK
<1>5. queue[i].attempts > 0 \/ i \in crowded
  BY <1>4
<1> QED BY <1>2, <1>5 DEF Told

LEMMA FaultsStay ==
  ASSUME TypeOK, EngineInv, [DeliveryNext]_deliveryVars, failed' = 0, faults' = 0
  PROVE  failed = 0 /\ faults = 0 /\ ~AbortQueue
<1>1. faults \in Nat /\ failed \in Nat
  BY DEF TypeOK, EngineInv, EP!Inv, EP!TypeOK
<1>2. ~AbortQueue
  BY <1>1 DEF AbortQueue, Abort
<1>3. faults = 0 /\ [EP!Next]_(EP!vars)
  BY <1>1, <1>2, EngineSteps
<1>4. failed' \in {failed, failed + 1}
  BY <1>3
  DEF EP!Next, EP!Tick, EP!Record, EP!Withdraw, EP!Begin, EP!Evaluate, EP!CheckRecent,
      EP!Query, EP!StoreAlert, EP!QueueNext, EP!Kill, EP!Fail, EP!vars, EP!local
<1> QED BY <1>1, <1>2, <1>3, <1>4

\* process_queue leaves no row unattempted that had room in its batch.
LEMMA QueueEnds ==
  ASSUME Worker = {Daemon}, TypeOK, SoleInv, TurnInv, ProcessQueue, pc'[Daemon] = "idle",
         NEW i \in Id, Fresh(i)'
  PROVE  i \in crowded'
<1> USE QueueAssumption
<1>1. Fresh(i)
  <2>1. queue'[i] = Absent <=> queue[i] = Absent
    BY RowsStay DEF ProcessQueue
  <2>2. queue'[i].attempts >= queue[i].attempts
    BY RowsStay DEF ProcessQueue
  <2>3. queue[i].attempts \in Nat
    BY DEF TypeOK
  <2> QED BY <2>1, <2>2, <2>3 DEF Fresh
<1> SUFFICES ASSUME i \notin crowded' PROVE FALSE
  OBVIOUS
<1>2. i \notin crowded
  BY DEF ProcessQueue
<1>3. CASE SelectPending(Daemon)
  <2>1. Selected = {}
    BY <1>3 DEF SelectPending, TypeOK
  <2>2. Overfull \subseteq crowded'
    BY <1>3 DEF ProcessQueue, SelectPending, Work, MarkSending, Mark, Send, Record
  <2> QED BY <1>1, <2>1, <2>2, RoomSelected DEF TurnInv
<1>4. CASE Work(Daemon)
  <2>1. Record(Daemon)
    BY <1>4 DEF Work, MarkSending, Mark, Send, TypeOK
  <2>2. PICK r \in batch[Daemon] :
          /\ IsCurrent(Daemon, r)
          /\ queue' = [queue EXCEPT ![r.id].status = Outcome(r, sent[Daemon])]
          /\ pc' = [pc EXCEPT ![Daemon] = IF batch[Daemon] = {r} THEN "idle" ELSE "mark"]
    BY <2>1 DEF Record
  <2>3. queue[r.id].attempts = r.attempts + 1 /\ pc[Daemon] = "record" /\ r.attempts \in Nat
    BY <2>1, <2>2 DEF Record, SoleInv, BatchMatchesTable, InHand, TypeOK, Row
  <2>4. batch[Daemon] = {r}
    BY <2>2 DEF TypeOK
  <2>5. i = r.id
    BY <1>1, <1>2, <2>3, <2>4 DEF TurnInv
  <2> QED BY <1>1, <2>3, <2>5 DEF Fresh
<1> QED BY <1>3, <1>4 DEF ProcessQueue

LEMMA Times ==
  ASSUME EngineInv
  PROVE  /\ now \in Nat /\ due \in Nat /\ EP!Start \in Int /\ Period \in Nat /\ Slack \in Nat
         /\ due = EP!Start + Period /\ Daemon \in Runner
         /\ at \in [Runner -> {"idle", "check", "query", "store", "queue"}]
<1>1. EP!TypeOK
  BY DEF EngineInv, EP!Inv
<1> QED BY <1>1, EP!TimeTypes, EngineConstants DEF EP!TypeOK

\* The run of the rules starts where a poll is due, or goes on.
LEMMA RunRulesSteps ==
  ASSUME EngineInv, RunRules, failed = 0, failed' = 0
  PROVE  /\ at'[Daemon] # "idle" /\ UNCHANGED <<vars, part, about, crowded>> /\ part = "rules"
         /\ \/ due' = due /\ UNCHANGED <<now, facts>>
            \/ /\ at[Daemon] = "idle" /\ due' = now + Period
               /\ UNCHANGED <<now, facts, alerts>>
<1>1. ASSUME NEW r, Engine!GoTo(Daemon, r) PROVE at'[Daemon] \in {"check", "queue"}
  BY <1>1, Times DEF Engine!GoTo
<1>2. CASE Engine!Begin(Daemon)
  BY <1>1, <1>2 DEF RunRules, Engine!Begin
<1>3. CASE Engine!Evaluate(Daemon)
  BY <1>1, <1>3, Times
  DEF RunRules, Engine!Evaluate, Engine!CheckRecent, Engine!Query, Engine!StoreAlert
<1>4. CASE Engine!Kill(Daemon)
  BY <1>4 DEF Engine!Kill, Engine!Fail
<1> QED BY <1>2, <1>3, <1>4 DEF RunRules

LEMMA TellStep ==
  ASSUME Worker = {Daemon}, TypeOK, SoleInv, EngineInv, OnceInv, TurnInv,
         [DeliveryNext]_deliveryVars, (failed = 0 /\ faults = 0) => TellInv,
         faults = 0 => EP!NoticeInv
  PROVE  ((failed = 0 /\ faults = 0) => TellInv)'
<1> SUFFICES ASSUME failed' = 0, faults' = 0 PROVE TellInv'
  OBVIOUS
<1>0. /\ failed = 0 /\ faults = 0 /\ ~AbortQueue /\ TellInv
      /\ EP!PollsKeepUp /\ \A f \in facts : EP!InTime(f)
  BY FaultsStay DEF EP!NoticeInv
<1>1. Rested' => \A i \in Id : Fresh(i)' => i \in crowded'
  <2>1. CASE Tick \/ Elsewhere \/ UNCHANGED deliveryVars
    <3>1. UNCHANGED <<vars, part, crowded>> /\ at'[Daemon] = at[Daemon]
      BY <2>1, ElsewhereKeeps DEF Tick, Engine!Tick, Engine!local, deliveryVars, engineVars
    <3> QED BY <1>0, <3>1 DEF TellInv, Rested, Fresh, vars
  <2>2. CASE RunRules
    BY <1>0, <2>2, RunRulesSteps DEF Rested
  <2>3. CASE QueueAlerts
    BY <2>3 DEF QueueAlerts, Rested
  <2>4. CASE ProcessQueue
    <3>1. Rested' => pc'[Daemon] = "idle"
      BY <2>4 DEF ProcessQueue, Rested
    <3> QED BY <2>4, <3>1, QueueEnds
  <2> QED BY <1>0, <2>1, <2>2, <2>3, <2>4 DEF DeliveryNext
<1>2. part' = "queue" => now' <= EP!Start' + Slack
  <2> SUFFICES ASSUME part' = "queue" PROVE now' <= due' - Period + Slack
    BY DEF EP!Start
  <2>0. part = "queue" => now <= due - Period + Slack
    BY <1>0 DEF TellInv, EP!Start
  <2>1. CASE Tick
    <3>1. part = "queue" /\ now + Period < due + Slack /\ now' = now + 1 /\ due' = due
      BY <2>1 DEF Tick, Engine!Tick
    <3> QED BY <3>1, Times
  <2>2. CASE Elsewhere \/ UNCHANGED deliveryVars
    BY <2>0, <2>2, ElsewhereKeeps DEF deliveryVars, engineVars
  <2>3. CASE RunRules
    BY <1>0, <2>3, RunRulesSteps
  <2>4. CASE QueueAlerts
    <3>1. at[Daemon] = "queue" /\ UNCHANGED <<now, due>>
      BY <2>4 DEF QueueAlerts, Engine!QueueNext
    <3> QED BY <1>0, <3>1 DEF EP!PollsKeepUp, EP!Start
  <2>5. CASE ProcessQueue
    BY <2>0, <2>5 DEF ProcessQueue, engineVars
  <2> QED BY <1>0, <2>1, <2>2, <2>3, <2>4, <2>5 DEF DeliveryNext
<1>3. ASSUME NEW f \in facts', EP!Suffices(f)', EP!Start' > f.stored + Period + Slack
      PROVE  ToldOf(f)'
  <2>1. due' = due \/ (Rested /\ due' = now + Period)
    <3>1. CASE RunRules
      BY <1>0, <3>1, RunRulesSteps DEF Rested
    <3>2. CASE ~RunRules
      BY <1>0, <3>2, ElsewhereKeeps
      DEF DeliveryNext, Tick, Engine!Tick, QueueAlerts, Engine!QueueNext, ProcessQueue,
          deliveryVars, engineVars
    <3> QED BY <3>1, <3>2
  <2>2. EP!Start' = EP!Start \/ EP!Start' = now
    BY <2>1, Times DEF EP!Start
  <2>3. [EP!Next]_(EP!vars)
    BY <1>0, EngineSteps
  <2>4. f.stored \in Nat
    BY <2>3, EP!RowTypes, EngineConstants DEF EngineInv, EP!Inv
  <2>5. ~(now <= f.stored)
    BY <1>0, <1>3, <2>2, <2>4, Times DEF EP!PollsKeepUp
  <2>6. f \in facts /\ EP!Suffices(f)
    BY <1>0, <1>3, <2>3, <2>5, EP!SufficesBefore, EngineConstants
    DEF EngineInv, EP!Inv, EP!NoticeInv
  <2>7. CASE due' = due
    <3>1. ToldOf(f)
      BY <1>0, <1>3, <2>6, <2>7 DEF TellInv, Heard, EP!Start
    <3> QED BY <3>1, ToldLasts
  <2>8. CASE Rested /\ due' = now + Period
    <3>1. EP!Start' = now
      BY <2>8, Times DEF EP!Start
    <3>2. now <= EP!Start + Period + Slack
      BY <1>0 DEF EP!PollsKeepUp
    <3>3. ~(EP!Start <= f.stored)
      BY <1>3, <2>4, <3>1, <3>2, Times
    <3>4. EP!Noticed(f)
      BY <1>0, <2>6, <2>8, <3>3 DEF EP!InTime, EP!Ahead, Rested
    <3>5. ToldOf(f)
      BY <1>0, <2>8, <3>4, RestedTold DEF EP!Noticed, EP!AlertId, ToldOf
    <3> QED BY <3>5, ToldLasts
  <2> QED BY <2>1, <2>7, <2>8
<1> QED BY <1>1, <1>2, <1>3 DEF TellInv, Heard

LEMMA TellImplies ==
  ASSUME TypeOK, EngineInv, OnceInv, TurnInv, failed = 0, faults = 0, TellInv, EP!NoticeInv
  PROVE  ToldInTime
<1> SUFFICES ASSUME NEW f \in facts, EP!Suffices(f), now > f.stored + Period + 2 * Slack
             PROVE  ToldOf(f)
  BY SameSuffices DEF ToldInTime, EP!Deadline, ToldOf, Told
<1>0. EP!PollsKeepUp /\ EP!InTime(f) /\ f.stored \in Nat
  BY DEF EP!NoticeInv, EngineInv, EP!Inv, EP!TypeOK
<1>1. CASE EP!Start > f.stored + Period + Slack
  BY <1>1 DEF TellInv, Heard
<1>2. CASE ~(EP!Start > f.stored + Period + Slack)
  <2>1. now > EP!Start + Slack
    BY <1>0, <1>2, Times
  <2>2. Rested
    BY <2>1, <1>0, Times DEF EP!PollsKeepUp, TellInv, TurnInv, Rested
  <2>3. ~(EP!Start <= f.stored)
    BY <1>0, Times DEF EP!PollsKeepUp
  <2>4. EP!Noticed(f)
    BY <1>0, <2>2, <2>3 DEF EP!InTime, EP!Ahead, Rested
  <2> QED BY <2>2, <2>4, RestedTold DEF EP!Noticed, EP!AlertId, ToldOf
<1> QED BY <1>1, <1>2

(***************************************************************************)
(* ToldInTime: while nothing fails, what happens often enough for a rule   *)
(* has been handed to the channel within a poll period and twice its       *)
(* slack, unless the panel raised it first or MaxItems notifications were  *)
(* pending before it, where only one process works on the queue.           *)
(***************************************************************************)
THEOREM ToldSoon ==
  ASSUME Worker = {Daemon}
  PROVE  DeliverySpec => []ToldInTime
<1> DEFINE Timely == /\ (failed = 0 /\ faults = 0) => TellInv
                     /\ faults = 0 => EP!NoticeInv
<1>1. DeliveryInit => TurnInv /\ Timely
  <2> SUFFICES ASSUME DeliveryInit PROVE TurnInv /\ Timely
    OBVIOUS
  <2>1. EP!Init
    BY SameInit DEF DeliveryInit
  <2>2. EP!NoticeInv
    BY <2>1, EP!NoticeInit, EngineConstants
  <2>3. TurnInv
    BY <2>1, EngineConstants, QueueAssumption
    DEF EP!EngineAssumption, EP!Init, DeliveryInit, Init, TurnInv, Fresh
  <2>4. TellInv
    BY <2>1 DEF EP!Init, DeliveryInit, Init, TellInv, Fresh
  <2> QED BY <2>2, <2>3, <2>4
<1>2. TypeOK /\ SoleInv /\ EngineInv /\ OnceInv /\ TurnInv /\ Timely
        /\ [DeliveryNext]_deliveryVars => TurnInv' /\ Timely'
  BY TurnStep, TellStep, NoticeKept
<1>3. TypeOK /\ SoleInv /\ EngineInv /\ OnceInv /\ TurnInv /\ Timely => ToldInTime
  BY TellImplies DEF ToldInTime
<1> HIDE DEF Timely
<1> QED
  BY <1>1, <1>2, <1>3, DeliveryInvariance, PTL DEF DeliverySpec

LEMMA EngineInvariance == DeliverySpec => [](TypeOK /\ EngineInv)
<1>1. DeliveryInit => EngineInv
  BY DeliveryInvInit
<1> QED
  BY <1>1, EngineStep, TypeCorrect, PollRunsQueue, PTL DEF DeliverySpec

(***************************************************************************)
(* What is proved of the engine holds in the poll too, where an            *)
(* interrupted process_queue may bring the next poll forward: alerts keep  *)
(* their distance, what is raised is queued, and until such an interrupt   *)
(* what happens often enough is noticed.                                   *)
(***************************************************************************)
THEOREM PollEvaluates ==
  DeliverySpec => /\ EP!AlertsApart
                  /\ []EP!RaisedIsQueued
                  /\ [](faults = 0 => EP!NoticedInTime)
<1> DEFINE Kept == faults = 0 => EP!NoticeInv
<1>1. EngineInv /\ [DeliveryNext]_deliveryVars => [EP!StoredApart]_(EP!vars)
  <2> SUFFICES ASSUME EngineInv, [DeliveryNext]_deliveryVars
               PROVE  [EP!StoredApart]_(EP!vars)
    OBVIOUS
  <2>1. CASE [EP!Next]_(EP!vars)
    BY <2>1, EP!ApartStep, EngineConstants DEF EngineInv
  <2>2. CASE alerts' = alerts
    BY <2>2 DEF EP!AlertId, EP!StoredApart
  <2> QED BY <2>1, <2>2, EngineSteps
<1>2. EngineInv => EP!RaisedIsQueued
  BY DEF EngineInv, EP!Covered, EP!RaisedIsQueued
<1>3. DeliveryInit => Kept
  BY SameInit, EP!NoticeInit, EngineConstants DEF DeliveryInit
<1>4. TypeOK /\ EngineInv /\ Kept /\ [DeliveryNext]_deliveryVars => Kept'
  BY NoticeKept
<1>5. EngineInv /\ Kept => (faults = 0 => EP!NoticedInTime)
  BY EP!NoticeImplies, EngineConstants DEF EngineInv, EP!Inv
<1>6. DeliverySpec => []EP!RaisedIsQueued
  BY <1>2, EngineInvariance, PTL
<1>7. DeliverySpec => [](faults = 0 => EP!NoticedInTime)
  <2> HIDE DEF Kept
  <2> QED BY <1>3, <1>4, <1>5, EngineInvariance, PTL DEF DeliverySpec
<1>8. DeliverySpec => EP!AlertsApart
  <2>1. DeliverySpec => [][EP!StoredApart]_(EP!vars)
    BY <1>1, EngineInvariance, PTL DEF DeliverySpec
  <2> QED BY <2>1 DEF EP!AlertsApart, EP!StoredApart
<1> QED BY <1>6, <1>7, <1>8
=================================================================================
